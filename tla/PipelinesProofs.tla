-------------------------- MODULE PipelinesProofs --------------------------
(***************************************************************************)
(* Bytes go through a pipe in order, its semaphores count them and the end *)
(* of the file comes last, for any size of the buffer, any programs and    *)
(* any number of pipelines run one after the other.                        *)
(***************************************************************************)
EXTENDS Pipelines, SemaphoresProofs

\* The user starts a pipeline when the processes of the one before have ended.
OneAtATime == [][OpenPipe => \A p \in Users : ~Alive(p)]_allVars

USE TablesAssumption, PipesAssumption DEF INITPID, NULL, NoSem

-----------------------------------------------------------------------------
(***************************************************************************)
(* A stream and its semaphores                                             *)
(***************************************************************************)
SemIdsOf(st) == {st.readSem, st.writeSem} \ {NoSem}

\* The bytes read are the first ones, and the buffer holds the others
InOrder(st) ==
    /\ Len(st.got) <= st.sent
    /\ \A i \in DOMAIN st.got : st.got[i] = i
    /\ st.dataAvailable = st.sent - Len(st.got)
    /\ st.readPos = Len(st.got) % BUFFER_SIZE /\ st.writePos = st.sent % BUFFER_SIZE
    /\ \A i \in (Len(st.got) + 1)..st.sent : st.buffer[(i - 1) % BUFFER_SIZE] = i

\* ... and its semaphores, as long as an end is in use
Counts(st, ss) ==
    /\ st.status = "live"
    /\ st.readSem = st.writeSem => st.readSem = NoSem
    /\ \A s \in SemIdsOf(st) : ss[s].used
    /\ st.writeSem # NoSem => ss[st.writeSem].value + st.dataAvailable = BUFFER_SIZE
    /\ st.readSem # NoSem => /\ ss[st.readSem].value >= st.dataAvailable
                             /\ ~st.eof => ss[st.readSem].value = st.dataAvailable
    /\ st.eof => st.writers <= 0

DataOK(strs, ss) ==
    /\ \A r \in Streams : InOrder(strs[r])
    /\ \A r \in Streams : HasEnd(strs[r]) => Counts(strs[r], ss)
    /\ \A r, t \in Streams :
         HasEnd(strs[r]) /\ HasEnd(strs[t]) /\ r # t =>
           SemIdsOf(strs[r]) \cap SemIdsOf(strs[t]) = {}
    /\ \A r \in Streams :
         strs[r].status = "fresh" => strs[r].sent = 0 /\ ~strs[r].eof

-----------------------------------------------------------------------------
(***************************************************************************)
(* Who holds the ends of the pipe of the pipeline that runs                *)
(***************************************************************************)
ReadFD  == shell.fds[1]
WriteFD == shell.fds[2]
Opened  == ReadFD # NoFD
Pipe    == fileDescriptors[ReadFD].resource

Writer(p) == p \in Users /\ Alive(p) /\ fds[p] = <<STDIN, WriteFD>>
Reader(p) == p \in Users /\ Alive(p) /\ fds[p] = <<ReadFD, STDOUT>>

Nobody == \A p \in Users : ~Alive(p)

ReadOpen  == fileDescriptors[ReadFD].isOpen
WriteOpen == fileDescriptors[WriteFD].isOpen

\* The descriptors of the pipe
EndsOK ==
    /\ ReadFD \in FDs /\ WriteFD \in FDs /\ ReadFD # WriteFD
    /\ Pipe \in Streams /\ fileDescriptors[WriteFD].resource = Pipe
    /\ fileDescriptors[ReadFD].mode = "R" /\ fileDescriptors[WriteFD].mode = "W"
    /\ streams[Pipe].status # "fresh"

\* Each end is held by one process at most, and counted as long as it is open
HeldOK ==
    /\ \A p \in Users : Alive(p) => Writer(p) \/ Reader(p)
    /\ \A p, q \in Users : Alive(p) /\ Alive(q) /\ fds[p] = fds[q] => p = q
    /\ \A p \in Users : Writer(p) => streams[Pipe].writers = IF WriteOpen THEN 1 ELSE 0
    /\ \A p \in Users : Reader(p) => /\ streams[Pipe].readers = IF ReadOpen THEN 1 ELSE 0
                                     /\ streams[Pipe].writers \in {0, 1}

ReadAll == Len(streams[Pipe].got) = streams[Pipe].sent /\ streams[Pipe].writers = 0

\* A program uses its end before it closes it, and a reader that is done with reading
\* has seen the end of the file
ProgramsOK ==
    /\ \A p \in Users : Writer(p) /\ pc[p] \in {"run", "write"} => WriteOpen
    /\ \A p \in Users : Reader(p) /\ pc[p] = "run" => ReadOpen
    /\ \A p \in Users : Reader(p) => pc[p] # "write"
    /\ \A p \in Users : Reader(p) /\ Reads(prog[p]) /\ pc[p] \in {"close", "exit"} => ReadAll
    /\ \A p \in Users : Alive(p) => closing[p] \in Seq({fds[p][1], fds[p][2]})

\* The stages of execute_pipe
ShellOK ==
    /\ pc[SHELLPID] \in {"left", "right", "close0", "close1"} => Opened
    /\ pc[SHELLPID] \in {"left", "close0", "close1"} => Nobody
    /\ pc[SHELLPID] = "left" => ReadOpen /\ WriteOpen
                                /\ streams[Pipe].readers = 1 /\ streams[Pipe].writers = 1
    /\ pc[SHELLPID] = "right" => /\ \A p \in Users : Alive(p) => Writer(p) /\ p = shell.pid
                                 /\ shell.pid \in Users
                                 /\ ReadOpen /\ streams[Pipe].readers = 1
                                 /\ streams[Pipe].writers \in {0, 1}
    /\ pc[SHELLPID] = "close0" => /\ ReadOpen /\ streams[Pipe].readers = 1
                                  /\ streams[Pipe].writers \in {0, 1}
    /\ pc[SHELLPID] = "close1" => streams[Pipe].readers <= 0

HoldersOK ==
    /\ Opened => EndsOK /\ HeldOK /\ ProgramsOK
    /\ ~Opened => Nobody
    /\ ShellOK

\* The semaphores of pipes count bytes: their values are not negative
CountedSem == {sem \in Sem : sem.value \in Nat}

KernelType == [fds : [FDs -> FD], streams : [Streams -> Stream], sems : [SemIds -> CountedSem],
               state : [PIDs -> States], locked : SUBSET SemIds]

Points == {"gone", "run", "write", "close", "exit", "spin",
           "prompt", "left", "right", "close0", "close1", "wait"}

PipeTypeOK ==
    /\ Kernel \in KernelType /\ cpu \in PIDs
    /\ inWait \in [PIDs -> SemIds \cup {NoSem}]
    /\ pc \in [PIDs -> Points] /\ prog \in [PIDs -> Programs]
    /\ fds \in [PIDs -> Seq(Int)] /\ closing \in [PIDs -> Seq(Int)]
    /\ left \in [PIDs -> Int]
    /\ foreground \in [PIDs -> BOOLEAN] /\ waitPid \in [PIDs -> PIDs \cup {NULL}]
    /\ shell \in [left : Programs, right : Programs, fds : Seq(Int), pid : PIDs \cup {NULL},
                  bg : BOOLEAN]

PipeInv == PipeTypeOK /\ DataOK(streams, sems) /\ HoldersOK

-----------------------------------------------------------------------------
(***************************************************************************)
(* The bytes of a stream                                                   *)
(***************************************************************************)

\* The fields of a stream
LEMMA StreamFields ==
    ASSUME NEW st \in Stream
    PROVE  /\ st.buffer \in [Cells -> Nat] /\ st.got \in Seq(Nat) /\ Len(st.got) \in Nat
           /\ st.readPos \in Cells /\ st.writePos \in Cells
           /\ st.sent \in Nat /\ st.dataAvailable \in Int
           /\ st.readers \in Int /\ st.writers \in Int /\ st.eof \in BOOLEAN
           /\ st.readSem \in SemIds \cup {NoSem} /\ st.writeSem \in SemIds \cup {NoSem}
           /\ SemIdsOf(st) \subseteq SemIds
  BY DEF Stream, SemIdsOf

\* The cell after that of a position is that of the next position.
LEMMA NextCell ==
    ASSUME NEW a \in Nat
    PROVE  /\ a % BUFFER_SIZE \in Cells
           /\ ((a % BUFFER_SIZE) + 1) % BUFFER_SIZE = (a + 1) % BUFFER_SIZE
<1> DEFINE x == a % BUFFER_SIZE
           q == a \div BUFFER_SIZE
<1>1. q \in Nat /\ x \in 0..(BUFFER_SIZE - 1) /\ a = BUFFER_SIZE * q + x
  BY Division
<1>2. BUFFER_SIZE * (q + 1) = BUFFER_SIZE * q + BUFFER_SIZE
  BY <1>1
<1> HIDE DEF x, q
<1>3. CASE x + 1 = BUFFER_SIZE
  <2>1. a + 1 = BUFFER_SIZE * (q + 1) + 0 /\ x + 1 = BUFFER_SIZE * 1 + 0
    BY <1>1, <1>2, <1>3
  <2>2. (a + 1) % BUFFER_SIZE = 0 /\ (x + 1) % BUFFER_SIZE = 0
    BY <1>1, <2>1, RemainderIs
  <2> QED
    BY <1>1, <2>2 DEF x, Cells
<1>4. CASE x + 1 < BUFFER_SIZE
  <2>1. a + 1 = BUFFER_SIZE * q + (x + 1) /\ x + 1 = BUFFER_SIZE * 0 + (x + 1)
    BY <1>1
  <2>2. (a + 1) % BUFFER_SIZE = x + 1 /\ (x + 1) % BUFFER_SIZE = x + 1
    BY <1>1, <1>4, <2>1, RemainderIs
  <2> QED
    BY <1>1, <2>2 DEF x, Cells
<1> QED
  BY <1>1, <1>3, <1>4

\* Positions closer than the size of the buffer have different cells.
LEMMA DifferentCells ==
    ASSUME NEW a \in Nat, NEW b \in Nat, a < b, b - a < BUFFER_SIZE
    PROVE  a % BUFFER_SIZE # b % BUFFER_SIZE
<1> DEFINE x == a % BUFFER_SIZE
           y == b % BUFFER_SIZE
           q == a \div BUFFER_SIZE
           u == b \div BUFFER_SIZE
           d == u - q
<1>1. q \in Nat /\ x \in 0..(BUFFER_SIZE - 1) /\ a = BUFFER_SIZE * q + x
  BY Division
<1>2. u \in Nat /\ y \in 0..(BUFFER_SIZE - 1) /\ b = BUFFER_SIZE * u + y
  BY Division
<1>3. d \in Int /\ BUFFER_SIZE * u = BUFFER_SIZE * q + BUFFER_SIZE * d
  BY <1>1, <1>2
<1> HIDE DEF x, y, q, u, d
<1>4. CASE d >= 1
  <2>1. BUFFER_SIZE * d = BUFFER_SIZE + BUFFER_SIZE * (d - 1) /\ BUFFER_SIZE * (d - 1) >= 0
    BY <1>3, <1>4
  <2> QED
    BY <1>1, <1>2, <1>3, <2>1 DEF x, y
<1>5. CASE d <= 0
  <2>1. BUFFER_SIZE * d <= 0
    BY <1>3, <1>5
  <2> QED
    BY <1>1, <1>2, <1>3, <2>1 DEF x, y
<1> QED
  BY <1>3, <1>4, <1>5

\* A stream after a byte was taken from it
ByteTaken(st) ==
    [st EXCEPT !.got = Append(st.got, st.buffer[st.readPos]),
               !.readPos = (st.readPos + 1) % BUFFER_SIZE,
               !.dataAvailable = st.dataAvailable - 1]

\* ... and after a byte was put into it
BytePut(st) ==
    [st EXCEPT !.sent = st.sent + 1,
               !.buffer = [st.buffer EXCEPT ![st.writePos] = st.sent + 1],
               !.writePos = (st.writePos + 1) % BUFFER_SIZE,
               !.dataAvailable = st.dataAvailable + 1]

\* What both leave alone
SameUse(st, new) ==
    /\ new.status = st.status /\ new.readers = st.readers /\ new.writers = st.writers
    /\ new.readSem = st.readSem /\ new.writeSem = st.writeSem

\* The byte taken is the next one that was sent.
LEMMA TakenInOrder ==
    ASSUME NEW st \in Stream, InOrder(st), st.dataAvailable > 0
    PROVE  /\ ByteTaken(st) \in Stream /\ InOrder(ByteTaken(st))
           /\ SameUse(st, ByteTaken(st)) /\ ByteTaken(st).eof = st.eof
           /\ ByteTaken(st).dataAvailable = st.dataAvailable - 1
<1> DEFINE n == Len(st.got)
           new == ByteTaken(st)
           byte == st.buffer[st.readPos]
<1>1. /\ n \in Nat /\ st.sent \in Nat /\ n < st.sent /\ st.got \in Seq(Nat)
      /\ st.readPos = n % BUFFER_SIZE /\ st.dataAvailable = st.sent - n
  BY StreamFields DEF InOrder
<1>2. byte = n + 1
  <2>1. n + 1 \in (Len(st.got) + 1)..st.sent
    BY <1>1
  <2>2. st.buffer[((n + 1) - 1) % BUFFER_SIZE] = n + 1
    BY <2>1 DEF InOrder
  <2>3. (n + 1) - 1 = n
    BY <1>1
  <2> QED
    BY <1>1, <2>2, <2>3
<1>3. /\ (st.readPos + 1) % BUFFER_SIZE = (n + 1) % BUFFER_SIZE
      /\ (n + 1) % BUFFER_SIZE \in Cells
  <2>1. n + 1 \in Nat
    BY <1>1
  <2>2. (n + 1) % BUFFER_SIZE \in Cells
    BY <2>1, NextCell
  <2>3. ((n % BUFFER_SIZE) + 1) % BUFFER_SIZE = (n + 1) % BUFFER_SIZE
    BY <1>1, NextCell
  <2> HIDE DEF n
  <2> QED
    BY <1>1, <2>2, <2>3
<1> HIDE DEF byte
<1>4. /\ Append(st.got, byte) \in Seq(Nat) /\ Len(Append(st.got, byte)) = n + 1
      /\ \A i \in 1..n : Append(st.got, byte)[i] = st.got[i]
      /\ Append(st.got, byte)[n + 1] = byte
      /\ DOMAIN Append(st.got, byte) = 1..(n + 1) /\ DOMAIN st.got = 1..n
  BY <1>1, <1>2
<1> DEFINE next == Append(st.got, byte)
           pos  == (st.readPos + 1) % BUFFER_SIZE
           size == st.dataAvailable - 1
<1>5. /\ next \in Seq(Nat) /\ pos \in Cells /\ size \in Int
      /\ pos = (n + 1) % BUFFER_SIZE /\ size = st.sent - (n + 1)
  <2>1. pos = (n + 1) % BUFFER_SIZE /\ pos \in Cells
    BY <1>3, Zenon
  <2>2. size \in Int /\ size = st.sent - (n + 1)
    BY <1>1
  <2> QED
    BY <1>4, <2>1, <2>2, Zenon
<1>6. new = [st EXCEPT !.got = next, !.readPos = pos, !.dataAvailable = size]
  BY DEF ByteTaken, byte
<1> HIDE DEF new, n, next, pos, size
<1>7. /\ new.got = next /\ new.readPos = pos
      /\ new.dataAvailable = size /\ new.sent = st.sent
      /\ new.buffer = st.buffer /\ new.writePos = st.writePos
      /\ SameUse(st, new) /\ new.eof = st.eof /\ new \in Stream
  BY <1>5, <1>6 DEF Stream, SameUse
<1>8. \A i \in DOMAIN new.got : new.got[i] = i
  <2>1. \A i \in 1..n : st.got[i] = i
    BY <1>4 DEF InOrder
  <2> QED
    BY <1>1, <1>2, <1>4, <1>7, <2>1 DEF next
<1>9. InOrder(new)
  <2>1. \A i \in (n + 2)..st.sent : st.buffer[(i - 1) % BUFFER_SIZE] = i
    BY <1>1 DEF InOrder, n
  <2>2. st.writePos = st.sent % BUFFER_SIZE
    BY DEF InOrder
  <2> QED
    <3>1. Len(new.got) = n + 1 /\ new.sent = st.sent
      BY <1>4, <1>7 DEF next
    <3>2. Len(new.got) <= new.sent /\ new.dataAvailable = new.sent - Len(new.got)
      BY <1>1, <1>5, <1>7, <3>1
    <3>3. new.readPos = Len(new.got) % BUFFER_SIZE /\ new.writePos = new.sent % BUFFER_SIZE
      BY <1>5, <1>7, <2>2, <3>1, Zenon
    <3>4. (Len(new.got) + 1)..new.sent = (n + 2)..st.sent
      BY <1>1, <3>1
    <3>5. \A i \in (Len(new.got) + 1)..new.sent : new.buffer[(i - 1) % BUFFER_SIZE] = i
      BY <1>7, <2>1, <3>4, Zenon
    <3> QED
      BY <1>8, <3>2, <3>3, <3>5 DEF InOrder
<1> QED
  BY <1>1, <1>7, <1>9 DEF new, size

\* A byte put where there is room leaves those that wait to be read where they are.
LEMMA PutInOrder ==
    ASSUME NEW st \in Stream, InOrder(st), st.dataAvailable < BUFFER_SIZE
    PROVE  /\ BytePut(st) \in Stream /\ InOrder(BytePut(st))
           /\ SameUse(st, BytePut(st)) /\ BytePut(st).eof = st.eof
           /\ BytePut(st).dataAvailable = st.dataAvailable + 1
<1> DEFINE n == Len(st.got)
           m == st.sent
           new == BytePut(st)
           buf == [st.buffer EXCEPT ![m % BUFFER_SIZE] = m + 1]
<1>1. /\ n \in Nat /\ m \in Nat /\ n <= m /\ m - n < BUFFER_SIZE
      /\ st.writePos = m % BUFFER_SIZE /\ st.dataAvailable = m - n
      /\ st.readPos = n % BUFFER_SIZE
  BY StreamFields DEF InOrder
<1>2. /\ m % BUFFER_SIZE \in Cells
      /\ (st.writePos + 1) % BUFFER_SIZE = (m + 1) % BUFFER_SIZE
      /\ (m + 1) % BUFFER_SIZE \in Cells
  <2>1. m + 1 \in Nat
    BY <1>1
  <2>2. (m + 1) % BUFFER_SIZE \in Cells
    BY <2>1, NextCell
  <2>3. /\ m % BUFFER_SIZE \in Cells
        /\ ((m % BUFFER_SIZE) + 1) % BUFFER_SIZE = (m + 1) % BUFFER_SIZE
    BY <1>1, NextCell
  <2> HIDE DEF m
  <2> QED
    BY <1>1, <2>2, <2>3
<1>3. /\ buf \in [Cells -> Nat] /\ buf[m % BUFFER_SIZE] = m + 1
      /\ \A c \in Cells : c # m % BUFFER_SIZE => buf[c] = st.buffer[c]
  BY <1>1, <1>2, StreamFields
<1> DEFINE pos  == (st.writePos + 1) % BUFFER_SIZE
           size == st.dataAvailable + 1
           next == st.sent + 1
<1>4. /\ pos \in Cells /\ size \in Int /\ next \in Nat
      /\ pos = (m + 1) % BUFFER_SIZE /\ size = m - n + 1 /\ next = m + 1
  BY <1>1, <1>2
<1>5. new = [st EXCEPT !.sent = next, !.buffer = buf, !.writePos = pos, !.dataAvailable = size]
  BY <1>1 DEF BytePut
<1> HIDE DEF new, buf, n, m, next, pos, size
<1>6. /\ new.got = st.got /\ new.sent = next /\ new.buffer = buf
      /\ new.writePos = pos /\ new.readPos = st.readPos
      /\ new.dataAvailable = size
      /\ SameUse(st, new) /\ new.eof = st.eof /\ new \in Stream
  BY <1>3, <1>4, <1>5 DEF Stream, SameUse
<1>7. ASSUME NEW i \in (n + 1)..(m + 1) PROVE buf[(i - 1) % BUFFER_SIZE] = i
  <2>1. CASE i = m + 1
    BY <1>1, <1>3, <2>1
  <2>2. CASE i < m + 1
    <3>1. i \in (n + 1)..m /\ i - 1 \in Nat /\ i - 1 < m /\ m - (i - 1) < BUFFER_SIZE
      BY <1>1, <2>2
    <3>2. (i - 1) % BUFFER_SIZE # m % BUFFER_SIZE /\ (i - 1) % BUFFER_SIZE \in Cells
      BY <1>1, <3>1, DifferentCells, NextCell
    <3>3. st.buffer[(i - 1) % BUFFER_SIZE] = i
      BY <3>1 DEF InOrder, n, m
    <3> QED
      BY <1>3, <3>2, <3>3
  <2> QED
    BY <1>1, <2>1, <2>2
<1>8. InOrder(new)
  <2>1. \A i \in DOMAIN st.got : st.got[i] = i
    BY DEF InOrder
  <2> QED
    BY <1>1, <1>4, <1>6, <1>7, <2>1 DEF InOrder, n
<1> QED
  BY <1>1, <1>4, <1>6, <1>8 DEF new, size

-----------------------------------------------------------------------------
(***************************************************************************)
(* What the operations on semaphores do to the kernel                      *)
(***************************************************************************)

\* The fields of the kernel
LEMMA KernelFields ==
    ASSUME NEW k \in KernelType
    PROVE  /\ k.fds \in [FDs -> FD] /\ k.streams \in [Streams -> Stream]
           /\ k.sems \in [SemIds -> CountedSem] /\ k.state \in [PIDs -> States]
           /\ k.locked \in SUBSET SemIds
           /\ \A s \in SemIds : k.sems[s] \in CountedSem /\ k.sems[s].value \in Nat
                                /\ k.sems[s].used \in BOOLEAN /\ k.sems[s].waiting \in Seq(PIDs)
           /\ \A r \in Streams : k.streams[r] \in Stream
           /\ \A fd \in FDs : k.fds[fd] \in FD
  BY DEF KernelType, CountedSem, Sem

\* Nobody starts or ends
SameLives(st, new) == \A p \in PIDs : new[p] = "EXITED" <=> st[p] = "EXITED"

\* The descriptors and the streams stay, and of the semaphores all but s
OnlySem(k, l, s) ==
    /\ l \in KernelType /\ l.fds = k.fds /\ l.streams = k.streams
    /\ SameLives(k.state, l.state)
    /\ \A t \in SemIds : t # s => l.sems[t] = k.sems[t]

WithSem(k, s, new, st) == [k EXCEPT !.sems = [k.sems EXCEPT ![s] = new], !.state = st]

\* One semaphore and the states of the processes are replaced.
LEMMA SemReplaced ==
    ASSUME NEW k \in KernelType, NEW s \in SemIds, NEW new \in CountedSem,
           NEW st \in [PIDs -> States], SameLives(k.state, st)
    PROVE  LET l == WithSem(k, s, new, st)
           IN  /\ OnlySem(k, l, s) /\ l.sems[s] = new /\ l.locked = k.locked /\ l.state = st
<1> DEFINE l == WithSem(k, s, new, st)
<1>1. l.sems = [k.sems EXCEPT ![s] = new] /\ l.state = st /\ l.fds = k.fds
      /\ l.streams = k.streams /\ l.locked = k.locked
  BY DEF KernelType, WithSem
<1>2. l \in KernelType
  BY <1>1 DEF KernelType, WithSem
<1> HIDE DEF l
<1>3. l.sems[s] = new /\ \A t \in SemIds : t # s => l.sems[t] = k.sems[t]
  BY <1>1, KernelFields
<1> QED
  BY <1>1, <1>2, <1>3 DEF OnlySem, l

\* The identity of semPost and semDestroy on what they refuse
LEMMA NothingReplaced ==
    ASSUME NEW k \in KernelType, NEW s
    PROVE  OnlySem(k, k, s)
  BY DEF OnlySem, SameLives

\* semPost adds a unit to a semaphore in use and wakes; it refuses any other.
LEMMA PostedEffect ==
    ASSUME NEW k \in KernelType, NEW s \in SemIds \cup {NoSem}
    PROVE  /\ OnlySem(k, Posted(k, s), s)
           /\ s # NoSem => /\ Posted(k, s).sems[s].used = k.sems[s].used
                           /\ k.sems[s].used => Posted(k, s).sems[s].value = k.sems[s].value + 1
           /\ Posted(k, s).locked = k.locked
<1>1. CASE s = NoSem \/ ~k.sems[s].used
  <2>1. Posted(k, s) = k
    BY <1>1 DEF Posted
  <2> QED
    BY <1>1, <2>1, NothingReplaced
<1>2. CASE s # NoSem /\ k.sems[s].used
  <2> DEFINE new == [k.sems[s] EXCEPT !.value = k.sems[s].value + 1, !.waiting = << >>]
             st  == Woken(k.state, Range(k.sems[s].waiting))
             l   == WithSem(k, s, new, st)
  <2>1. s \in SemIds /\ k.sems[s] \in CountedSem /\ k.sems[s].value \in Nat
    BY <1>2, KernelFields
  <2>2. new \in CountedSem /\ new.used = k.sems[s].used /\ new.value = k.sems[s].value + 1
    <3>1. PICK sem \in CountedSem, v \in Nat : sem = k.sems[s] /\ v = k.sems[s].value + 1
      BY <2>1
    <3>2. sem \in Sem /\ v \in Int /\ << >> \in Seq(PIDs)
      BY DEF CountedSem
    <3>3. [sem EXCEPT !.value = v, !.waiting = << >>] \in Sem
      BY <3>2 DEF Sem
    <3>4. [sem EXCEPT !.value = v, !.waiting = << >>].value = v
      BY <3>2 DEF Sem
    <3>5. [sem EXCEPT !.value = v, !.waiting = << >>].used = sem.used
      BY <3>2 DEF Sem
    <3>6. new = [sem EXCEPT !.value = v, !.waiting = << >>]
      BY <3>1
    <3> QED
      BY <3>1, <3>3, <3>4, <3>5, <3>6 DEF CountedSem
  <2>3. st \in [PIDs -> States] /\ SameLives(k.state, st)
    BY KernelFields, WokenEffect DEF SameLives
  <2>4. Posted(k, s) = l
    BY <1>2, <2>1 DEF Posted, KernelType, WithSem
  <2> HIDE DEF new, st
  <2>6. OnlySem(k, l, s) /\ l.sems[s] = new /\ l.locked = k.locked
    BY <2>1, <2>2, <2>3, SemReplaced
  <2> HIDE DEF l
  <2> QED
    BY <1>2, <2>2, <2>4, <2>6
<1> QED
  BY <1>1, <1>2

\* semDestroy touches one semaphore only.
LEMMA DestroyedEffect ==
    ASSUME NEW k \in KernelType, NEW s \in SemIds \cup {NoSem}
    PROVE  OnlySem(k, Destroyed(k, s), s) /\ Destroyed(k, s).locked = k.locked
<1>1. CASE s = NoSem
  <2>1. Destroyed(k, s) = k
    BY <1>1 DEF Destroyed
  <2> QED
    BY <2>1, NothingReplaced
<1>2. CASE s # NoSem
  <2> DEFINE new == [k.sems[s] EXCEPT !.used = FALSE, !.waiting = << >>]
             st  == Woken(k.state, Range(k.sems[s].waiting))
             l   == WithSem(k, s, new, st)
  <2>1. s \in SemIds /\ k.sems[s] \in CountedSem
    BY <1>2, KernelFields
  <2>2. new \in CountedSem
    <3>1. << >> \in Seq(PIDs)
      OBVIOUS
    <3> QED
      BY <2>1, <3>1 DEF CountedSem, Sem
  <2>3. st \in [PIDs -> States] /\ SameLives(k.state, st)
    BY KernelFields, WokenEffect DEF SameLives
  <2>4. Destroyed(k, s) = l
    BY <1>2, <2>1 DEF Destroyed, KernelType, WithSem
  <2> HIDE DEF new, st
  <2>6. OnlySem(k, l, s) /\ l.locked = k.locked
    BY <2>1, <2>2, <2>3, SemReplaced
  <2> HIDE DEF l
  <2> QED
    BY <2>4, <2>6
<1> QED
  BY <1>1, <1>2

\* What semWait takes on its way out of its loop
LEMMA DecrementedEffect ==
    ASSUME NEW k \in KernelType, NEW s \in SemIds, NEW again, k.sems[s].used,
           k.sems[s].value # 0
    PROVE  LET l == Decremented(k, s, again)
           IN  /\ OnlySem(k, l, s) /\ l.sems[s].used
               /\ l.sems[s].value = k.sems[s].value - 1
<1> DEFINE new == [k.sems[s] EXCEPT !.value = k.sems[s].value - 1]
           l   == WithSem(k, s, new, k.state)
<1>1. k.sems[s] \in CountedSem /\ k.sems[s].value \in Nat /\ k.sems[s].value - 1 \in Nat
  BY KernelFields
<1>2. new \in CountedSem /\ new.used = k.sems[s].used /\ new.value = k.sems[s].value - 1
  <2>1. PICK sem \in CountedSem, v \in Nat : sem = k.sems[s] /\ v = k.sems[s].value - 1
    BY <1>1
  <2>2. sem \in Sem /\ v \in Int
    BY DEF CountedSem
  <2>3. [sem EXCEPT !.value = v] \in Sem
    BY <2>2 DEF Sem
  <2>4. [sem EXCEPT !.value = v].value = v
    BY <2>2 DEF Sem
  <2>5. [sem EXCEPT !.value = v].used = sem.used
    BY <2>2 DEF Sem
  <2>6. new = [sem EXCEPT !.value = v]
    BY <2>1
  <2> QED
    BY <2>1, <2>3, <2>4, <2>5, <2>6 DEF CountedSem
<1>3. Decremented(k, s, again) = l
  <2>1. s # NoSem
    BY DEF SemIds
  <2> QED
    BY <2>1 DEF Decremented, KernelType, WithSem
<1>4. k.state \in [PIDs -> States] /\ SameLives(k.state, k.state)
  BY KernelFields DEF SameLives
<1> HIDE DEF new
<1>6. OnlySem(k, l, s) /\ l.sems[s] = new
  BY <1>2, <1>4, SemReplaced
<1> HIDE DEF l
<1> QED
  BY <1>2, <1>3, <1>6

\* A spinlock held for ever changes nothing else.
LEMMA LockedEffect ==
    ASSUME NEW k \in KernelType, NEW s \in SemIds \cup {NoSem}
    PROVE  LET l == Locked(k, s)
           IN  /\ l \in KernelType /\ l.fds = k.fds /\ l.streams = k.streams
               /\ l.sems = k.sems /\ l.state = k.state
<1>1. CASE s = NoSem
  BY <1>1 DEF Locked
<1>2. CASE s # NoSem
  <2> DEFINE l == [k EXCEPT !.locked = k.locked \cup {s}]
  <2>1. Locked(k, s) = l
    BY <1>2 DEF Locked
  <2>2. k.locked \cup {s} \in SUBSET SemIds
    BY <1>2, KernelFields
  <2>3. l \in KernelType /\ l.fds = k.fds /\ l.streams = k.streams
        /\ l.sems = k.sems /\ l.state = k.state
    BY <2>2 DEF KernelType
  <2> QED
    BY <2>1, <2>3
<1> QED
  BY <1>1, <1>2

WithStream(k, r, new) == [k EXCEPT !.streams = [k.streams EXCEPT ![r] = new]]

\* The streams stay but for r
OnlyStream(k, l, r) ==
    /\ l \in KernelType /\ l.fds = k.fds /\ l.sems = k.sems /\ l.state = k.state
    /\ l.locked = k.locked
    /\ \A t \in Streams : t # r => l.streams[t] = k.streams[t]

\* One stream is replaced.
LEMMA StreamReplaced ==
    ASSUME NEW k \in KernelType, NEW r \in Streams, NEW new \in Stream
    PROVE  /\ OnlyStream(k, WithStream(k, r, new), r)
           /\ WithStream(k, r, new).streams[r] = new
<1> DEFINE l == WithStream(k, r, new)
<1>1. l.streams = [k.streams EXCEPT ![r] = new] /\ l.state = k.state /\ l.fds = k.fds
      /\ l.sems = k.sems /\ l.locked = k.locked
  BY DEF KernelType, WithStream
<1>2. l.streams \in [Streams -> Stream]
  BY <1>1, KernelFields
<1>3. l \in KernelType
  BY <1>1, <1>2 DEF KernelType, WithStream
<1> HIDE DEF l
<1>4. l.streams[r] = new /\ \A t \in Streams : t # r => l.streams[t] = k.streams[t]
  BY <1>1, KernelFields
<1> QED
  BY <1>1, <1>3, <1>4 DEF OnlyStream, l

-----------------------------------------------------------------------------
(***************************************************************************)
(* What the operations on pipes do to the bytes and to their count         *)
(***************************************************************************)

\* Streams do not disturb each other: an operation on a stream with an end in use, or
\* one that leaves the semaphores alone, has to be looked at for that stream only.
LEMMA DataStep ==
    ASSUME NEW k \in KernelType, NEW l \in KernelType, NEW r \in Streams,
           DataOK(k.streams, k.sems),
           \A t \in Streams : t # r => l.streams[t] = k.streams[t],
           \A s \in SemIds \ SemIdsOf(k.streams[r]) : l.sems[s] = k.sems[s],
           HasEnd(k.streams[r]) \/ l.sems = k.sems,
           HasEnd(l.streams[r]) => HasEnd(k.streams[r]) /\ Counts(l.streams[r], l.sems),
           InOrder(l.streams[r]),
           SemIdsOf(l.streams[r]) = SemIdsOf(k.streams[r]),
           l.streams[r].status # "fresh"
    PROVE  DataOK(l.streams, l.sems)
<1>1. \A t \in Streams : k.streams[t] \in Stream /\ l.streams[t] \in Stream
  BY KernelFields
<1>2. \A t \in Streams : InOrder(l.streams[t])
  BY DEF DataOK
<1>3. \A t \in Streams : HasEnd(l.streams[t]) => HasEnd(k.streams[t])
  OBVIOUS
<1>4. \A t \in Streams : SemIdsOf(l.streams[t]) = SemIdsOf(k.streams[t])
  OBVIOUS
<1>5. ASSUME NEW t \in Streams, HasEnd(l.streams[t])
      PROVE  Counts(l.streams[t], l.sems)
  <2>1. CASE t = r
    BY <1>5, <2>1
  <2>2. CASE t # r
    <3>1. l.streams[t] = k.streams[t] /\ Counts(k.streams[t], k.sems)
      BY <1>5, <2>2 DEF DataOK
    <3>2. ASSUME NEW s \in SemIdsOf(k.streams[t]) PROVE l.sems[s] = k.sems[s]
      <4>1. s \in SemIds
        BY <1>1, StreamFields
      <4>2. CASE HasEnd(k.streams[r])
        <5>1. SemIdsOf(k.streams[r]) \cap SemIdsOf(k.streams[t]) = {}
          BY <1>3, <1>5, <2>2, <4>2 DEF DataOK
        <5> QED
          BY <4>1, <5>1
      <4> QED
        BY <4>2
    <3>3. /\ k.streams[t].writeSem # NoSem => k.streams[t].writeSem \in SemIdsOf(k.streams[t])
          /\ k.streams[t].readSem # NoSem => k.streams[t].readSem \in SemIdsOf(k.streams[t])
      BY DEF SemIdsOf
    <3> QED
      BY <3>1, <3>2, <3>3 DEF Counts
  <2> QED
    BY <2>1, <2>2
<1>6. \A t, u \in Streams :
         HasEnd(l.streams[t]) /\ HasEnd(l.streams[u]) /\ t # u =>
           SemIdsOf(l.streams[t]) \cap SemIdsOf(l.streams[u]) = {}
  BY <1>3, <1>4 DEF DataOK
<1>7. \A t \in Streams :
         l.streams[t].status = "fresh" => l.streams[t].sent = 0 /\ ~l.streams[t].eof
  BY DEF DataOK
<1> QED
  BY <1>2, <1>5, <1>6, <1>7 DEF DataOK

\* The descriptors, the lives and the use of the streams stay
Quiet(k, l) ==
    /\ l \in KernelType /\ l.fds = k.fds /\ SameLives(k.state, l.state)
    /\ \A t \in Streams : SameUse(k.streams[t], l.streams[t])

SameBytes(st, new) == new.got = st.got /\ new.sent = st.sent

\* A pipe that is in use and has its semaphores
InUse(k, r) ==
    /\ HasEnd(k.streams[r])
    /\ k.streams[r].readSem # NoSem /\ k.streams[r].writeSem # NoSem

\* What is known of such a pipe
LEMMA InUseFields ==
    ASSUME NEW k \in KernelType, NEW r \in Streams, DataOK(k.streams, k.sems), InUse(k, r)
    PROVE  LET st == k.streams[r]
           IN  /\ st \in Stream /\ InOrder(st) /\ Counts(st, k.sems)
               /\ st.readSem \in SemIds /\ st.writeSem \in SemIds /\ st.readSem # st.writeSem
               /\ SemIdsOf(st) = {st.readSem, st.writeSem}
               /\ k.sems[st.readSem].used /\ k.sems[st.readSem].value \in Nat
               /\ k.sems[st.writeSem].used /\ k.sems[st.writeSem].value \in Nat
               /\ st.dataAvailable \in Nat
<1> DEFINE st == k.streams[r]
<1>1. st \in Stream /\ InOrder(st) /\ Counts(st, k.sems)
  BY KernelFields DEF InUse, DataOK
<1>2. st.readSem # NoSem /\ st.writeSem # NoSem
  BY DEF InUse
<1> HIDE DEF st
<1>3. st.readSem \in SemIds /\ st.writeSem \in SemIds /\ SemIdsOf(st) = {st.readSem, st.writeSem}
  BY <1>1, <1>2, StreamFields DEF SemIdsOf
<1>4. st.readSem # st.writeSem /\ k.sems[st.readSem].used /\ k.sems[st.writeSem].used
  BY <1>1, <1>2, <1>3 DEF Counts
<1>5. k.sems[st.readSem].value \in Nat /\ k.sems[st.writeSem].value \in Nat
  BY <1>3, KernelFields
<1>6. st.dataAvailable \in Nat
  BY <1>1, StreamFields DEF InOrder
<1> QED
  BY <1>1, <1>3, <1>4, <1>5, <1>6 DEF st

\* BeforeRead adds a unit for the caller when the end of the file was announced.
LEMMA BeforeReadEffect ==
    ASSUME NEW k \in KernelType, NEW r \in Streams, DataOK(k.streams, k.sems), InUse(k, r)
    PROVE  LET j == BeforeRead(k, r)
           IN  /\ j \in KernelType /\ DataOK(j.streams, j.sems) /\ InUse(j, r)
               /\ j.fds = k.fds /\ j.streams = k.streams /\ SameLives(k.state, j.state)
<1> DEFINE st == k.streams[r]
           j  == BeforeRead(k, r)
<1>1. /\ st \in Stream /\ InOrder(st) /\ Counts(st, k.sems)
      /\ st.readSem \in SemIds /\ st.writeSem \in SemIds /\ st.readSem # st.writeSem
      /\ SemIdsOf(st) = {st.readSem, st.writeSem}
      /\ k.sems[st.readSem].used /\ k.sems[st.readSem].value \in Nat
      /\ st.dataAvailable \in Nat
  BY InUseFields
<1>2. CASE ~st.eof
  <2>1. j = k
    BY <1>2 DEF BeforeRead
  <2> QED
    BY <2>1 DEF SameLives
<1>3. CASE st.eof
  <2>1. j = Posted(k, st.readSem)
    BY <1>3 DEF BeforeRead
  <2>2. /\ OnlySem(k, j, st.readSem) /\ j.sems[st.readSem].used
        /\ j.sems[st.readSem].value = k.sems[st.readSem].value + 1
    <3>1. st.readSem \in SemIds \cup {NoSem} /\ st.readSem # NoSem
      BY <1>1 DEF SemIds
    <3> HIDE DEF j, st
    <3> QED
      BY <1>1, <2>1, <3>1, PostedEffect
  <2> HIDE DEF j
  <2>3. /\ j \in KernelType /\ j.fds = k.fds /\ j.streams = k.streams
        /\ SameLives(k.state, j.state)
        /\ \A t \in SemIds : t # st.readSem => j.sems[t] = k.sems[t]
    BY <2>2 DEF OnlySem
  <2>4. j.streams[r] = st /\ HasEnd(st)
    BY <2>3 DEF InUse
  <2> HIDE DEF st
  <2>5. j.sems[st.writeSem] = k.sems[st.writeSem]
    BY <1>1, <2>3
  <2>6. Counts(st, j.sems)
    BY <1>1, <1>3, <2>2, <2>5 DEF Counts
  <2>7. DataOK(j.streams, j.sems)
    <3>1. \A s \in SemIds \ SemIdsOf(st) : j.sems[s] = k.sems[s]
      BY <1>1, <2>3
    <3>2. st.status # "fresh"
      BY <2>6 DEF Counts
    <3> QED
      BY <1>1, <2>3, <2>4, <2>6, <3>1, <3>2, DataStep DEF st
  <2> QED
    BY <2>3, <2>7 DEF InUse, j
<1> QED
  BY <1>2, <1>3

\* One field of a stream replaced in place
GotInto(k, r, x)     == [k EXCEPT !.streams[r].got = x]
RPosInto(k, r, x)    == [k EXCEPT !.streams[r].readPos = x]
SizeInto(k, r, x)    == [k EXCEPT !.streams[r].dataAvailable = x]
SentInto(k, r, x)    == [k EXCEPT !.streams[r].sent = x]
CellInto(k, r, i, x) == [k EXCEPT !.streams[r].buffer[i] = x]
WPosInto(k, r, x)    == [k EXCEPT !.streams[r].writePos = x]

\* The last of two replacements stays.
LEMMA WithStreamTwice ==
    ASSUME NEW k \in KernelType, NEW r \in Streams, NEW x, NEW y
    PROVE  WithStream(WithStream(k, r, x), r, y) = WithStream(k, r, y)
<1>1. [[k.streams EXCEPT ![r] = x] EXCEPT ![r] = y] = [k.streams EXCEPT ![r] = y]
  BY DEF KernelType
<1> QED
  BY <1>1 DEF WithStream, KernelType

\* What readFromFD does to a stream, field by field, is to take a byte.
LEMMA TakenInPlace ==
    ASSUME NEW d \in KernelType, NEW r \in Streams
    PROVE  [d EXCEPT !.streams[r].got = Append(@, d.streams[r].buffer[d.streams[r].readPos]),
                     !.streams[r].readPos = (@ + 1) % BUFFER_SIZE,
                     !.streams[r].dataAvailable = @ - 1]
             = WithStream(d, r, ByteTaken(d.streams[r]))
<1> DEFINE s0 == d.streams[r]
           x  == Append(s0.got, s0.buffer[s0.readPos])
           y  == (s0.readPos + 1) % BUFFER_SIZE
           z  == s0.dataAvailable - 1
           d1 == GotInto(d, r, x)
           d2 == RPosInto(d1, r, y)
           s1 == [s0 EXCEPT !.got = x]
           s2 == [s1 EXCEPT !.readPos = y]
<1>1. s0 \in Stream
  BY DEF KernelType
<1>2. x \in Seq(Nat) /\ y \in Cells
  <2> HIDE DEF s0
  <2>1. s0.readPos \in Nat /\ s0.readPos + 1 \in Nat /\ x \in Seq(Nat)
    BY <1>1, StreamFields DEF Cells
  <2> QED
    BY <2>1, NextCell
<1> HIDE DEF x, y, z
<1>3. s1 \in Stream /\ s2 \in Stream
  <2> HIDE DEF s0
  <2> QED
    BY <1>1, <1>2 DEF Stream
<1>4. d1 = WithStream(d, r, s1)
  BY DEF d1, GotInto, WithStream, KernelType
<1> HIDE DEF s0, d1, d2, s1, s2
<1>5. d1 \in KernelType /\ d1.streams[r] = s1
  BY <1>3, <1>4, StreamReplaced DEF OnlyStream
<1>6. d2 = WithStream(d, r, s2)
  <2>1. d2 = WithStream(d1, r, [d1.streams[r] EXCEPT !.readPos = y])
    BY <1>5 DEF d2, RPosInto, WithStream, KernelType
  <2>2. d2 = WithStream(d1, r, s2)
    BY <1>5, <2>1, Zenon DEF s2
  <2> QED
    BY <1>4, <2>2, WithStreamTwice
<1>7. d2 \in KernelType /\ d2.streams[r] = s2
  BY <1>3, <1>6, StreamReplaced DEF OnlyStream
<1>8. SizeInto(d2, r, z) = WithStream(d, r, [s2 EXCEPT !.dataAvailable = z])
  <2>1. SizeInto(d2, r, z) = WithStream(d2, r, [d2.streams[r] EXCEPT !.dataAvailable = z])
    BY <1>7 DEF SizeInto, WithStream, KernelType
  <2>2. SizeInto(d2, r, z) = WithStream(d2, r, [s2 EXCEPT !.dataAvailable = z])
    BY <1>7, <2>1, Zenon
  <2> QED
    BY <1>6, <2>2, WithStreamTwice
<1>9. [s2 EXCEPT !.dataAvailable = z] = ByteTaken(s0)
  BY Zenon DEF s1, s2, x, y, z, ByteTaken
<1>10. [d EXCEPT !.streams[r].got = Append(@, d.streams[r].buffer[d.streams[r].readPos]),
                 !.streams[r].readPos = (@ + 1) % BUFFER_SIZE,
                 !.streams[r].dataAvailable = @ - 1] = SizeInto(d2, r, z)
  BY Zenon DEF SizeInto, RPosInto, GotInto, d1, d2, x, y, z, s0
<1> QED
  BY <1>8, <1>9, <1>10, Zenon DEF s0

\* What writeToFD does to a stream, field by field, is to put a byte.
LEMMA PutInPlace ==
    ASSUME NEW d \in KernelType, NEW r \in Streams
    PROVE  [d EXCEPT !.streams[r].sent = @ + 1,
                     !.streams[r].buffer[d.streams[r].writePos] = d.streams[r].sent + 1,
                     !.streams[r].writePos = (@ + 1) % BUFFER_SIZE,
                     !.streams[r].dataAvailable = @ + 1]
             = WithStream(d, r, BytePut(d.streams[r]))
<1> DEFINE s0 == d.streams[r]
           i  == s0.writePos
           x  == s0.sent + 1
           y  == (i + 1) % BUFFER_SIZE
           z  == s0.dataAvailable + 1
           b  == [s0.buffer EXCEPT ![i] = x]
           d1 == SentInto(d, r, x)
           d2 == CellInto(d1, r, i, x)
           d3 == WPosInto(d2, r, y)
           s1 == [s0 EXCEPT !.sent = x]
           s2 == [s1 EXCEPT !.buffer = b]
           s3 == [s2 EXCEPT !.writePos = y]
<1>1. s0 \in Stream
  BY DEF KernelType
<1>2. x \in Nat /\ i \in Cells /\ b \in [Cells -> Nat] /\ y \in Cells
  <2> HIDE DEF s0
  <2>1. i \in Nat /\ i + 1 \in Nat /\ x \in Nat /\ i \in Cells
    BY <1>1, StreamFields DEF Cells
  <2>2. y \in Cells
    BY <2>1, NextCell
  <2> QED
    BY <1>1, <2>1, <2>2, StreamFields
<1> HIDE DEF i, x, y, z, b
<1>3. s1 \in Stream /\ s2 \in Stream /\ s3 \in Stream /\ s1.buffer = s0.buffer
  <2> HIDE DEF s0
  <2> QED
    BY <1>1, <1>2 DEF Stream
<1>4. d1 = WithStream(d, r, s1)
  BY DEF d1, SentInto, WithStream, KernelType
<1> HIDE DEF s0, d1, d2, d3, s1, s2, s3
<1>5. d1 \in KernelType /\ d1.streams[r] = s1
  BY <1>3, <1>4, StreamReplaced DEF OnlyStream
<1>6. d2 = WithStream(d, r, s2)
  <2>1. d2 = WithStream(d1, r, [d1.streams[r] EXCEPT !.buffer = [d1.streams[r].buffer EXCEPT ![i] = x]])
    BY <1>5 DEF d2, CellInto, WithStream, KernelType
  <2>2. d2 = WithStream(d1, r, s2)
    BY <1>3, <1>5, <2>1, Zenon DEF s2, b
  <2> QED
    BY <1>4, <2>2, WithStreamTwice
<1>7. d2 \in KernelType /\ d2.streams[r] = s2
  BY <1>3, <1>6, StreamReplaced DEF OnlyStream
<1>8. d3 = WithStream(d, r, s3)
  <2>1. d3 = WithStream(d2, r, [d2.streams[r] EXCEPT !.writePos = y])
    BY <1>7 DEF d3, WPosInto, WithStream, KernelType
  <2>2. d3 = WithStream(d2, r, s3)
    BY <1>7, <2>1, Zenon DEF s3
  <2> QED
    BY <1>6, <2>2, WithStreamTwice
<1>9. d3 \in KernelType /\ d3.streams[r] = s3
  BY <1>3, <1>8, StreamReplaced DEF OnlyStream
<1>10. SizeInto(d3, r, z) = WithStream(d, r, [s3 EXCEPT !.dataAvailable = z])
  <2>1. SizeInto(d3, r, z) = WithStream(d3, r, [d3.streams[r] EXCEPT !.dataAvailable = z])
    BY <1>9 DEF SizeInto, WithStream, KernelType
  <2>2. SizeInto(d3, r, z) = WithStream(d3, r, [s3 EXCEPT !.dataAvailable = z])
    BY <1>9, <2>1, Zenon
  <2> QED
    BY <1>8, <2>2, WithStreamTwice
<1>11. [s3 EXCEPT !.dataAvailable = z] = BytePut(s0)
  BY Zenon DEF s1, s2, s3, i, x, y, z, b, BytePut
<1>12. [d EXCEPT !.streams[r].sent = @ + 1,
                 !.streams[r].buffer[d.streams[r].writePos] = d.streams[r].sent + 1,
                 !.streams[r].writePos = (@ + 1) % BUFFER_SIZE,
                 !.streams[r].dataAvailable = @ + 1] = SizeInto(d3, r, z)
  BY Zenon DEF SizeInto, WPosInto, CellInto, SentInto, d1, d2, d3, i, x, y, z, s0
<1> QED
  BY <1>10, <1>11, <1>12, Zenon DEF s0

\* A byte that is read is the next one, and the units follow it; a read that finds
\* none found them all read and the write end closed.
LEMMA ReadEffect ==
    ASSUME NEW k \in KernelType, NEW r \in Streams, DataOK(k.streams, k.sems), InUse(k, r),
           k.streams[r].writers \in {0, 1}, NEW again,
           k.sems[k.streams[r].readSem].value # 0
    PROVE  LET l == Read(Decremented(k, k.streams[r].readSem, again), r)
           IN  /\ Quiet(k, l) /\ DataOK(l.streams, l.sems)
               /\ HasByte(k.streams[r]) \/ /\ Len(l.streams[r].got) = l.streams[r].sent
                                           /\ l.streams[r].writers = 0
<1> DEFINE st == k.streams[r]
           s  == st.readSem
           w  == st.writeSem
           d  == Decremented(k, s, again)
           l  == Read(d, r)
<1>1. /\ st \in Stream /\ InOrder(st) /\ Counts(st, k.sems) /\ HasEnd(st)
      /\ s \in SemIds /\ w \in SemIds /\ s # w /\ SemIdsOf(st) = {s, w}
      /\ k.sems[s].used /\ k.sems[s].value \in Nat
      /\ k.sems[w].used /\ k.sems[w].value \in Nat
      /\ st.dataAvailable \in Nat /\ k.sems[s].value # 0
  BY InUseFields DEF InUse
<1>2. OnlySem(k, d, s) /\ d.sems[s].used /\ d.sems[s].value = k.sems[s].value - 1
  <2> HIDE DEF s
  <2> QED
    BY <1>1, DecrementedEffect
<1> HIDE DEF d
<1>3. /\ d \in KernelType /\ d.fds = k.fds /\ d.streams = k.streams
      /\ SameLives(k.state, d.state)
      /\ \A t \in SemIds : t # s => d.sems[t] = k.sems[t]
  BY <1>2 DEF OnlySem
<1>4. d.streams[r] = st
  BY <1>3
<1>5. ASSUME NEW e, OnlyStream(d, e, r), SameUse(st, e.streams[r]), InOrder(e.streams[r]),
             NEW m, OnlySem(e, m, w), Counts(e.streams[r], m.sems)
      PROVE  Quiet(k, m) /\ DataOK(m.streams, m.sems)
  <2>1. /\ e \in KernelType /\ e.fds = k.fds /\ e.sems = d.sems /\ e.state = d.state
        /\ \A t \in Streams : t # r => e.streams[t] = k.streams[t]
    BY <1>3, <1>5 DEF OnlyStream
  <2>2. /\ m \in KernelType /\ m.fds = e.fds /\ m.streams = e.streams
        /\ SameLives(e.state, m.state)
        /\ \A t \in SemIds : t # w => m.sems[t] = e.sems[t]
    BY <1>5 DEF OnlySem
  <2>3. \A t \in Streams : SameUse(k.streams[t], m.streams[t])
    BY <1>5, <2>1, <2>2 DEF SameUse
  <2>4. Quiet(k, m)
    BY <1>3, <2>1, <2>2, <2>3 DEF Quiet, SameLives
  <2>5. \A t \in SemIds \ SemIdsOf(st) : m.sems[t] = k.sems[t]
    BY <1>1, <1>3, <2>1, <2>2
  <2>6. SemIdsOf(m.streams[r]) = SemIdsOf(st) /\ m.streams[r].status # "fresh"
        /\ m.streams[r] = e.streams[r] /\ InOrder(m.streams[r]) /\ Counts(m.streams[r], m.sems)
    BY <1>1, <1>5, <2>2 DEF SameUse, SemIdsOf, Counts
  <2>7. \A t \in Streams : t # r => m.streams[t] = k.streams[t]
    BY <2>1, <2>2
  <2>8. DataOK(m.streams, m.sems)
    <3> HIDE DEF s, w, l
    <3> QED
      BY <1>1, <2>2, <2>5, <2>6, <2>7, DataStep
  <2> QED
    BY <2>4, <2>8
<1>6. CASE HasByte(st)
  <2>1. st.dataAvailable > 0
    <3>1. CASE st.eof
      BY <1>1, <1>6, <3>1 DEF HasByte, Counts
    <3>2. CASE ~st.eof
      <4>1. s # NoSem
        BY <1>1 DEF SemIds
      <4> QED
        BY <1>1, <3>2, <4>1 DEF Counts
    <3> QED
      BY <3>1, <3>2
  <2> DEFINE new == ByteTaken(st)
             e   == WithStream(d, r, new)
  <2>2. /\ new \in Stream /\ InOrder(new) /\ SameUse(st, new) /\ new.eof = st.eof
        /\ new.dataAvailable = st.dataAvailable - 1
    BY <1>1, <2>1, TakenInOrder
  <2>3. l = Posted(e, w)
    <3>1. HasByte(d.streams[r])
      BY <1>4, <1>6
    <3>2. e = [d EXCEPT !.streams[r].got = Append(@, d.streams[r].buffer[d.streams[r].readPos]),
                        !.streams[r].readPos = (@ + 1) % BUFFER_SIZE,
                        !.streams[r].dataAvailable = @ - 1]
      <4>1. e = WithStream(d, r, ByteTaken(d.streams[r]))
        BY <1>4
      <4> QED
        BY <1>3, <4>1, TakenInPlace
    <3>3. d.streams[r].writeSem = w
      BY <1>4
    <3> QED
      BY <3>1, <3>2, <3>3, Zenon DEF Read
  <2> HIDE DEF new
  <2>4. OnlyStream(d, e, r) /\ e.streams[r] = new
    BY <1>3, <2>2, StreamReplaced
  <2>5. e \in KernelType /\ e.sems = d.sems
    BY <2>4 DEF OnlyStream
  <2> HIDE DEF e
  <2>6. e.sems[w] = k.sems[w] /\ w # NoSem /\ w \in SemIds \cup {NoSem}
    BY <1>1, <1>3, <2>5 DEF SemIds
  <2>7. OnlySem(e, l, w) /\ l.sems[w].used /\ l.sems[w].value = k.sems[w].value + 1
    <3> HIDE DEF l, w
    <3> QED
      BY <1>1, <2>3, <2>5, <2>6, PostedEffect
  <2> HIDE DEF l
  <2>8. l.sems[s] = d.sems[s]
    BY <1>1, <2>5, <2>7 DEF OnlySem
  <2>9. Counts(new, l.sems)
    <3>1. /\ new.status = "live" /\ new.readSem = s /\ new.writeSem = w /\ new.writers = st.writers
          /\ new.eof = st.eof /\ new.dataAvailable = st.dataAvailable - 1
          /\ SemIdsOf(new) = {s, w}
      BY <1>1, <2>2 DEF Counts, SameUse, SemIdsOf
    <3>2. s # NoSem /\ w # NoSem
      BY <1>1 DEF SemIds
    <3>3. /\ k.sems[w].value + st.dataAvailable = BUFFER_SIZE
          /\ k.sems[s].value >= st.dataAvailable
          /\ ~st.eof => k.sems[s].value = st.dataAvailable
          /\ st.eof => st.writers <= 0
      BY <1>1, <3>2 DEF Counts
    <3>4. /\ l.sems[s].used /\ l.sems[w].used /\ l.sems[s].value = k.sems[s].value - 1
          /\ l.sems[w].value = k.sems[w].value + 1
      BY <1>2, <2>7, <2>8
    <3> HIDE DEF s, w, st
    <3>5. /\ l.sems[w].value + new.dataAvailable = BUFFER_SIZE
          /\ l.sems[s].value >= new.dataAvailable
          /\ ~new.eof => l.sems[s].value = new.dataAvailable
          /\ new.eof => new.writers <= 0
      BY <1>1, <3>1, <3>3, <3>4
    <3>6. \A u \in SemIdsOf(new) : l.sems[u].used
      BY <3>1, <3>4
    <3> QED
      BY <1>1, <3>1, <3>5, <3>6 DEF Counts
  <2>10. Quiet(k, l) /\ DataOK(l.streams, l.sems)
    BY <1>5, <2>2, <2>4, <2>7, <2>9
  <2> QED
    BY <1>6, <2>10 DEF l, d
<1>7. CASE ~HasByte(st)
  <2> DEFINE new == [st EXCEPT !.eof = TRUE]
  <2>1. st.eof /\ st.writers = 0 /\ st.dataAvailable = 0
    BY <1>1, <1>7 DEF HasByte
  <2>2. new = st
    BY <1>1, <2>1 DEF Stream
  <2>3. l = [d EXCEPT !.streams[r].eof = TRUE]
    BY <1>4, <1>7 DEF Read
  <2>4. l = d
    BY <1>1, <1>3, <1>4, <2>1, <2>3 DEF KernelType, Stream
  <2>5. OnlyStream(d, d, r) /\ OnlySem(d, d, w)
    BY <1>3, NothingReplaced DEF OnlyStream
  <2>6. SameUse(st, st)
    BY DEF SameUse
  <2>7. Counts(st, d.sems)
    <3>1. d.sems[w] = k.sems[w]
      BY <1>1, <1>3
    <3> QED
      BY <1>1, <1>2, <2>1, <3>1 DEF Counts
  <2>8. Quiet(k, d) /\ DataOK(d.streams, d.sems)
    BY <1>1, <1>4, <1>5, <2>5, <2>6, <2>7
  <2>9. Len(st.got) = st.sent
    BY <1>1, <2>1, StreamFields DEF InOrder
  <2> QED
    BY <1>4, <2>1, <2>4, <2>8, <2>9 DEF d
<1> QED
  BY <1>6, <1>7

\* A byte that is written finds room, and the units follow it.
LEMMA WriteEffect ==
    ASSUME NEW k \in KernelType, NEW r \in Streams, DataOK(k.streams, k.sems), InUse(k, r),
           k.streams[r].writers = 1, NEW again,
           k.sems[k.streams[r].writeSem].value # 0
    PROVE  LET l == Write(Decremented(k, k.streams[r].writeSem, again), r)
           IN  Quiet(k, l) /\ DataOK(l.streams, l.sems)
<1> DEFINE st == k.streams[r]
           s  == st.readSem
           w  == st.writeSem
           d  == Decremented(k, w, again)
           l  == Write(d, r)
           new == BytePut(st)
           e   == WithStream(d, r, new)
<1>1. /\ st \in Stream /\ InOrder(st) /\ Counts(st, k.sems) /\ HasEnd(st)
      /\ s \in SemIds /\ w \in SemIds /\ s # w /\ SemIdsOf(st) = {s, w}
      /\ k.sems[s].used /\ k.sems[s].value \in Nat
      /\ k.sems[w].used /\ k.sems[w].value \in Nat
      /\ st.dataAvailable \in Nat /\ k.sems[w].value # 0
  BY InUseFields DEF InUse
<1>2. OnlySem(k, d, w) /\ d.sems[w].used /\ d.sems[w].value = k.sems[w].value - 1
  <2> HIDE DEF w
  <2> QED
    BY <1>1, DecrementedEffect
<1> HIDE DEF d
<1>3. /\ d \in KernelType /\ d.fds = k.fds /\ d.streams = k.streams
      /\ SameLives(k.state, d.state)
      /\ \A t \in SemIds : t # w => d.sems[t] = k.sems[t]
  BY <1>2 DEF OnlySem
<1>4. d.streams[r] = st /\ ~st.eof /\ st.dataAvailable < BUFFER_SIZE
  <2>1. w # NoSem
    BY <1>1 DEF SemIds
  <2> QED
    BY <1>1, <1>3, <2>1 DEF Counts
<1>5. /\ new \in Stream /\ InOrder(new) /\ SameUse(st, new) /\ new.eof = st.eof
      /\ new.dataAvailable = st.dataAvailable + 1
  BY <1>1, <1>4, PutInOrder
<1>6. l = Posted(e, s)
  <2>1. e = [d EXCEPT !.streams[r].sent = @ + 1,
                      !.streams[r].buffer[d.streams[r].writePos] = d.streams[r].sent + 1,
                      !.streams[r].writePos = (@ + 1) % BUFFER_SIZE,
                      !.streams[r].dataAvailable = @ + 1]
    <3>1. e = WithStream(d, r, BytePut(d.streams[r]))
      BY <1>4
    <3> QED
      BY <1>3, <3>1, PutInPlace
  <2>2. d.streams[r].readSem = s
    BY <1>4
  <2> QED
    BY <2>1, <2>2, Zenon DEF Write
<1> HIDE DEF new
<1>7. OnlyStream(d, e, r) /\ e.streams[r] = new
  BY <1>3, <1>5, StreamReplaced
<1>8. e \in KernelType /\ e.sems = d.sems
  BY <1>7 DEF OnlyStream
<1> HIDE DEF e
<1>9. e.sems[s] = k.sems[s] /\ s # NoSem /\ s \in SemIds \cup {NoSem}
  BY <1>1, <1>3, <1>8 DEF SemIds
<1>10. OnlySem(e, l, s) /\ l.sems[s].used /\ l.sems[s].value = k.sems[s].value + 1
  <2> HIDE DEF l, s
  <2> QED
    BY <1>1, <1>6, <1>8, <1>9, PostedEffect
<1> HIDE DEF l
<1>11. l.sems[w] = d.sems[w]
  BY <1>1, <1>8, <1>10 DEF OnlySem
<1>12. Counts(new, l.sems)
  <2>1. /\ new.status = "live" /\ new.readSem = s /\ new.writeSem = w
        /\ ~new.eof /\ new.dataAvailable = st.dataAvailable + 1
        /\ SemIdsOf(new) = {s, w}
    BY <1>1, <1>4, <1>5 DEF Counts, SameUse, SemIdsOf
  <2>2. s # NoSem /\ w # NoSem
    BY <1>1 DEF SemIds
  <2>3. /\ k.sems[w].value + st.dataAvailable = BUFFER_SIZE
        /\ k.sems[s].value = st.dataAvailable
    BY <1>1, <1>4, <2>2 DEF Counts
  <2>4. /\ l.sems[s].used /\ l.sems[w].used /\ l.sems[w].value = k.sems[w].value - 1
        /\ l.sems[s].value = k.sems[s].value + 1
    BY <1>2, <1>10, <1>11
  <2> HIDE DEF s, w, st
  <2>5. /\ l.sems[w].value + new.dataAvailable = BUFFER_SIZE
        /\ l.sems[s].value = new.dataAvailable /\ l.sems[s].value >= new.dataAvailable
    BY <1>1, <2>1, <2>3, <2>4
  <2>6. \A u \in SemIdsOf(new) : l.sems[u].used
    BY <2>1, <2>4
  <2> QED
    BY <1>1, <2>1, <2>5, <2>6 DEF Counts
<1>13. /\ e.fds = k.fds /\ e.state = d.state
       /\ \A t \in Streams : t # r => e.streams[t] = k.streams[t]
  BY <1>3, <1>7 DEF OnlyStream
<1>14. /\ l \in KernelType /\ l.fds = e.fds /\ l.streams = e.streams
       /\ SameLives(e.state, l.state)
       /\ \A t \in SemIds : t # s => l.sems[t] = e.sems[t]
  BY <1>10 DEF OnlySem
<1>15. \A t \in Streams : SameUse(k.streams[t], l.streams[t])
  BY <1>5, <1>7, <1>13, <1>14 DEF SameUse
<1>16. Quiet(k, l)
  BY <1>3, <1>13, <1>14, <1>15 DEF Quiet, SameLives
<1>17. \A t \in SemIds \ SemIdsOf(st) : l.sems[t] = k.sems[t]
  BY <1>1, <1>3, <1>8, <1>14
<1>18. SemIdsOf(new) = SemIdsOf(st) /\ new.status # "fresh" /\ l.streams[r] = new
  BY <1>1, <1>5, <1>7, <1>14 DEF SameUse, SemIdsOf, Counts
<1>19. DataOK(l.streams, l.sems)
  <2>1. \A t \in Streams : t # r => l.streams[t] = k.streams[t]
    BY <1>13, <1>14
  <2>2. InOrder(l.streams[r]) /\ Counts(l.streams[r], l.sems)
        /\ SemIdsOf(l.streams[r]) = SemIdsOf(st) /\ l.streams[r].status # "fresh"
    BY <1>5, <1>12, <1>18
  <2>3. l \in KernelType /\ HasEnd(st)
    BY <1>1, <1>14
  <2> HIDE DEF s, w
  <2> QED
    BY <1>17, <2>1, <2>2, <2>3, DataStep
<1> QED
  BY <1>16, <1>19 DEF l, d
\* A writer that calls write finds no end of the file to take back.
LEMMA BeforeWriteEffect ==
    ASSUME NEW k \in KernelType, NEW r \in Streams, DataOK(k.streams, k.sems),
           k.streams[r].writers = 1
    PROVE  BeforeWrite(k, r) = k
<1> DEFINE st == k.streams[r]
<1>1. st \in Stream
  BY KernelFields
<1>2. ~st.eof
  BY DEF DataOK, HasEnd, Counts
<1>3. [st EXCEPT !.eof = FALSE] = st
  BY <1>1, <1>2 DEF Stream
<1>4. [k.streams EXCEPT ![r] = st] = k.streams
  BY DEF KernelType
<1>5. BeforeWrite(k, r) = [k EXCEPT !.streams = [k.streams EXCEPT ![r] = [st EXCEPT !.eof = FALSE]]]
  BY DEF BeforeWrite
<1> QED
  BY <1>3, <1>4, <1>5 DEF KernelType

-----------------------------------------------------------------------------
(***************************************************************************)
(* closeFD                                                                 *)
(***************************************************************************)

\* A stream of which the count of its ends, the end of the file or the status change
SameContents(st, new) ==
    /\ new.buffer = st.buffer /\ new.readPos = st.readPos /\ new.writePos = st.writePos
    /\ new.dataAvailable = st.dataAvailable
    /\ new.readSem = st.readSem /\ new.writeSem = st.writeSem /\ SameBytes(st, new)

Out(fd, k, mode) == IF k.fds[fd].mode = mode THEN 1 ELSE 0

\* The end fd is counted out of its stream
CountedOut(k, new, fd) ==
    LET st == k.streams[k.fds[fd].resource]
    IN  /\ new.readers = st.readers - Out(fd, k, "R")
        /\ new.writers = st.writers - Out(fd, k, "W")

\* A point of closeFD(fd) at which it may be cut off
Closing(k, l, fd) ==
    LET r == k.fds[fd].resource
    IN  /\ l \in KernelType /\ DataOK(l.streams, l.sems) /\ SameLives(k.state, l.state)
        /\ \A f \in FDs : f # fd => l.fds[f] = k.fds[f]
        /\ l.fds[fd].resource = r /\ l.fds[fd].mode = k.fds[fd].mode
        /\ \A t \in Streams : t # r => l.streams[t] = k.streams[t]
        /\ SameContents(k.streams[r], l.streams[r]) /\ CountedOut(k, l.streams[r], fd)
        /\ l.streams[r].status # "fresh"

\* The bytes stay in order while the ends are counted.
LEMMA SameContentsInOrder ==
    ASSUME NEW st, NEW new, SameContents(st, new)
    PROVE  InOrder(st) => InOrder(new)
<1>1. /\ new.buffer = st.buffer /\ new.readPos = st.readPos /\ new.writePos = st.writePos
      /\ new.dataAvailable = st.dataAvailable /\ new.got = st.got /\ new.sent = st.sent
  BY DEF SameContents, SameBytes
<1> QED
  BY <1>1, Zenon DEF InOrder

\* closeFD may be called for fd: it is open and its pipe was created
Closable(k, fd) ==
    /\ fd \in FDs /\ k.fds[fd].isOpen /\ k.fds[fd].resource \in Streams
    /\ k.streams[k.fds[fd].resource].status # "fresh"
    /\ DataOK(k.streams, k.sems)

\* What makes a kernel a point of closeFD
LEMMA ClosingPoint ==
    ASSUME NEW k \in KernelType, NEW fd, Closable(k, fd), NEW l \in KernelType, l.fds = k.fds,
           SameLives(k.state, l.state), NEW r, r = k.fds[fd].resource,
           \A t \in Streams : t # r => l.streams[t] = k.streams[t],
           SameContents(k.streams[r], l.streams[r]), CountedOut(k, l.streams[r], fd),
           l.streams[r].status # "fresh",
           \A s \in SemIds \ SemIdsOf(k.streams[r]) : l.sems[s] = k.sems[s],
           HasEnd(k.streams[r]) \/ l.sems = k.sems,
           HasEnd(l.streams[r]) => Counts(l.streams[r], l.sems)
    PROVE  Closing(k, l, fd)
<1> DEFINE st  == k.streams[r]
           new == l.streams[r]
<1>1. r \in Streams /\ st \in Stream /\ new \in Stream /\ DataOK(k.streams, k.sems)
  BY KernelFields DEF Closable
<1>2. InOrder(new)
  BY <1>1, SameContentsInOrder DEF DataOK
<1>3. SemIdsOf(new) = SemIdsOf(st)
  BY DEF SameContents, SemIdsOf
<1>4. HasEnd(new) => HasEnd(st)
  <2>1. Out(fd, k, "R") \in {0, 1} /\ Out(fd, k, "W") \in {0, 1}
    BY DEF Out
  <2>2. new.readers = st.readers - Out(fd, k, "R") /\ new.writers = st.writers - Out(fd, k, "W")
    BY DEF CountedOut
  <2>3. st.readers \in Int /\ st.writers \in Int
    BY <1>1, StreamFields
  <2> HIDE DEF st, new
  <2> QED
    BY <2>1, <2>2, <2>3 DEF HasEnd
<1>5. DataOK(l.streams, l.sems)
  BY <1>1, <1>2, <1>3, <1>4, DataStep
<1> QED
  BY <1>5 DEF Closing

\* The end is counted out.
LEMMA CountedEffect ==
    ASSUME NEW k \in KernelType, NEW fd, Closable(k, fd)
    PROVE  LET r == k.fds[fd].resource
               c == Counted(k, fd)
           IN  /\ OnlyStream(k, c, r) /\ SameContents(k.streams[r], c.streams[r])
               /\ CountedOut(k, c.streams[r], fd)
               /\ c.streams[r].status = k.streams[r].status /\ c.streams[r].eof = k.streams[r].eof
<1> DEFINE r   == k.fds[fd].resource
           st  == k.streams[r]
           c   == Counted(k, fd)
           x   == IF k.fds[fd].mode = "R" THEN st.readers - 1 ELSE st.readers
           y   == IF k.fds[fd].mode = "W" THEN st.writers - 1 ELSE st.writers
           s1  == [st EXCEPT !.readers = x]
           s2  == [s1 EXCEPT !.writers = y]
           c1  == [k EXCEPT !.streams[r].readers = x]
<1>1. r \in Streams /\ st \in Stream /\ st.readers \in Int /\ st.writers \in Int
  BY KernelFields, StreamFields DEF Closable
<1>2. x \in Int /\ y \in Int /\ x = st.readers - Out(fd, k, "R") /\ y = st.writers - Out(fd, k, "W")
  BY <1>1 DEF Out
<1>3. c = [c1 EXCEPT !.streams[r].writers = y]
  BY Zenon DEF Counted
<1> HIDE DEF x, y, c
<1>4. c1 = WithStream(k, r, s1)
  BY <1>1 DEF WithStream, KernelType
<1> HIDE DEF r, st, c1, s1
<1>5. s1 \in Stream /\ s2 \in Stream
  BY <1>1, <1>2 DEF Stream, s1
<1>6. c1 \in KernelType /\ c1.streams[r] = s1
  BY <1>1, <1>4, <1>5, StreamReplaced DEF OnlyStream
<1>7. c = WithStream(c1, r, [c1.streams[r] EXCEPT !.writers = y])
  BY <1>1, <1>3, <1>6 DEF WithStream, KernelType
<1>8. c = WithStream(c1, r, s2)
  BY <1>6, <1>7, Zenon
<1> HIDE DEF s2
<1>9. c = WithStream(k, r, s2)
  BY <1>1, <1>4, <1>8, WithStreamTwice
<1>10. OnlyStream(k, c, r) /\ c.streams[r] = s2
  BY <1>1, <1>5, <1>9, StreamReplaced
<1>11. SameContents(st, s2) /\ s2.status = st.status /\ s2.eof = st.eof
       /\ s2.readers = x /\ s2.writers = y
  BY <1>1 DEF Stream, s1, s2, SameContents, SameBytes
<1>12. CountedOut(k, s2, fd)
  BY <1>2, <1>11 DEF CountedOut, st, r
<1> QED
  BY <1>10, <1>11, <1>12 DEF r, st, c

EofSet(k, r, b) == [k EXCEPT !.streams[r].eof = b]
Freed(k, r)     == [k EXCEPT !.streams[r].status = "freed"]

\* The stream may be told the end of the file, or marked as released.
LEMMA Marked ==
    ASSUME NEW k \in KernelType, NEW r \in Streams, NEW b \in BOOLEAN
    PROVE  /\ OnlyStream(k, EofSet(k, r, b), r)
           /\ SameContents(k.streams[r], EofSet(k, r, b).streams[r])
           /\ SameUse(k.streams[r], EofSet(k, r, b).streams[r])
           /\ EofSet(k, r, b).streams[r].eof = b
           /\ OnlyStream(k, Freed(k, r), r)
           /\ SameContents(k.streams[r], Freed(k, r).streams[r])
           /\ Freed(k, r).streams[r].readers = k.streams[r].readers
           /\ Freed(k, r).streams[r].writers = k.streams[r].writers
           /\ Freed(k, r).streams[r].status = "freed"
<1> DEFINE st == k.streams[r]
           e  == EofSet(k, r, b)
           f  == Freed(k, r)
           s1 == [st EXCEPT !.eof = b]
           s2 == [st EXCEPT !.status = "freed"]
<1>1. e = WithStream(k, r, s1) /\ f = WithStream(k, r, s2)
  BY DEF WithStream, EofSet, Freed
<1>2. st \in Stream
  BY KernelFields
<1> HIDE DEF st, e, f
<1>3. /\ s1 \in Stream /\ SameContents(st, s1) /\ SameUse(st, s1) /\ s1.eof = b
  BY <1>2 DEF Stream, SameContents, SameUse, SameBytes
<1>4. /\ s2 \in Stream /\ SameContents(st, s2) /\ s2.readers = st.readers
      /\ s2.writers = st.writers /\ s2.status = "freed"
  BY <1>2 DEF Stream, SameContents, SameBytes
<1> HIDE DEF s1, s2
<1>5. OnlyStream(k, e, r) /\ e.streams[r] = s1 /\ OnlyStream(k, f, r) /\ f.streams[r] = s2
  BY <1>1, <1>3, <1>4, StreamReplaced
<1> QED
  BY <1>3, <1>4, <1>5 DEF st, e, f

\* The closing of an end that leaves readers only
LEMMA SignalEffect ==
    ASSUME NEW k \in KernelType, NEW fd, Closable(k, fd), NEW r, r = k.fds[fd].resource,
           OnlyReaders(Counted(k, fd).streams[r])
    PROVE  \A l \in Range(SignalSteps(Counted(k, fd), r)) : Closing(k, l, fd) /\ l.fds = k.fds
<1> DEFINE c  == Counted(k, fd)
           st == k.streams[r]
           sc == c.streams[r]
           s  == sc.readSem
           e  == EofSet(c, r, TRUE)
           se == e.streams[r]
<1>1. /\ r \in Streams /\ st \in Stream /\ st.readers \in Int /\ st.writers \in Int
      /\ DataOK(k.streams, k.sems)
  BY KernelFields, StreamFields DEF Closable
<1>2. /\ OnlyStream(k, c, r) /\ SameContents(st, sc) /\ CountedOut(k, sc, fd)
      /\ sc.status = st.status /\ sc.eof = st.eof
  BY CountedEffect
<1> HIDE DEF c
<1>3. c \in KernelType /\ c.fds = k.fds /\ c.sems = k.sems /\ c.state = k.state
      /\ \A t \in Streams : t # r => c.streams[t] = k.streams[t]
  BY <1>2 DEF OnlyStream
<1>4. /\ OnlyStream(c, e, r) /\ SameContents(sc, se) /\ SameUse(sc, se) /\ se.eof = TRUE
  <2> HIDE DEF st, s
  <2>1. \A b \in BOOLEAN :
           /\ OnlyStream(c, EofSet(c, r, b), r) /\ SameContents(sc, EofSet(c, r, b).streams[r])
           /\ SameUse(sc, EofSet(c, r, b).streams[r]) /\ EofSet(c, r, b).streams[r].eof = b
    BY <1>1, <1>3, Marked
  <2>2. TRUE \in BOOLEAN
    OBVIOUS
  <2> QED
    BY <2>1, <2>2, Zenon
<1> HIDE DEF e
<1>5. e \in KernelType /\ e.fds = k.fds /\ e.sems = k.sems /\ e.state = k.state
      /\ \A t \in Streams : t # r => e.streams[t] = k.streams[t]
  BY <1>3, <1>4 DEF OnlyStream
<1>6. HasEnd(st) /\ Counts(st, k.sems) /\ st.status = "live"
  <2>1. Out(fd, k, "R") \in {0, 1} /\ Out(fd, k, "W") \in {0, 1}
    BY DEF Out
  <2>2. sc.readers > 0 /\ sc.readers = st.readers - Out(fd, k, "R")
    BY <1>2 DEF OnlyReaders, CountedOut, c
  <2>3. st.readers > 0
    BY <1>1, <2>1, <2>2
  <2> QED
    BY <1>1, <2>3 DEF HasEnd, DataOK, Counts
<1>7. SemIdsOf(sc) = SemIdsOf(st) /\ SemIdsOf(se) = SemIdsOf(st) /\ s = st.readSem
      /\ se.readSem = s /\ s \in SemIds \cup {NoSem} /\ (s # NoSem => s \in SemIdsOf(st))
  BY <1>1, <1>2, <1>4, StreamFields DEF SameContents, SemIdsOf
<1>8. sc.writers <= 0 /\ se.writers <= 0
  BY <1>2, <1>4 DEF OnlyReaders, SameUse, c
<1>9. Counts(sc, k.sems)
  BY <1>2, <1>6, <1>7, <1>8 DEF Counts, SameContents
<1>10. Counts(se, k.sems)
  BY <1>4, <1>7, <1>8, <1>9 DEF Counts, SameContents, SameUse
<1>11. SameContents(st, se) /\ CountedOut(k, se, fd) /\ se.status = "live"
  BY <1>2, <1>4, <1>6 DEF SameContents, SameBytes, SameUse, CountedOut
<1>12. ASSUME NEW l \in KernelType, l.fds = k.fds, SameLives(k.state, l.state),
              l.streams = c.streams \/ l.streams = e.streams,
              \A u \in SemIds : u # s => l.sems[u] = k.sems[u],
              Counts(l.streams[r], l.sems)
       PROVE  Closing(k, l, fd) /\ l.fds = k.fds
  <2>1. \A t \in Streams : t # r => l.streams[t] = k.streams[t]
    BY <1>3, <1>5, <1>12
  <2>2. SameContents(st, l.streams[r]) /\ CountedOut(k, l.streams[r], fd)
        /\ l.streams[r].status # "fresh"
    BY <1>2, <1>6, <1>11, <1>12
  <2>3. \A u \in SemIds \ SemIdsOf(st) : l.sems[u] = k.sems[u]
    <3>1. \A u \in SemIds : u # NoSem
      BY DEF SemIds
    <3> HIDE DEF s, st
    <3> QED
      BY <1>7, <1>12, <3>1
  <2> HIDE DEF s, sc, se
  <2>4. Closing(k, l, fd)
    BY <1>6, <1>12, <2>1, <2>2, <2>3, ClosingPoint
  <2> QED
    BY <1>12, <2>4
<1> DEFINE p == Posted(e, s)
<1>13. OnlySem(e, p, s) /\ (s # NoSem => p.sems[s].used = e.sems[s].used
                               /\ (e.sems[s].used => p.sems[s].value = e.sems[s].value + 1))
  <2> HIDE DEF s
  <2> QED
    BY <1>5, <1>7, PostedEffect
<1> HIDE DEF p
<1>14. /\ p \in KernelType /\ p.fds = k.fds /\ p.streams = e.streams
       /\ SameLives(k.state, p.state) /\ \A u \in SemIds : u # s => p.sems[u] = k.sems[u]
  BY <1>5, <1>13 DEF OnlySem
<1>15. Counts(se, p.sems)
  <2>1. s # NoSem => s \in SemIds /\ k.sems[s].used /\ k.sems[s].value \in Nat
    BY <1>3, <1>6, <1>7, KernelFields DEF Counts
  <2>2. s # NoSem => p.sems[s].used /\ p.sems[s].value = k.sems[s].value + 1
    BY <1>5, <1>13, <2>1
  <2>3. \A u \in SemIdsOf(se) : u \in SemIds
    BY <1>1, <1>7, StreamFields
  <2>4. \A u \in SemIdsOf(se) : p.sems[u].used
    BY <1>10, <1>14, <2>2, <2>3 DEF Counts, SemIdsOf
  <2>5. se.writeSem # NoSem => p.sems[se.writeSem] = k.sems[se.writeSem]
    BY <1>7, <1>10, <1>14, <2>3 DEF Counts, SemIdsOf
  <2>6. se.dataAvailable \in Int
    BY <1>1, <1>11, StreamFields DEF SameContents
  <2> HIDE DEF s, se, st
  <2>7. /\ se.status = "live" /\ (se.readSem = se.writeSem => se.readSem = NoSem)
        /\ (se.writeSem # NoSem => k.sems[se.writeSem].value + se.dataAvailable = BUFFER_SIZE)
        /\ (s # NoSem => k.sems[s].value >= se.dataAvailable)
        /\ (se.eof => se.writers <= 0)
    BY <1>7, <1>10 DEF Counts
  <2>8. s # NoSem => p.sems[s].value >= se.dataAvailable
    BY <2>1, <2>2, <2>6, <2>7
  <2>9. se.writeSem # NoSem => p.sems[se.writeSem].value + se.dataAvailable = BUFFER_SIZE
    BY <2>5, <2>7
  <2> QED
    BY <1>4, <1>7, <2>4, <2>7, <2>8, <2>9 DEF Counts
<1> DEFINE m == Locked(e, s)
           n == Locked(p, s)
<1>16. /\ m \in KernelType /\ m.fds = e.fds /\ m.streams = e.streams
       /\ m.sems = e.sems /\ m.state = e.state
       /\ n \in KernelType /\ n.fds = p.fds /\ n.streams = p.streams
       /\ n.sems = p.sems /\ n.state = p.state
  <2> HIDE DEF s
  <2> QED
    BY <1>5, <1>7, <1>14, LockedEffect
<1>17. SignalSteps(c, r) = <<c, e, m, n, p>>
  BY DEF SignalSteps, EofSet, e, p
<1> HIDE DEF m, n
<1>18. Range(SignalSteps(c, r)) = {c, e, m, n, p}
  <2> HIDE DEF s
  <2>1. Range(<<c, e, m, n, p>>) = {c, e, m, n, p}
    BY DEF Range
  <2> QED
    BY <1>17, <2>1
<1>19. SameLives(k.state, k.state)
  BY DEF SameLives
<1>20. Closing(k, c, fd) /\ c.fds = k.fds
  BY <1>3, <1>9, <1>12, <1>19
<1>21. Closing(k, e, fd) /\ e.fds = k.fds
  BY <1>5, <1>10, <1>12, <1>19
<1>22. Closing(k, m, fd) /\ m.fds = k.fds
  BY <1>5, <1>10, <1>12, <1>16, <1>19
<1>23. Closing(k, p, fd) /\ p.fds = k.fds
  BY <1>12, <1>14, <1>15
<1>24. Closing(k, n, fd) /\ n.fds = k.fds
  BY <1>12, <1>14, <1>15, <1>16
<1> QED
  BY <1>18, <1>20, <1>21, <1>22, <1>23, <1>24 DEF c

\* The closing of the last end
LEMMA ReleaseEffect ==
    ASSUME NEW k \in KernelType, NEW fd, Closable(k, fd), NEW r, r = k.fds[fd].resource,
           NoUsers(Counted(k, fd).streams[r])
    PROVE  \A l \in Range(ReleaseSteps(Counted(k, fd), r)) : Closing(k, l, fd) /\ l.fds = k.fds
<1> DEFINE c  == Counted(k, fd)
           st == k.streams[r]
           sc == c.streams[r]
           s  == sc.readSem
           w  == sc.writeSem
           e  == EofSet(c, r, FALSE)
           se == e.streams[r]
           d1 == Destroyed(e, s)
           d2 == Destroyed(d1, w)
           g  == Freed(d2, r)
           sg == g.streams[r]
<1>1. /\ r \in Streams /\ st \in Stream /\ st.readers \in Int /\ st.writers \in Int
      /\ DataOK(k.streams, k.sems) /\ k.fds[fd].mode \in {"R", "W"}
  BY KernelFields, StreamFields DEF Closable, FD
<1>2. /\ OnlyStream(k, c, r) /\ SameContents(st, sc) /\ CountedOut(k, sc, fd)
      /\ sc.status = st.status /\ sc.eof = st.eof
  BY CountedEffect
<1>3. NoUsers(sc)
  OBVIOUS
<1> HIDE DEF c
<1>4. c \in KernelType /\ c.fds = k.fds /\ c.sems = k.sems /\ c.state = k.state
      /\ \A t \in Streams : t # r => c.streams[t] = k.streams[t]
  BY <1>2 DEF OnlyStream
<1>5. HasEnd(st) /\ st.status = "live" /\ sc.readers = 0 /\ sc.writers = 0
  <2>1. Out(fd, k, "R") + Out(fd, k, "W") = 1 /\ Out(fd, k, "R") \in 0..1 /\ Out(fd, k, "W") \in 0..1
    BY <1>1 DEF Out
  <2>2. sc.readers = 0 /\ sc.readers = st.readers - Out(fd, k, "R")
        /\ sc.writers = 0 /\ sc.writers = st.writers - Out(fd, k, "W")
    BY <1>2, <1>3 DEF NoUsers, CountedOut
  <2>3. st.readers > 0 \/ st.writers > 0
    BY <1>1, <2>1, <2>2
  <2> QED
    BY <1>1, <2>2, <2>3 DEF HasEnd, DataOK, Counts
<1>6. /\ s = st.readSem /\ w = st.writeSem /\ s \in SemIds \cup {NoSem} /\ w \in SemIds \cup {NoSem}
      /\ SemIdsOf(st) = {s, w} \ {NoSem}
  BY <1>1, <1>2, StreamFields DEF SameContents, SemIdsOf
<1>7. OnlyStream(c, e, r) /\ SameContents(sc, se) /\ SameUse(sc, se)
  <2> HIDE DEF st, s
  <2>1. \A b \in BOOLEAN :
           /\ OnlyStream(c, EofSet(c, r, b), r) /\ SameContents(sc, EofSet(c, r, b).streams[r])
           /\ SameUse(sc, EofSet(c, r, b).streams[r])
    BY <1>1, <1>4, Marked
  <2>2. FALSE \in BOOLEAN
    OBVIOUS
  <2> QED
    BY <2>1, <2>2, Zenon
<1> HIDE DEF e, s, w, st
<1>8. e \in KernelType /\ e.fds = k.fds /\ e.sems = k.sems /\ e.state = k.state
      /\ \A t \in Streams : t # r => e.streams[t] = k.streams[t]
  BY <1>4, <1>7 DEF OnlyStream
<1>9. OnlySem(e, d1, s)
  BY <1>6, <1>8, DestroyedEffect
<1> HIDE DEF d1
<1>10. d1 \in KernelType /\ d1.fds = k.fds /\ d1.streams = e.streams /\ SameLives(k.state, d1.state)
       /\ \A u \in SemIds : u # s => d1.sems[u] = k.sems[u]
  BY <1>8, <1>9 DEF OnlySem
<1>11. OnlySem(d1, d2, w)
  BY <1>6, <1>10, DestroyedEffect
<1> HIDE DEF d2
<1>12. d2 \in KernelType /\ d2.fds = k.fds /\ d2.streams = e.streams /\ SameLives(k.state, d2.state)
       /\ \A u \in SemIds : u # s /\ u # w => d2.sems[u] = k.sems[u]
  <2>1. SameLives(d1.state, d2.state)
    BY <1>11 DEF OnlySem
  <2>2. SameLives(k.state, d2.state)
    BY <1>10, <2>1 DEF SameLives
  <2> QED
    BY <1>10, <1>11, <2>2 DEF OnlySem
<1>13. /\ OnlyStream(d2, g, r) /\ SameContents(se, sg) /\ sg.readers = se.readers
       /\ sg.writers = se.writers /\ sg.status = "freed"
  <2>1. TRUE \in BOOLEAN
    OBVIOUS
  <2>2. /\ OnlyStream(d2, g, r) /\ SameContents(d2.streams[r], sg)
        /\ sg.readers = d2.streams[r].readers /\ sg.writers = d2.streams[r].writers
        /\ sg.status = "freed"
    BY <1>1, <1>12, <2>1, Marked
  <2>3. d2.streams[r] = se
    BY <1>12
  <2> QED
    BY <2>2, <2>3, Zenon
<1> HIDE DEF g
<1>14. /\ g \in KernelType /\ g.fds = k.fds /\ g.state = d2.state /\ g.sems = d2.sems
       /\ \A t \in Streams : t # r => g.streams[t] = k.streams[t]
  BY <1>8, <1>12, <1>13 DEF OnlyStream
<1>15. /\ SameContents(st, se) /\ SameContents(st, sg) /\ CountedOut(k, se, fd) /\ CountedOut(k, sg, fd)
       /\ ~HasEnd(sc) /\ ~HasEnd(se) /\ ~HasEnd(sg)
       /\ sc.status # "fresh" /\ se.status # "fresh" /\ sg.status # "fresh"
  <2>1. /\ se.readers = 0 /\ se.writers = 0 /\ sg.readers = 0 /\ sg.writers = 0
        /\ sc.status = "live" /\ se.status = "live"
    BY <1>2, <1>5, <1>7, <1>13 DEF SameUse, st
  <2>2. SameContents(st, se) /\ SameContents(st, sg)
    BY <1>2, <1>7, <1>13 DEF SameContents, SameBytes
  <2>3. CountedOut(k, se, fd) /\ CountedOut(k, sg, fd)
    BY <1>2, <1>5, <2>1 DEF CountedOut
  <2>4. sg.status = "freed" /\ sc.readers = 0 /\ sc.writers = 0
    BY <1>5, <1>13
  <2> HIDE DEF sc, se, sg
  <2> QED
    BY <2>1, <2>2, <2>3, <2>4 DEF HasEnd
<1>16. ASSUME NEW l \in KernelType, l.fds = k.fds, SameLives(k.state, l.state),
              l.streams = c.streams \/ l.streams = e.streams \/ l.streams = g.streams,
              \A u \in SemIds : u # s /\ u # w => l.sems[u] = k.sems[u]
       PROVE  Closing(k, l, fd) /\ l.fds = k.fds
  <2>1. \A t \in Streams : t # r => l.streams[t] = k.streams[t]
    BY <1>4, <1>8, <1>14, <1>16
  <2>2. SameContents(st, l.streams[r]) /\ CountedOut(k, l.streams[r], fd)
        /\ l.streams[r].status # "fresh" /\ ~HasEnd(l.streams[r])
    BY <1>2, <1>15, <1>16
  <2>3. \A u \in SemIds \ SemIdsOf(st) : l.sems[u] = k.sems[u]
    <3>1. \A u \in SemIds : u # NoSem
      BY DEF SemIds
    <3> QED
      BY <1>6, <1>16, <3>1
  <2> HIDE DEF sc, se, sg
  <2>4. Closing(k, l, fd)
    BY <1>5, <1>16, <2>1, <2>2, <2>3, ClosingPoint DEF st
  <2> QED
    BY <1>16, <2>4
<1> DEFINE m1 == Locked(c, s)
           m2 == Locked(d1, s)
           m3 == Locked(d1, w)
           m4 == Locked(d2, w)
<1>17. ASSUME NEW j \in KernelType, NEW u \in SemIds \cup {NoSem}
       PROVE  /\ Locked(j, u) \in KernelType /\ Locked(j, u).fds = j.fds
              /\ Locked(j, u).streams = j.streams
              /\ Locked(j, u).sems = j.sems /\ Locked(j, u).state = j.state
  BY LockedEffect
<1>18. ReleaseSteps(c, r) = <<c, m1, m2, d1, m3, m4, d2, g>>
  BY DEF ReleaseSteps, EofSet, Freed, e, d1, d2, g, s, w
<1>19. /\ m1 \in KernelType /\ m1.fds = k.fds /\ m1.streams = c.streams
       /\ m1.sems = k.sems /\ m1.state = k.state
  BY <1>4, <1>6, <1>17
<1>20. /\ m2 \in KernelType /\ m2.fds = k.fds /\ m2.streams = e.streams
       /\ m2.sems = d1.sems /\ m2.state = d1.state
       /\ m3 \in KernelType /\ m3.fds = k.fds /\ m3.streams = e.streams
       /\ m3.sems = d1.sems /\ m3.state = d1.state
  BY <1>6, <1>10, <1>17
<1>21. /\ m4 \in KernelType /\ m4.fds = k.fds /\ m4.streams = e.streams
       /\ m4.sems = d2.sems /\ m4.state = d2.state
  BY <1>6, <1>12, <1>17
<1> HIDE DEF m1, m2, m3, m4
<1>22. Range(ReleaseSteps(c, r)) = {c, m1, m2, d1, m3, m4, d2, g}
  <2>1. Range(<<c, m1, m2, d1, m3, m4, d2, g>>) = {c, m1, m2, d1, m3, m4, d2, g}
    BY DEF Range
  <2> QED
    BY <1>18, <2>1
<1>23. SameLives(k.state, k.state)
  BY DEF SameLives
<1>24. (Closing(k, c, fd) /\ c.fds = k.fds) /\ (Closing(k, m1, fd) /\ m1.fds = k.fds)
  BY <1>4, <1>16, <1>19, <1>23
<1>25. (Closing(k, d1, fd) /\ d1.fds = k.fds) /\ (Closing(k, m2, fd) /\ m2.fds = k.fds)
       /\ (Closing(k, m3, fd) /\ m3.fds = k.fds)
  BY <1>10, <1>16, <1>20
<1>26. (Closing(k, d2, fd) /\ d2.fds = k.fds) /\ (Closing(k, m4, fd) /\ m4.fds = k.fds)
  BY <1>12, <1>16, <1>21
<1>27. Closing(k, g, fd) /\ g.fds = k.fds
  BY <1>12, <1>14, <1>16
<1> QED
  BY <1>22, <1>24, <1>25, <1>26, <1>27 DEF c

\* The lists of steps are sequences
LEMMA ListsOfSteps ==
    ASSUME NEW T, NEW a \in T, NEW b \in T, NEW c \in T, NEW d \in T, NEW e \in T,
           NEW f \in T, NEW g \in T, NEW h \in T
    PROVE  /\ <<a>> \in Seq(T) /\ <<a>> # << >>
           /\ <<a, b, c, d, e>> \in Seq(T) /\ <<a, b, c, d, e>> # << >>
           /\ <<a, b, c, d, e, f, g, h>> \in Seq(T) /\ <<a, b, c, d, e, f, g, h>> # << >>
  OBVIOUS

\* The ends of a list are members of it
LEMMA EndsOfList ==
    ASSUME NEW T, NEW q \in Seq(T), q # << >>
    PROVE  Last(q) \in Range(q) /\ Head(q) \in Range(q)
<1>1. Len(q) \in DOMAIN q /\ 1 \in DOMAIN q
  OBVIOUS
<1>2. Last(q) = q[Len(q)] /\ Head(q) = q[1]
  BY DEF Last
<1> QED
  BY <1>1, <1>2 DEF Range

\* Wherever the closing of an end is, the bytes and their count are in order, and at
\* the end of it the end is closed.
LEMMA CloseFDEffect ==
    ASSUME NEW k \in KernelType, NEW fd, Closable(k, fd)
    PROVE  /\ \A l \in Range(CloseSteps(k, fd)) : Closing(k, l, fd)
           /\ Head(CloseSteps(k, fd)) \in Range(CloseSteps(k, fd))
           /\ Closing(k, closeFD(k, fd), fd) /\ ~closeFD(k, fd).fds[fd].isOpen
<1> DEFINE r     == k.fds[fd].resource
           c     == Counted(k, fd)
           st    == k.streams[r]
           sc    == c.streams[r]
           steps == IF OnlyReaders(sc) THEN SignalSteps(c, r)
                    ELSE IF NoUsers(sc) THEN ReleaseSteps(c, r) ELSE <<c>>
           z     == [Last(steps) EXCEPT !.fds[fd].isOpen = FALSE]
<1>1. fd \in FDs /\ CloseSteps(k, fd) = Append(steps, z)
  BY Zenon DEF CloseSteps, Closable
<1>2. steps \in Seq(KernelType) /\ steps # << >> /\ \A l \in Range(steps) : Closing(k, l, fd) /\ l.fds = k.fds
  <2>1. CASE OnlyReaders(sc)
    <3>1. steps = SignalSteps(c, r)
      BY <2>1
    <3> DEFINE s == sc.readSem
               e == EofSet(c, r, TRUE)
               p == Posted(e, s)
               m == Locked(e, s)
               n == Locked(p, s)
    <3>2. SignalSteps(c, r) = <<c, e, m, n, p>>
      BY DEF SignalSteps, EofSet
    <3>3. \A l \in Range(steps) : Closing(k, l, fd) /\ l.fds = k.fds
      BY <2>1, <3>1, SignalEffect
    <3> HIDE DEF c, sc, e, p, m, n, steps
    <3>4. Range(<<c, e, m, n, p>>) = {c, e, m, n, p}
      BY DEF Range
    <3>5. c \in KernelType /\ e \in KernelType /\ m \in KernelType /\ n \in KernelType
          /\ p \in KernelType
      BY <3>1, <3>2, <3>3, <3>4 DEF Closing
    <3>6. <<c, e, m, n, p>> \in Seq(KernelType) /\ <<c, e, m, n, p>> # << >>
      BY <3>5
    <3> QED
      BY <3>1, <3>2, <3>3, <3>6
  <2>2. CASE ~OnlyReaders(sc) /\ NoUsers(sc)
    <3>1. steps = ReleaseSteps(c, r)
      BY <2>2
    <3> DEFINE s  == sc.readSem
               w  == sc.writeSem
               e  == EofSet(c, r, FALSE)
               d1 == Destroyed(e, s)
               d2 == Destroyed(d1, w)
               g  == Freed(d2, r)
               m1 == Locked(c, s)
               m2 == Locked(d1, s)
               m3 == Locked(d1, w)
               m4 == Locked(d2, w)
    <3>2. ReleaseSteps(c, r) = <<c, m1, m2, d1, m3, m4, d2, g>>
      BY DEF ReleaseSteps, EofSet, Freed
    <3>3. \A l \in Range(steps) : Closing(k, l, fd) /\ l.fds = k.fds
      BY <2>2, <3>1, ReleaseEffect
    <3> HIDE DEF c, sc, e, d1, d2, g, m1, m2, m3, m4, steps
    <3>4. Range(<<c, m1, m2, d1, m3, m4, d2, g>>) = {c, m1, m2, d1, m3, m4, d2, g}
      BY DEF Range
    <3>5. c \in KernelType /\ m1 \in KernelType /\ m2 \in KernelType /\ d1 \in KernelType
          /\ m3 \in KernelType /\ m4 \in KernelType /\ d2 \in KernelType /\ g \in KernelType
      BY <3>1, <3>2, <3>3, <3>4 DEF Closing
    <3>6. <<c, m1, m2, d1, m3, m4, d2, g>> \in Seq(KernelType)
          /\ <<c, m1, m2, d1, m3, m4, d2, g>> # << >>
      BY <3>5
    <3> QED
      BY <3>1, <3>2, <3>3, <3>6
  <2>3. CASE ~OnlyReaders(sc) /\ ~NoUsers(sc)
    <3>1. steps = <<c>>
      BY <2>3
    <3>2. /\ r \in Streams /\ st \in Stream /\ st.readers \in Int /\ st.writers \in Int
          /\ DataOK(k.streams, k.sems) /\ st.status # "fresh"
      BY KernelFields, StreamFields DEF Closable
    <3>3. /\ OnlyStream(k, c, r) /\ SameContents(st, sc) /\ CountedOut(k, sc, fd)
          /\ sc.status = st.status /\ sc.eof = st.eof
      BY CountedEffect
    <3> HIDE DEF c
    <3>4. c \in KernelType /\ c.fds = k.fds /\ c.sems = k.sems /\ c.state = k.state
          /\ \A t \in Streams : t # r => c.streams[t] = k.streams[t]
      BY <3>3 DEF OnlyStream
    <3> HIDE DEF st, sc, steps
    <3>5. HasEnd(sc) => Counts(sc, k.sems)
      <4> SUFFICES ASSUME HasEnd(sc) PROVE Counts(sc, k.sems)
        OBVIOUS
      <4>1. Out(fd, k, "R") \in 0..1 /\ Out(fd, k, "W") \in 0..1
        BY DEF Out
      <4>2. sc.readers = st.readers - Out(fd, k, "R") /\ sc.writers = st.writers - Out(fd, k, "W")
        BY <3>3 DEF CountedOut, st
      <4>3. HasEnd(st) /\ (st.writers <= 0 => sc.writers <= 0)
        BY <3>2, <4>1, <4>2 DEF HasEnd
      <4>4. Counts(st, k.sems)
        BY <3>2, <4>3 DEF DataOK, st
      <4>5. SemIdsOf(sc) = SemIdsOf(st) /\ sc.readSem = st.readSem /\ sc.writeSem = st.writeSem
            /\ sc.dataAvailable = st.dataAvailable
        BY <3>3 DEF SameContents, SemIdsOf
      <4> QED
        BY <3>3, <4>3, <4>4, <4>5 DEF Counts
    <3>6. SameLives(k.state, c.state)
      BY <3>4 DEF SameLives
    <3>7. Closing(k, c, fd)
      BY <3>2, <3>3, <3>4, <3>5, <3>6, ClosingPoint DEF st, sc
    <3>8. Range(<<c>>) = {c} /\ <<c>> \in Seq(KernelType) /\ <<c>> # << >>
      <4>1. Range(<<c>>) = {c}
        BY DEF Range
      <4> QED
        BY <3>4, <4>1
    <3> QED
      BY <3>1, <3>4, <3>7, <3>8
  <2> QED
    BY <2>1, <2>2, <2>3
<1> HIDE DEF steps
<1>3. Closing(k, Last(steps), fd) /\ Last(steps).fds = k.fds
  BY <1>2, EndsOfList
<1>4. Closing(k, z, fd) /\ z \in KernelType /\ ~z.fds[fd].isOpen
  <2> DEFINE a == Last(steps)
  <2>1. a \in KernelType /\ a.fds[fd] \in FD
    BY <1>1, <1>3, KernelFields DEF Closing
  <2> HIDE DEF a
  <2>2. /\ z \in KernelType /\ z.streams = a.streams /\ z.sems = a.sems /\ z.state = a.state
        /\ z.fds = [a.fds EXCEPT ![fd] = [a.fds[fd] EXCEPT !.isOpen = FALSE]]
    <3>1. [a.fds[fd] EXCEPT !.isOpen = FALSE] \in FD
      BY <2>1 DEF FD
    <3>2. [a.fds EXCEPT ![fd] = [a.fds[fd] EXCEPT !.isOpen = FALSE]] \in [FDs -> FD]
      BY <1>1, <2>1, <3>1, KernelFields
    <3>3. z = [a EXCEPT !.fds = [a.fds EXCEPT ![fd] = [a.fds[fd] EXCEPT !.isOpen = FALSE]]]
      BY DEF a
    <3> QED
      BY <2>1, <3>2, <3>3 DEF KernelType
  <2> HIDE DEF z
  <2>3. a.fds \in [FDs -> FD]
    BY <2>1, KernelFields
  <2>4. /\ \A f \in FDs : f # fd => z.fds[f] = a.fds[f]
        /\ z.fds[fd].resource = a.fds[fd].resource /\ z.fds[fd].mode = a.fds[fd].mode
        /\ ~z.fds[fd].isOpen
    BY <1>1, <2>1, <2>2, <2>3 DEF FD
  <2>5. Closing(k, a, fd)
    BY <1>3 DEF a
  <2> QED
    BY <2>2, <2>4, <2>5 DEF Closing
<1> HIDE DEF z
<1>5. /\ Range(Append(steps, z)) = Range(steps) \cup {z}
      /\ Append(steps, z) \in Seq(KernelType) /\ Append(steps, z) # << >>
      /\ Last(Append(steps, z)) = z
  <2>1. Append(steps, z) \in Seq(KernelType) /\ Append(steps, z) # << >>
        /\ Append(steps, z)[Len(Append(steps, z))] = z
    BY <1>2, <1>4
  <2> QED
    BY <1>2, <1>4, <2>1, RangeOfAppend DEF Last
<1>6. Head(Append(steps, z)) \in Range(Append(steps, z))
  BY <1>5, EndsOfList
<1> QED
  BY <1>1, <1>2, <1>4, <1>5, <1>6 DEF closeFD

-----------------------------------------------------------------------------
(***************************************************************************)
(* From the operations to the variables                                    *)
(***************************************************************************)

\* What a system call or a handler leaves is the next state, whoever runs then.
LEMMA Installed ==
    ASSUME NEW l \in KernelType, cpu \in PIDs, Install(l) \/ InstallAndSwitch(l)
    PROVE  /\ Kernel' \in KernelType /\ cpu' \in PIDs
           /\ fileDescriptors' = l.fds /\ streams' = l.streams /\ sems' = l.sems
           /\ SameLives(l.state, state')
<1>1. CASE Install(l)
  BY <1>1 DEF Install, Kernel, KernelType, SameLives
<1>2. CASE InstallAndSwitch(l)
  <2>1. state' \in [PIDs -> States] /\ cpu' \in PIDs /\ SameLives(l.state, state')
    BY <1>2, KernelFields, SwitchEffect DEF InstallAndSwitch, SameLives
  <2> QED
    BY <1>2, <2>1 DEF InstallAndSwitch, Kernel, KernelType
<1> QED
  BY <1>1, <1>2

\* Who waits on a semaphore does not matter to the bytes.
LEMMA SameUnits ==
    ASSUME NEW k \in KernelType, NEW l \in KernelType, DataOK(k.streams, k.sems),
           l.streams = k.streams,
           \A s \in SemIds : l.sems[s].used = k.sems[s].used /\ l.sems[s].value = k.sems[s].value
    PROVE  DataOK(l.streams, l.sems)
<1>1. ASSUME NEW r \in Streams, Counts(k.streams[r], k.sems)
      PROVE  Counts(k.streams[r], l.sems)
  <2> DEFINE st == k.streams[r]
  <2>1. /\ st.readSem \in SemIds \cup {NoSem} /\ st.writeSem \in SemIds \cup {NoSem}
        /\ SemIdsOf(st) \subseteq SemIds
    BY KernelFields, StreamFields
  <2> HIDE DEF st
  <2> QED
    BY <1>1, <2>1 DEF Counts, st
<1> QED
  BY <1>1 DEF DataOK

\* A process that waits is queued and gives up the CPU.
LEMMA BlockOnEffect ==
    ASSUME NEW k \in KernelType, NEW s \in SemIds, DataOK(k.streams, k.sems), cpu \in PIDs,
           k.state[cpu] # "EXITED", BlockOn(k, s)
    PROVE  /\ Kernel' \in KernelType /\ cpu' \in PIDs /\ inWait' = [inWait EXCEPT ![cpu] = s]
           /\ fileDescriptors' = k.fds /\ streams' = k.streams /\ DataOK(streams', sems')
           /\ SameLives(k.state, state')
<1> DEFINE q   == IF k.sems[s].used THEN Append(k.sems[s].waiting, cpu) ELSE k.sems[s].waiting
           new == [k.sems[s] EXCEPT !.waiting = q]
           st  == [k.state EXCEPT ![cpu] = "BLOCKED"]
           l   == WithSem(k, s, new, st)
<1>1. k.sems[s] \in CountedSem /\ k.sems[s].waiting \in Seq(PIDs) /\ k.state \in [PIDs -> States]
  BY KernelFields
<1>2. q \in Seq(PIDs)
  BY <1>1
<1> HIDE DEF q
<1>3. new \in CountedSem /\ new.used = k.sems[s].used /\ new.value = k.sems[s].value
  BY <1>1, <1>2 DEF CountedSem, Sem
<1>4. st \in [PIDs -> States] /\ SameLives(k.state, st)
  BY <1>1 DEF States, SameLives
<1>5. inWait' = [inWait EXCEPT ![cpu] = s] /\ InstallAndSwitch(l)
  <2>1. l = [k EXCEPT !.sems[s].waiting = IF k.sems[s].used THEN Append(@, cpu) ELSE @,
                      !.state[cpu] = "BLOCKED"]
    BY DEF WithSem, KernelType, q
  <2> HIDE DEF l
  <2> QED
    BY <2>1, Zenon DEF BlockOn
<1> HIDE DEF new, st
<1>6. OnlySem(k, l, s) /\ l.sems[s] = new /\ l.state = st
  BY <1>3, <1>4, SemReplaced
<1> HIDE DEF l
<1>7. l \in KernelType /\ l.fds = k.fds /\ l.streams = k.streams
      /\ \A t \in SemIds : t # s => l.sems[t] = k.sems[t]
  BY <1>6 DEF OnlySem
<1>8. \A t \in SemIds : l.sems[t].used = k.sems[t].used /\ l.sems[t].value = k.sems[t].value
  BY <1>3, <1>6, <1>7
<1>9. DataOK(l.streams, l.sems)
  BY <1>7, <1>8, SameUnits
<1>10. /\ Kernel' \in KernelType /\ cpu' \in PIDs
       /\ fileDescriptors' = l.fds /\ streams' = l.streams /\ sems' = l.sems
       /\ SameLives(l.state, state')
  BY <1>5, <1>7, Installed
<1>11. SameLives(k.state, state')
  BY <1>4, <1>6, <1>10 DEF SameLives
<1> QED
  BY <1>5, <1>7, <1>9, <1>10, <1>11

\* The end fd is as it was, or in the middle of its closing, or closed.
PartlyClosed(k, l, fd) ==
    /\ l \in KernelType /\ DataOK(l.streams, l.sems) /\ SameLives(k.state, l.state)
    /\ \/ l.fds = k.fds /\ l.streams = k.streams
       \/ Closable(k, fd) /\ Closing(k, l, fd)

\* closeFD does nothing to a descriptor of no pipe or one that is closed.
LEMMA CloseNothing ==
    ASSUME NEW k, NEW fd, fd \notin FDs \/ ~k.fds[fd].isOpen
    PROVE  /\ closeFD(k, fd) = k /\ CutOff(k, fd) = {k} /\ ~Spins(k, fd)
<1>1. CloseSteps(k, fd) = <<k>>
  BY Zenon DEF CloseSteps
<1>2. Range(<<k>>) = {k} /\ Last(<<k>>) = k /\ Head(<<k>>) = k
  BY DEF Range, Last
<1>3. Operated(k, fd) = {}
  BY Zenon DEF Operated
<1>4. ~Spins(k, fd)
  BY <1>3 DEF Spins
<1>5. CutOff(k, fd) = {k}
  BY <1>1, <1>2, <1>4 DEF CutOff
<1> QED
  BY <1>1, <1>2, <1>4, <1>5 DEF closeFD

\* A descriptor of a pipe, open or not, that a process holds
Holdable(k, fd) ==
    /\ fd \in FDs /\ k.fds[fd].resource \in Streams
    /\ k.streams[k.fds[fd].resource].status # "fresh"
    /\ DataOK(k.streams, k.sems)

\* Wherever closeFD is cut off, the end is partly closed.
LEMMA CloseHeld ==
    ASSUME NEW k \in KernelType, NEW fd, Holdable(k, fd)
    PROVE  /\ \A l \in CutOff(k, fd) : PartlyClosed(k, l, fd)
           /\ PartlyClosed(k, closeFD(k, fd), fd)
<1>1. SameLives(k.state, k.state)
  BY DEF SameLives
<1>2. PartlyClosed(k, k, fd)
  BY <1>1 DEF PartlyClosed, Holdable
<1>3. CASE ~k.fds[fd].isOpen
  BY <1>2, <1>3, CloseNothing
<1>4. CASE k.fds[fd].isOpen
  <2>1. Closable(k, fd)
    BY <1>4 DEF Closable, Holdable
  <2>2. \A l : Closing(k, l, fd) => PartlyClosed(k, l, fd)
    BY <2>1 DEF Closing, PartlyClosed
  <2>3. CutOff(k, fd) \subseteq {k} \cup Range(CloseSteps(k, fd))
    BY <2>1, CloseFDEffect DEF CutOff
  <2> QED
    BY <1>2, <2>1, <2>2, <2>3, CloseFDEffect
<1> QED
  BY <1>3, <1>4

\* The fields of the kernel are the variables.
LEMMA KernelIs ==
    /\ Kernel.fds = fileDescriptors /\ Kernel.streams = streams /\ Kernel.sems = sems
    /\ Kernel.state = state /\ Kernel.locked = locked
  BY DEF Kernel

\* Waking the waiter changes no end.
LEMMA WakingLater ==
    ASSUME NEW k \in KernelType, NEW fd, NEW l, PartlyClosed(k, l, fd), NEW W
    PROVE  PartlyClosed(k, [l EXCEPT !.state = Woken(@, W)], fd)
<1> DEFINE m == [l EXCEPT !.state = Woken(@, W)]
<1>1. l \in KernelType /\ l.state \in [PIDs -> States]
  BY KernelFields DEF PartlyClosed
<1>2. Woken(l.state, W) \in [PIDs -> States] /\ SameLives(l.state, Woken(l.state, W))
  BY <1>1, WokenEffect DEF SameLives
<1>3. /\ m \in KernelType /\ m.fds = l.fds /\ m.streams = l.streams /\ m.sems = l.sems
      /\ m.state = Woken(l.state, W)
  BY <1>1, <1>2 DEF KernelType
<1> HIDE DEF m
<1>4. SameLives(k.state, m.state)
  BY <1>2, <1>3 DEF PartlyClosed, SameLives
<1>5. Closing(k, l, fd) => Closing(k, m, fd)
  BY <1>3, <1>4 DEF Closing
<1> QED
  BY <1>3, <1>4, <1>5 DEF PartlyClosed, m

OwnEnd(p) == IF Writer(p) THEN WriteFD ELSE ReadFD

\* A process of the pipeline holds one end and a standard descriptor.
LEMMA OwnEndIs ==
    ASSUME HoldersOK, NEW p \in Users, Alive(p)
    PROVE  /\ Opened /\ EndsOK /\ HeldOK /\ ProgramsOK
           /\ \/ /\ Writer(p) /\ ~Reader(p) /\ OwnEnd(p) = WriteFD
                 /\ fds[p][1] \notin FDs /\ fds[p][2] = WriteFD
              \/ /\ Reader(p) /\ ~Writer(p) /\ OwnEnd(p) = ReadFD
                 /\ fds[p][1] = ReadFD /\ fds[p][2] \notin FDs
           /\ OwnEnd(p) \in FDs
<1>1. Opened /\ EndsOK /\ HeldOK /\ ProgramsOK
  BY DEF HoldersOK, Nobody
<1>2. STDIN \notin FDs /\ STDOUT \notin FDs
  BY DEF STDIN, STDOUT, FDs
<1>3. ReadFD \in FDs /\ WriteFD \in FDs
  BY <1>1 DEF EndsOK
<1>4. <<STDIN, WriteFD>>[1] = STDIN /\ <<STDIN, WriteFD>>[2] = WriteFD
      /\ <<ReadFD, STDOUT>>[1] = ReadFD /\ <<ReadFD, STDOUT>>[2] = STDOUT
  OBVIOUS
<1>5. Writer(p) \/ Reader(p)
  BY <1>1 DEF HeldOK
<1>6. Writer(p) => fds[p][1] = STDIN /\ fds[p][2] = WriteFD
  BY <1>4, Zenon DEF Writer
<1>7. Reader(p) => fds[p][1] = ReadFD /\ fds[p][2] = STDOUT
  BY <1>4, Zenon DEF Reader
<1>8. ~(Writer(p) /\ Reader(p))
  BY <1>2, <1>3, <1>6, <1>7
<1> QED
  BY <1>1, <1>2, <1>3, <1>5, <1>6, <1>7, <1>8 DEF OwnEnd

\* The kernel once p has ended
LEMMA EndedEffect ==
    ASSUME Kernel \in KernelType, NEW p \in PIDs
    PROVE  LET k == Ended(Kernel, p)
           IN  /\ k \in KernelType /\ k.fds = fileDescriptors /\ k.streams = streams
               /\ k.sems = sems
               /\ \A q \in PIDs : k.state[q] = "EXITED" <=> state[q] = "EXITED" \/ q = p
<1> DEFINE st == [state EXCEPT ![p] = "EXITED"]
           k  == [Kernel EXCEPT !.state = st]
<1>1. state \in [PIDs -> States]
  BY KernelFields, KernelIs
<1>2. st \in [PIDs -> States] /\ \A q \in PIDs : st[q] = "EXITED" <=> state[q] = "EXITED" \/ q = p
  BY <1>1 DEF States
<1> HIDE DEF st
<1>3. Ended(Kernel, p) = k
  BY KernelIs, Zenon DEF Ended, st
<1>4. k \in KernelType /\ k.fds = fileDescriptors /\ k.streams = streams /\ k.sems = sems
      /\ k.state = st
  BY <1>2, KernelIs DEF KernelType
<1> QED
  BY <1>2, <1>3, <1>4

\* Wherever the end of a process is cut off, its own end of the pipe is partly closed.
LEMMA EndPoints ==
    ASSUME Kernel \in KernelType, DataOK(streams, sems), HoldersOK, NEW p \in Users, Alive(p)
    PROVE  LET k0 == Ended(Kernel, p)
               k1 == closeFD(k0, fds[p][1])
               k2 == closeFD(k1, fds[p][2])
           IN  /\ \A l \in CutOff(k0, fds[p][1]) \cup CutOff(k1, fds[p][2]) :
                     PartlyClosed(k0, l, OwnEnd(p))
               /\ PartlyClosed(k0, [k2 EXCEPT !.state = Woken(@, {waitPid[p]})], OwnEnd(p))
<1> DEFINE k0 == Ended(Kernel, p)
           k1 == closeFD(k0, fds[p][1])
           k2 == closeFD(k1, fds[p][2])
<1>1. p \in PIDs
  BY DEF Users, PIDs
<1>2. k0 \in KernelType /\ k0.fds = fileDescriptors /\ k0.streams = streams /\ k0.sems = sems
  BY <1>1, EndedEffect
<1> HIDE DEF k0
<1>3. Holdable(k0, OwnEnd(p))
  <2>1. OwnEnd(p) \in {ReadFD, WriteFD} /\ OwnEnd(p) \in FDs /\ EndsOK
    BY OwnEndIs
  <2>2. fileDescriptors[OwnEnd(p)].resource = Pipe /\ Pipe \in Streams
        /\ streams[Pipe].status # "fresh"
    BY <2>1 DEF EndsOK, Pipe
  <2> QED
    BY <1>2, <2>1, <2>2 DEF Holdable
<1>4. /\ \A l \in CutOff(k0, OwnEnd(p)) : PartlyClosed(k0, l, OwnEnd(p))
      /\ PartlyClosed(k0, closeFD(k0, OwnEnd(p)), OwnEnd(p))
  BY <1>2, <1>3, CloseHeld
<1>5. k0 \in CutOff(k0, OwnEnd(p))
  BY DEF CutOff
<1>6. (\A l \in CutOff(k0, fds[p][1]) \cup CutOff(k1, fds[p][2]) : PartlyClosed(k0, l, OwnEnd(p)))
      /\ PartlyClosed(k0, k2, OwnEnd(p))
  <2>1. CASE OwnEnd(p) = WriteFD /\ fds[p][1] \notin FDs /\ fds[p][2] = WriteFD
    <3>1. k1 = k0 /\ CutOff(k0, fds[p][1]) = {k0}
      BY <2>1, CloseNothing
    <3>2. k2 = closeFD(k0, OwnEnd(p)) /\ CutOff(k1, fds[p][2]) = CutOff(k0, OwnEnd(p))
      BY <2>1, <3>1
    <3> HIDE DEF k1, k2
    <3> QED
      BY <1>4, <1>5, <3>1, <3>2
  <2>2. CASE OwnEnd(p) = ReadFD /\ fds[p][1] = ReadFD /\ fds[p][2] \notin FDs
    <3>1. k1 = closeFD(k0, OwnEnd(p)) /\ CutOff(k0, fds[p][1]) = CutOff(k0, OwnEnd(p))
      BY <2>2
    <3>2. k2 = k1 /\ CutOff(k1, fds[p][2]) = {k1}
      BY <2>2, CloseNothing
    <3> HIDE DEF k1, k2
    <3> QED
      BY <1>4, <3>1, <3>2
  <2> QED
    BY <2>1, <2>2, OwnEndIs
<1> HIDE DEF k1, k2
<1>7. PartlyClosed(k0, [k2 EXCEPT !.state = Woken(@, {waitPid[p]})], OwnEnd(p))
  BY <1>2, <1>6, WakingLater
<1> QED
  BY <1>6, <1>7 DEF k0, k1, k2

-----------------------------------------------------------------------------
(***************************************************************************)
(* The holders of the ends, step by step                                   *)
(***************************************************************************)
Stages == {"left", "right", "close0", "close1"}

\* The ends of the pipe are named by the same descriptors.
LEMMA SameNames ==
    ASSUME shell' = shell
    PROVE  ReadFD' = ReadFD /\ WriteFD' = WriteFD /\ (Opened' <=> Opened)
  BY DEF ReadFD, WriteFD, Opened

\* Nobody starts, ends, opens or closes: only the program of me goes on, and the bytes
\* go through the pipe.
LEMMA HoldersStep ==
    ASSUME HoldersOK, fileDescriptors' = fileDescriptors, shell' = shell, fds' = fds, prog' = prog,
           \A q \in Users : state'[q] # "EXITED" <=> state[q] # "EXITED",
           \A t \in Streams : SameUse(streams[t], streams'[t]),
           pc'[SHELLPID] = pc[SHELLPID] \/ pc'[SHELLPID] \notin Stages,
           NEW me,
           \A q \in Users : q # me => pc'[q] = pc[q] /\ closing'[q] = closing[q],
           \A q \in Users : Reader(q) /\ q # me /\ ReadAll => ReadAll',
           me \in Users /\ Alive(me) =>
             /\ closing'[me] \in Seq({fds[me][1], fds[me][2]})
             /\ pc'[me] \in {"run", "write"} => pc[me] \in {"run", "write"}
             /\ Reader(me) => pc'[me] # "write" /\ (pc'[me] = "run" => pc[me] = "run")
             /\ Reader(me) /\ Reads(prog[me]) /\ pc'[me] \in {"close", "exit"} => ReadAll'
    PROVE  HoldersOK'
<1>1. ReadFD' = ReadFD /\ WriteFD' = WriteFD /\ (Opened' <=> Opened)
  BY SameNames
<1>2. Pipe' = Pipe /\ (ReadOpen' <=> ReadOpen) /\ (WriteOpen' <=> WriteOpen)
  BY <1>1 DEF Pipe, ReadOpen, WriteOpen
<1>3. \A q \in Users : (Alive(q)' <=> Alive(q))
  BY DEF Alive
<1>4. \A q \in Users : (Writer(q)' <=> Writer(q)) /\ (Reader(q)' <=> Reader(q))
  BY <1>1, <1>3 DEF Writer, Reader
<1>5. Nobody' <=> Nobody
  BY <1>3 DEF Nobody
<1>6. Opened => EndsOK /\ HeldOK /\ ProgramsOK /\ Pipe \in Streams
  BY DEF HoldersOK, EndsOK
<1>7. Opened => /\ streams'[Pipe].readers = streams[Pipe].readers
                /\ streams'[Pipe].writers = streams[Pipe].writers
                /\ streams'[Pipe].status = streams[Pipe].status
  BY <1>6 DEF SameUse
<1>8. Opened => EndsOK'
  <2> SUFFICES ASSUME Opened PROVE EndsOK'
    OBVIOUS
  <2>1. fileDescriptors'[ReadFD].mode = "R" /\ fileDescriptors'[WriteFD].mode = "W"
        /\ fileDescriptors'[WriteFD].resource = Pipe /\ streams'[Pipe].status # "fresh"
    BY <1>6, <1>7 DEF EndsOK
  <2>2. ReadFD \in FDs /\ WriteFD \in FDs /\ ReadFD # WriteFD /\ Pipe \in Streams
    BY <1>6 DEF EndsOK
  <2> QED
    BY <1>1, <1>2, <2>1, <2>2 DEF EndsOK
<1>9. Opened => HeldOK'
  BY <1>1, <1>2, <1>3, <1>4, <1>6, <1>7 DEF HeldOK
<1>10. Opened => ProgramsOK'
  <2> SUFFICES ASSUME Opened PROVE ProgramsOK'
    OBVIOUS
  <2>1. ASSUME NEW q \in Users, Alive(q)
        PROVE  /\ Writer(q) /\ pc'[q] \in {"run", "write"} => WriteOpen
               /\ Reader(q) /\ pc'[q] = "run" => ReadOpen
               /\ Reader(q) => pc'[q] # "write"
               /\ Reader(q) /\ Reads(prog[q]) /\ pc'[q] \in {"close", "exit"} => ReadAll'
               /\ closing'[q] \in Seq({fds[q][1], fds[q][2]})
    <3>1. CASE q = me
      BY <1>6, <2>1, <3>1 DEF ProgramsOK
    <3>2. CASE q # me
      BY <1>6, <2>1, <3>2 DEF ProgramsOK
    <3> QED
      BY <3>1, <3>2
  <2>2. \A q \in Users : Writer(q) \/ Reader(q) => Alive(q)
    BY DEF Writer, Reader
  <2> QED
    BY <1>2, <1>3, <1>4, <2>1, <2>2 DEF ProgramsOK
<1>11. ShellOK'
  <2>1. CASE pc'[SHELLPID] \notin Stages
    BY <2>1 DEF ShellOK, Stages
  <2>2. CASE pc'[SHELLPID] = pc[SHELLPID]
    <3>1. ShellOK
      BY DEF HoldersOK
    <3> QED
      BY <1>1, <1>2, <1>3, <1>4, <1>5, <1>7, <2>2, <3>1 DEF ShellOK
  <2> QED
    BY <2>1, <2>2
<1> QED
  BY <1>1, <1>5, <1>8, <1>9, <1>10, <1>11 DEF HoldersOK

\* What one end being partly closed leaves of the other end and of the pipe
LEMMA PartlyClosedFacts ==
    ASSUME HoldersOK, Opened, NEW k \in KernelType, k.fds = fileDescriptors, k.streams = streams,
           NEW l, NEW e, e \in {ReadFD, WriteFD}, PartlyClosed(k, l, e),
           fileDescriptors' = l.fds, streams' = l.streams, shell' = shell
    PROVE  /\ EndsOK' /\ Pipe' = Pipe
           /\ SameBytes(streams[Pipe], streams'[Pipe])
           /\ e = WriteFD => /\ (ReadOpen' <=> ReadOpen)
                             /\ streams'[Pipe].readers = streams[Pipe].readers
                             /\ \/ streams'[Pipe].writers = streams[Pipe].writers
                                \/ /\ WriteOpen
                                   /\ streams'[Pipe].writers = streams[Pipe].writers - 1
           /\ e = ReadFD  => /\ (WriteOpen' <=> WriteOpen)
                             /\ streams'[Pipe].writers = streams[Pipe].writers
                             /\ \/ streams'[Pipe].readers = streams[Pipe].readers
                                \/ /\ ReadOpen
                                   /\ streams'[Pipe].readers = streams[Pipe].readers - 1
<1>1. ReadFD' = ReadFD /\ WriteFD' = WriteFD
  BY SameNames
<1>2. EndsOK
  BY DEF HoldersOK
<1>3. /\ ReadFD \in FDs /\ WriteFD \in FDs /\ ReadFD # WriteFD /\ Pipe \in Streams
      /\ fileDescriptors[ReadFD].mode = "R" /\ fileDescriptors[WriteFD].mode = "W"
      /\ fileDescriptors[ReadFD].resource = Pipe /\ fileDescriptors[WriteFD].resource = Pipe
      /\ streams[Pipe].status # "fresh"
  BY <1>2 DEF EndsOK, Pipe
<1>4. streams[Pipe].readers \in Int /\ streams[Pipe].writers \in Int
  BY <1>3, KernelFields, StreamFields
<1>5. CASE l.fds = k.fds /\ l.streams = k.streams
  <2>1. fileDescriptors' = fileDescriptors /\ streams' = streams
    BY <1>5
  <2>2. Pipe' = Pipe /\ (ReadOpen' <=> ReadOpen) /\ (WriteOpen' <=> WriteOpen)
    BY <1>1, <2>1 DEF Pipe, ReadOpen, WriteOpen
  <2>3. EndsOK'
    BY <1>1, <1>2, <2>1, <2>2 DEF EndsOK
  <2> QED
    BY <2>1, <2>2, <2>3 DEF SameBytes
<1>6. CASE Closable(k, e) /\ Closing(k, l, e)
  <2>1. k.fds[e].resource = Pipe /\ fileDescriptors[e].isOpen
    BY <1>3, <1>6 DEF Closable
  <2>2. /\ \A f \in FDs : f # e => fileDescriptors'[f] = fileDescriptors[f]
        /\ fileDescriptors'[e].resource = Pipe
        /\ fileDescriptors'[e].mode = fileDescriptors[e].mode
        /\ SameContents(streams[Pipe], streams'[Pipe]) /\ streams'[Pipe].status # "fresh"
        /\ streams'[Pipe].readers = streams[Pipe].readers - Out(e, k, "R")
        /\ streams'[Pipe].writers = streams[Pipe].writers - Out(e, k, "W")
    BY <1>6, <2>1 DEF Closing, CountedOut
  <2>3. /\ fileDescriptors'[ReadFD].mode = "R" /\ fileDescriptors'[WriteFD].mode = "W"
        /\ fileDescriptors'[ReadFD].resource = Pipe /\ fileDescriptors'[WriteFD].resource = Pipe
    BY <1>3, <2>2
  <2>4. Pipe' = Pipe
    BY <1>1, <2>3 DEF Pipe
  <2>5. EndsOK'
    BY <1>1, <1>3, <2>2, <2>3, <2>4 DEF EndsOK
  <2>6. SameBytes(streams[Pipe], streams'[Pipe])
    BY <2>2 DEF SameContents
  <2>7. e = WriteFD => Out(e, k, "R") = 0 /\ Out(e, k, "W") = 1 /\ WriteOpen /\ (ReadOpen' <=> ReadOpen)
    BY <1>1, <1>3, <2>1, <2>2 DEF Out, WriteOpen, ReadOpen
  <2>8. e = ReadFD => Out(e, k, "R") = 1 /\ Out(e, k, "W") = 0 /\ ReadOpen /\ (WriteOpen' <=> WriteOpen)
    BY <1>1, <1>3, <2>1, <2>2 DEF Out, WriteOpen, ReadOpen
  <2> QED
    BY <1>4, <2>2, <2>4, <2>5, <2>6, <2>7, <2>8
<1> QED
  BY <1>5, <1>6 DEF PartlyClosed

\* A process ends, and its own end of the pipe is closed, or is in the middle of that:
\* nothing is said of it any more, and the other end is as it was.
LEMMA DeathStep ==
    ASSUME HoldersOK, NEW p \in Users, Alive(p),
           NEW k \in KernelType, k.fds = fileDescriptors, k.streams = streams,
           NEW l, PartlyClosed(k, l, OwnEnd(p)),
           fileDescriptors' = l.fds, streams' = l.streams,
           \A q \in Users : state'[q] # "EXITED" <=> state[q] # "EXITED" /\ q # p,
           shell' = shell, fds' = fds, prog' = prog, closing' = closing,
           \A q \in Users : q # p => pc'[q] = pc[q],
           \/ pc'[SHELLPID] = pc[SHELLPID] \/ pc'[SHELLPID] \notin Stages
           \/ pc[SHELLPID] = "right" /\ pc'[SHELLPID] = "close0"
    PROVE  HoldersOK'
<1>1. ReadFD' = ReadFD /\ WriteFD' = WriteFD /\ (Opened' <=> Opened)
  BY SameNames
<1>2. /\ Opened /\ EndsOK /\ HeldOK /\ ProgramsOK
      /\ \/ Writer(p) /\ ~Reader(p) /\ OwnEnd(p) = WriteFD
         \/ Reader(p) /\ ~Writer(p) /\ OwnEnd(p) = ReadFD
  BY OwnEndIs
<1>3. OwnEnd(p) \in {ReadFD, WriteFD} /\ ReadFD # WriteFD
  BY <1>2 DEF EndsOK
<1>4. /\ EndsOK' /\ Pipe' = Pipe /\ SameBytes(streams[Pipe], streams'[Pipe])
      /\ OwnEnd(p) = WriteFD => /\ (ReadOpen' <=> ReadOpen)
                                /\ streams'[Pipe].readers = streams[Pipe].readers
                                /\ \/ streams'[Pipe].writers = streams[Pipe].writers
                                   \/ /\ WriteOpen
                                      /\ streams'[Pipe].writers = streams[Pipe].writers - 1
      /\ OwnEnd(p) = ReadFD  => /\ (WriteOpen' <=> WriteOpen)
                                /\ streams'[Pipe].writers = streams[Pipe].writers
  BY <1>2, <1>3, PartlyClosedFacts
<1>5. \A q \in Users : Alive(q)' <=> Alive(q) /\ q # p
  BY DEF Alive
<1>6. \A q \in Users : /\ Writer(q)' <=> Writer(q) /\ q # p
                       /\ Reader(q)' <=> Reader(q) /\ q # p
  BY <1>1, <1>5 DEF Writer, Reader
<1>7. \A q \in Users : /\ Writer(p) /\ Writer(q) => q = p
                       /\ Reader(p) /\ Reader(q) => q = p
  BY <1>2 DEF HeldOK, Writer, Reader
<1>8. Writer(p) => /\ streams[Pipe].writers = IF WriteOpen THEN 1 ELSE 0
                   /\ streams'[Pipe].writers \in {0, 1}
                   /\ streams[Pipe].writers = 0 => streams'[Pipe].writers = 0
  <2>1. Writer(p) => streams[Pipe].writers = IF WriteOpen THEN 1 ELSE 0
    BY <1>2 DEF HeldOK
  <2> QED
    BY <1>2, <1>4, <2>1
<1>9. HeldOK'
  <2>1. \A q \in Users : Alive(q)' => Writer(q)' \/ Reader(q)'
    BY <1>2, <1>5, <1>6 DEF HeldOK
  <2>2. \A q, u \in Users : Alive(q)' /\ Alive(u)' /\ fds'[q] = fds'[u] => q = u
    BY <1>2, <1>5 DEF HeldOK
  <2>3. ASSUME NEW q \in Users, Writer(q)'
        PROVE  streams'[Pipe].writers = IF WriteOpen' THEN 1 ELSE 0
    <3>1. Writer(q) /\ ~Writer(p)
      BY <1>6, <1>7, <2>3
    <3>2. streams[Pipe].writers = IF WriteOpen THEN 1 ELSE 0
      BY <1>2, <3>1 DEF HeldOK
    <3> QED
      BY <1>2, <1>4, <3>1, <3>2
  <2>4. ASSUME NEW q \in Users, Reader(q)'
        PROVE  /\ streams'[Pipe].readers = IF ReadOpen' THEN 1 ELSE 0
               /\ streams'[Pipe].writers \in {0, 1}
    <3>1. Reader(q) /\ Writer(p)
      BY <1>2, <1>6, <1>7, <2>4
    <3>2. streams[Pipe].readers = IF ReadOpen THEN 1 ELSE 0
      BY <1>2, <3>1 DEF HeldOK
    <3> QED
      BY <1>2, <1>4, <1>8, <3>1, <3>2
  <2> QED
    BY <1>4, <2>1, <2>2, <2>3, <2>4 DEF HeldOK
<1>10. ProgramsOK'
  <2>1. ASSUME NEW q \in Users, Alive(q)'
        PROVE  /\ Writer(q)' /\ pc'[q] \in {"run", "write"} => WriteOpen'
               /\ Reader(q)' /\ pc'[q] = "run" => ReadOpen'
               /\ Reader(q)' => pc'[q] # "write"
               /\ Reader(q)' /\ Reads(prog'[q]) /\ pc'[q] \in {"close", "exit"} => ReadAll'
               /\ closing'[q] \in Seq({fds'[q][1], fds'[q][2]})
    <3>1. Alive(q) /\ q # p /\ pc'[q] = pc[q]
      BY <1>5, <2>1
    <3>2. Writer(q)' => Writer(q) /\ OwnEnd(p) = ReadFD
      BY <1>2, <1>6, <1>7, <2>1
    <3>3. Reader(q)' => Reader(q) /\ Writer(p) /\ OwnEnd(p) = WriteFD
      BY <1>2, <1>6, <1>7, <2>1
    <3>4. Reader(q)' /\ Reads(prog'[q]) /\ pc'[q] \in {"close", "exit"} => ReadAll'
      <4> SUFFICES ASSUME Reader(q)', Reads(prog[q]), pc[q] \in {"close", "exit"}
                   PROVE  ReadAll'
        BY <3>1
      <4>1. ReadAll
        BY <1>2, <3>3 DEF ProgramsOK
      <4> QED
        BY <1>4, <1>8, <3>3, <4>1 DEF ReadAll, SameBytes
    <3> QED
      BY <1>2, <1>4, <3>1, <3>2, <3>3, <3>4 DEF ProgramsOK
  <2>2. \A q \in Users : Writer(q)' \/ Reader(q)' => Alive(q)'
    BY DEF Writer, Reader
  <2> QED
    BY <2>1, <2>2 DEF ProgramsOK
<1>11. ShellOK'
  <2>1. ShellOK
    BY DEF HoldersOK
  <2>2. CASE pc'[SHELLPID] \notin Stages
    BY <2>2 DEF ShellOK, Stages
  <2>3. CASE pc[SHELLPID] \in {"left", "close0", "close1"}
    BY <2>1, <2>3 DEF ShellOK, Nobody
  <2>4. CASE pc[SHELLPID] = "right" /\ pc'[SHELLPID] \in {"right", "close0"}
    <3>1. /\ \A q \in Users : Alive(q) => Writer(q) /\ q = shell.pid
          /\ ReadOpen /\ streams[Pipe].readers = 1
          /\ shell.pid \in Users /\ shell'.pid = shell.pid
      BY <2>1, <2>4 DEF ShellOK
    <3>2. Writer(p) /\ OwnEnd(p) = WriteFD /\ \A q \in Users : ~Alive(q)'
      BY <1>2, <1>5, <3>1
    <3>3. ReadOpen' /\ streams'[Pipe].readers = 1 /\ streams'[Pipe].writers \in {0, 1}
      BY <1>4, <1>8, <3>1, <3>2
    <3> QED
      BY <1>1, <1>2, <1>4, <2>4, <3>1, <3>2, <3>3 DEF ShellOK, Nobody
  <2> QED
    BY <2>2, <2>3, <2>4 DEF Stages
<1> QED
  BY <1>1, <1>2, <1>4, <1>9, <1>10, <1>11 DEF HoldersOK

\* A program closes its own end.
LEMMA OwnCloseStep ==
    ASSUME HoldersOK, NEW p \in Users, Alive(p), pc[p] = "close",
           NEW k \in KernelType, k.fds = fileDescriptors, k.streams = streams,
           NEW l, PartlyClosed(k, l, OwnEnd(p)), Closing(k, l, OwnEnd(p)),
           Closable(k, OwnEnd(p)), ~l.fds[OwnEnd(p)].isOpen,
           fileDescriptors' = l.fds, streams' = l.streams,
           \A q \in Users : state'[q] # "EXITED" <=> state[q] # "EXITED",
           shell' = shell, fds' = fds, prog' = prog, pc' = pc,
           \A q \in Users : q # p => closing'[q] = closing[q],
           closing'[p] \in Seq({fds[p][1], fds[p][2]})
    PROVE  HoldersOK'
<1>1. ReadFD' = ReadFD /\ WriteFD' = WriteFD /\ (Opened' <=> Opened)
  BY SameNames
<1>2. /\ Opened /\ EndsOK /\ HeldOK /\ ProgramsOK
      /\ \/ Writer(p) /\ ~Reader(p) /\ OwnEnd(p) = WriteFD
         \/ Reader(p) /\ ~Writer(p) /\ OwnEnd(p) = ReadFD
  BY OwnEndIs
<1>3. OwnEnd(p) \in {ReadFD, WriteFD} /\ ReadFD # WriteFD
  BY <1>2 DEF EndsOK
<1>4. /\ EndsOK' /\ Pipe' = Pipe /\ SameBytes(streams[Pipe], streams'[Pipe])
      /\ OwnEnd(p) = WriteFD => /\ (ReadOpen' <=> ReadOpen)
                                /\ streams'[Pipe].readers = streams[Pipe].readers
      /\ OwnEnd(p) = ReadFD  => /\ (WriteOpen' <=> WriteOpen)
                                /\ streams'[Pipe].writers = streams[Pipe].writers
  BY <1>2, <1>3, PartlyClosedFacts
<1>5. /\ OwnEnd(p) = WriteFD => WriteOpen /\ ~WriteOpen'
                                /\ streams'[Pipe].writers = streams[Pipe].writers - 1
      /\ OwnEnd(p) = ReadFD  => ReadOpen /\ ~ReadOpen'
                                /\ streams'[Pipe].readers = streams[Pipe].readers - 1
  <2>1. k.fds[OwnEnd(p)].resource = Pipe /\ fileDescriptors[OwnEnd(p)].isOpen
    BY <1>2 DEF Closable, EndsOK, Pipe
  <2>2. /\ streams'[Pipe].readers = streams[Pipe].readers - Out(OwnEnd(p), k, "R")
        /\ streams'[Pipe].writers = streams[Pipe].writers - Out(OwnEnd(p), k, "W")
    BY <2>1 DEF Closing, CountedOut
  <2>3. /\ OwnEnd(p) = WriteFD => Out(OwnEnd(p), k, "W") = 1
        /\ OwnEnd(p) = ReadFD  => Out(OwnEnd(p), k, "R") = 1
    BY <1>2 DEF Out, EndsOK
  <2> QED
    BY <1>1, <2>1, <2>2, <2>3 DEF WriteOpen, ReadOpen
<1>6. \A q \in Users : Alive(q)' <=> Alive(q)
  BY DEF Alive
<1>7. \A q \in Users : (Writer(q)' <=> Writer(q)) /\ (Reader(q)' <=> Reader(q))
  BY <1>1, <1>6 DEF Writer, Reader
<1>8. \A q \in Users : /\ Writer(p) /\ Writer(q) => q = p
                       /\ Reader(p) /\ Reader(q) => q = p
  BY <1>2 DEF HeldOK, Writer, Reader
<1>9. /\ Writer(p) => streams[Pipe].writers = 1 /\ streams'[Pipe].writers = 0
      /\ Reader(p) => /\ streams[Pipe].readers = 1 /\ streams'[Pipe].readers = 0
                      /\ streams'[Pipe].writers \in {0, 1}
  <2>1. Writer(p) => streams[Pipe].writers = 1
    BY <1>2, <1>5 DEF HeldOK
  <2>2. Reader(p) => streams[Pipe].readers = 1 /\ streams[Pipe].writers \in {0, 1}
    BY <1>2, <1>5 DEF HeldOK
  <2> QED
    BY <1>2, <1>4, <1>5, <2>1, <2>2
<1>10. HeldOK'
  <2>1. \A q \in Users : Alive(q)' => Writer(q)' \/ Reader(q)'
    BY <1>2, <1>6, <1>7 DEF HeldOK
  <2>2. \A q, u \in Users : Alive(q)' /\ Alive(u)' /\ fds'[q] = fds'[u] => q = u
    BY <1>2, <1>6 DEF HeldOK
  <2>3. ASSUME NEW q \in Users, Writer(q)
        PROVE  streams'[Pipe].writers = IF WriteOpen' THEN 1 ELSE 0
    BY <1>2, <1>4, <1>5, <1>9, <2>3 DEF HeldOK
  <2>4. ASSUME NEW q \in Users, Reader(q)
        PROVE  /\ streams'[Pipe].readers = IF ReadOpen' THEN 1 ELSE 0
               /\ streams'[Pipe].writers \in {0, 1}
    BY <1>2, <1>4, <1>5, <1>9, <2>4 DEF HeldOK
  <2> QED
    BY <1>4, <1>7, <2>1, <2>2, <2>3, <2>4 DEF HeldOK
<1>11. ProgramsOK'
  <2>1. ASSUME NEW q \in Users, Alive(q)
        PROVE  /\ Writer(q) /\ pc[q] \in {"run", "write"} => WriteOpen'
               /\ Reader(q) /\ pc[q] = "run" => ReadOpen'
               /\ Reader(q) => pc[q] # "write"
               /\ Reader(q) /\ Reads(prog[q]) /\ pc[q] \in {"close", "exit"} => ReadAll'
               /\ closing'[q] \in Seq({fds[q][1], fds[q][2]})
    <3>1. Writer(q) /\ pc[q] \in {"run", "write"} => WriteOpen'
      BY <1>2, <1>4, <1>8, <2>1 DEF ProgramsOK
    <3>2. Reader(q) /\ pc[q] = "run" => ReadOpen'
      BY <1>2, <1>4, <1>8, <2>1 DEF ProgramsOK
    <3>3. Reader(q) => pc[q] # "write"
      BY <1>2 DEF ProgramsOK
    <3>4. Reader(q) /\ Reads(prog[q]) /\ pc[q] \in {"close", "exit"} => ReadAll'
      <4> SUFFICES ASSUME Reader(q), Reads(prog[q]), pc[q] \in {"close", "exit"} PROVE ReadAll'
        OBVIOUS
      <4>1. ReadAll
        BY <1>2 DEF ProgramsOK
      <4>2. streams'[Pipe].writers = 0
        BY <1>2, <1>4, <1>9, <4>1 DEF ReadAll
      <4> QED
        BY <1>4, <4>1, <4>2 DEF ReadAll, SameBytes
    <3>5. closing'[q] \in Seq({fds[q][1], fds[q][2]})
      BY <1>2, <2>1 DEF ProgramsOK
    <3> QED
      BY <3>1, <3>2, <3>3, <3>4, <3>5
  <2>2. \A q \in Users : Writer(q) \/ Reader(q) => Alive(q)
    BY DEF Writer, Reader
  <2> QED
    BY <1>6, <1>7, <2>1, <2>2 DEF ProgramsOK
<1>12. ShellOK'
  <2>1. ShellOK
    BY DEF HoldersOK
  <2>2. CASE pc[SHELLPID] \notin Stages
    BY <2>2 DEF ShellOK, Stages
  <2>3. CASE pc[SHELLPID] \in {"left", "close0", "close1"}
    BY <2>1, <2>3 DEF ShellOK, Nobody
  <2>4. CASE pc[SHELLPID] = "right"
    <3>1. /\ \A q \in Users : Alive(q) => Writer(q) /\ q = shell.pid
          /\ ReadOpen /\ streams[Pipe].readers = 1
      BY <2>1, <2>4 DEF ShellOK
    <3>2. Writer(p) /\ OwnEnd(p) = WriteFD
      BY <1>2, <3>1
    <3>3. ReadOpen' /\ streams'[Pipe].readers = 1 /\ streams'[Pipe].writers \in {0, 1}
      BY <1>4, <1>9, <3>1, <3>2
    <3> QED
      BY <1>1, <1>2, <1>4, <1>6, <1>7, <2>4, <3>1, <3>3 DEF ShellOK
  <2> QED
    BY <2>2, <2>3, <2>4 DEF Stages
<1> QED
  BY <1>1, <1>2, <1>4, <1>10, <1>11, <1>12 DEF HoldersOK

-----------------------------------------------------------------------------
(***************************************************************************)
(* The steps of the programs                                               *)
(***************************************************************************)

\* The process on the CPU holds an end of the pipe of the pipeline.
LEMMA OnCPU ==
    ASSUME PipeInv, NEW p \in Users, cpu = p, state[p] = "RUNNING"
    PROVE  /\ Alive(p) /\ p \in PIDs /\ p # SHELLPID /\ Opened
           /\ EndsOK /\ HeldOK /\ ProgramsOK /\ Pipe \in Streams
           /\ Kernel \in KernelType /\ Kernel.fds = fileDescriptors /\ Kernel.streams = streams
           /\ Kernel.sems = sems /\ Kernel.state = state
           /\ \/ /\ Writer(p) /\ ~Reader(p) /\ OwnEnd(p) = WriteFD
                 /\ fds[p][1] \notin FDs /\ fds[p][2] = WriteFD
              \/ /\ Reader(p) /\ ~Writer(p) /\ OwnEnd(p) = ReadFD
                 /\ fds[p][1] = ReadFD /\ fds[p][2] \notin FDs
<1>1. Alive(p) /\ p \in PIDs /\ p # SHELLPID /\ HoldersOK
  BY DEF Alive, Users, PIDs, SHELLPID, PipeInv
<1>2. Kernel \in KernelType
  BY DEF PipeInv, PipeTypeOK
<1>3. EndsOK => Pipe \in Streams
  BY DEF EndsOK
<1> QED
  BY <1>1, <1>2, <1>3, OwnEndIs, KernelIs

\* A process that spins for ever with interrupts masked changes nothing.
LEMMA SpinStep ==
    ASSUME PipeInv, NEW p \in PIDs, Spin(p)
    PROVE  PipeInv'
<1>1. /\ Kernel' = Kernel /\ DataOK(streams', sems') /\ cpu' = cpu
      /\ pc' = [pc EXCEPT ![p] = "spin"]
  BY DEF Spin, Goto, Kernel, vars, pipeVars, PipeInv
<1>2. PipeTypeOK'
  <2>1. /\ inWait' = inWait /\ prog' = prog /\ fds' = fds /\ closing' = closing /\ left' = left
        /\ foreground' = foreground /\ waitPid' = waitPid /\ shell' = shell
    BY DEF Spin, vars
  <2>2. PipeTypeOK
    BY DEF PipeInv
  <2>3. pc' \in [PIDs -> Points]
    <3>1. pc \in [PIDs -> Points]
      BY <2>2 DEF PipeTypeOK
    <3>2. "spin" \in Points
      BY DEF Points
    <3> QED
      BY <1>1, <3>1, <3>2
  <2> QED
    BY <1>1, <2>1, <2>2, <2>3 DEF PipeTypeOK
<1>3. /\ fileDescriptors' = fileDescriptors /\ shell' = shell /\ fds' = fds /\ prog' = prog
      /\ state' = state /\ streams' = streams /\ closing' = closing
  BY DEF Spin, vars, pipeVars
<1>4. \A t \in Streams : SameUse(streams[t], streams'[t])
  BY <1>3 DEF SameUse
<1>5. pc \in [PIDs -> Points] /\ SHELLPID \in PIDs /\ Users \subseteq PIDs
  BY PipelinesAssumption DEF PipeInv, PipeTypeOK, SHELLPID, PIDs, Users
<1>6. pc'[SHELLPID] = pc[SHELLPID] \/ pc'[SHELLPID] \notin Stages
  BY <1>1, <1>5 DEF Stages
<1>7. \A q \in Users : q # p => pc'[q] = pc[q] /\ closing'[q] = closing[q]
  BY <1>1, <1>3, <1>5
<1>8. ReadAll => ReadAll'
  BY <1>3 DEF ReadAll, Pipe, ReadFD
<1>9. p \in Users /\ Alive(p) => /\ pc'[p] = "spin"
                                 /\ closing'[p] \in Seq({fds[p][1], fds[p][2]})
  <2>1. HoldersOK
    BY DEF PipeInv
  <2> QED
    BY <1>1, <1>3, <1>5, <2>1, OwnEndIs DEF ProgramsOK
<1>10. HoldersOK
  BY DEF PipeInv
<1>11. HoldersOK'
  BY <1>3, <1>4, <1>6, <1>7, <1>8, <1>9, <1>10, HoldersStep
<1> QED
  BY <1>1, <1>2, <1>11 DEF PipeInv

\* What the program on the CPU does to the holders when no end is closed
LEMMA OwnStep ==
    ASSUME PipeInv, NEW p \in Users, cpu = p, state[p] = "RUNNING",
           fileDescriptors' = fileDescriptors, shell' = shell, fds' = fds, prog' = prog,
           SameLives(state, state'),
           \A t \in Streams : SameUse(streams[t], streams'[t]),
           \A q \in PIDs : q # p => pc'[q] = pc[q] /\ closing'[q] = closing[q],
           Writer(p) /\ ReadAll => ReadAll',
           closing'[p] \in Seq({fds[p][1], fds[p][2]}),
           pc'[p] \in {"run", "write"} => pc[p] \in {"run", "write"},
           Reader(p) => pc'[p] # "write" /\ (pc'[p] = "run" => pc[p] = "run"),
           Reader(p) /\ Reads(prog[p]) /\ pc'[p] \in {"close", "exit"} => ReadAll'
    PROVE  HoldersOK'
<1>1. HoldersOK /\ Users \subseteq PIDs /\ SHELLPID \in PIDs /\ p # SHELLPID
  BY PipelinesAssumption, OnCPU DEF PipeInv, Users, PIDs, SHELLPID
<1>2. \A q \in Users : Reader(q) /\ Reader(p) => q = p
  BY OnCPU DEF HeldOK, Reader
<1>3. \A q \in Users : Reader(q) /\ q # p /\ ReadAll => ReadAll'
  BY <1>2, OnCPU
<1>4. \A q \in Users : state'[q] # "EXITED" <=> state[q] # "EXITED"
  BY <1>1 DEF SameLives
<1>5. pc'[SHELLPID] = pc[SHELLPID] /\ \A q \in Users : q # p => pc'[q] = pc[q] /\ closing'[q] = closing[q]
  BY <1>1
<1> QED
  BY <1>1, <1>3, <1>4, <1>5, HoldersStep

\* What the steps of the programs leave of the types
LEMMA ProgramTypes ==
    ASSUME PipeTypeOK, Kernel' \in KernelType, cpu' \in PIDs,
           inWait' \in [PIDs -> SemIds \cup {NoSem}], pc' \in [PIDs -> Points],
           closing' \in [PIDs -> Seq(Int)], left' \in [PIDs -> Int],
           waitPid' \in [PIDs -> PIDs \cup {NULL}],
           prog' = prog, fds' = fds, foreground' = foreground, shell' = shell
    PROVE  PipeTypeOK'
  BY DEF PipeTypeOK

\* A program closes its own two descriptors.
LEMMA ClosesOwn ==
    ASSUME PipeInv, NEW p \in Users, cpu = p, state[p] = "RUNNING"
    PROVE  /\ Closes(prog[p], fds[p]) \in Seq({fds[p][1], fds[p][2]})
           /\ {fds[p][1], fds[p][2]} \subseteq Int
           /\ Seq({fds[p][1], fds[p][2]}) \subseteq Seq(Int)
<1>1. Closes(prog[p], fds[p]) \in {<<fds[p][2]>>, <<fds[p][1], fds[p][2]>>, << >>}
  BY DEF Closes
<1> DEFINE a == fds[p][1]
           b == fds[p][2]
<1>2. a \in Int /\ b \in Int
  <2>1. FDs \subseteq Int /\ STDIN \in Int /\ STDOUT \in Int
    BY DEF FDs, STDIN, STDOUT
  <2>2. ReadFD \in FDs /\ WriteFD \in FDs
    BY OnCPU DEF EndsOK
  <2>3. <<STDIN, WriteFD>>[1] = STDIN /\ <<STDIN, WriteFD>>[2] = WriteFD
        /\ <<ReadFD, STDOUT>>[1] = ReadFD /\ <<ReadFD, STDOUT>>[2] = STDOUT
    OBVIOUS
  <2>4. fds[p] = <<STDIN, WriteFD>> \/ fds[p] = <<ReadFD, STDOUT>>
    BY OnCPU DEF Writer, Reader
  <2> QED
    BY <2>1, <2>2, <2>3, <2>4
<1> HIDE DEF a, b
<1>3. <<b>> \in Seq({a, b}) /\ <<a, b>> \in Seq({a, b}) /\ << >> \in Seq({a, b})
  OBVIOUS
<1>4. Seq({a, b}) \subseteq Seq(Int)
  BY <1>2
<1> QED
  BY <1>1, <1>2, <1>3, <1>4 DEF a, b

\* The pipe that a program uses, before it is done, has its end open.
LEMMA PipeInUse ==
    ASSUME PipeInv, PipeHasSemaphores, NEW p \in Users, cpu = p, state[p] = "RUNNING"
    PROVE  /\ Reader(p) /\ pc[p] = "run" =>
                InUse(Kernel, Pipe) /\ streams[Pipe].writers \in {0, 1}
           /\ Writer(p) /\ pc[p] \in {"run", "write"} =>
                InUse(Kernel, Pipe) /\ streams[Pipe].writers = 1
<1>1. Alive(p) /\ EndsOK /\ HeldOK /\ ProgramsOK /\ Pipe \in Streams /\ Kernel.streams = streams
  BY OnCPU
<1>2. /\ Writer(p) => fds[p][2] = WriteFD /\ fileDescriptors[fds[p][2]].resource = Pipe
      /\ Reader(p) => fds[p][1] = ReadFD /\ fileDescriptors[fds[p][1]].resource = Pipe
      /\ ReadFD \in FDs /\ WriteFD \in FDs
  BY <1>1, OnCPU DEF EndsOK, Pipe
<1>3. Writer(p) \/ Reader(p) => streams[Pipe].readSem # NoSem /\ streams[Pipe].writeSem # NoSem
  <2>1. 1 \in 1..2 /\ 2 \in 1..2
    OBVIOUS
  <2> QED
    BY <1>1, <1>2, <2>1 DEF PipeHasSemaphores
<1>4. /\ Reader(p) /\ pc[p] = "run" =>
            streams[Pipe].readers = 1 /\ streams[Pipe].writers \in {0, 1}
      /\ Writer(p) /\ pc[p] \in {"run", "write"} => streams[Pipe].writers = 1
  BY <1>1 DEF ProgramsOK, HeldOK
<1> QED
  BY <1>1, <1>3, <1>4 DEF InUse, HasEnd

\* read(fds[0], &c, 1)
LEMMA ReadByteStep ==
    ASSUME PipeInv, PipeHasSemaphores, NEW p \in Users, ReadByte(p)
    PROVE  PipeInv'
<1> DEFINE r     == fileDescriptors[fds[p][1]].resource
           s     == streams[r].readSem
           again == inWait[p] # NoSem
           k     == IF again THEN Kernel ELSE BeforeRead(Kernel, r)
           l     == Read(Decremented(k, s, again), r)
<1>1. cpu = p /\ state[p] = "RUNNING" /\ pc[p] = "run" /\ Reads(prog[p]) /\ fds[p][1] \in FDs
  BY DEF ReadByte, On
<1>2. /\ Reader(p) /\ ~Writer(p) /\ fds[p][1] = ReadFD /\ r = Pipe /\ r \in Streams
      /\ p \in PIDs /\ p # SHELLPID /\ ProgramsOK /\ Kernel \in KernelType /\ Kernel.state = state
      /\ Kernel.streams = streams /\ Kernel.sems = sems /\ Kernel.fds = fileDescriptors
  BY <1>1, OnCPU DEF Pipe
<1>3. InUse(Kernel, r) /\ streams[r].writers \in {0, 1}
  BY <1>1, <1>2, PipeInUse
<1>4. PipeTypeOK /\ DataOK(streams, sems)
  BY DEF PipeInv
<1> HIDE DEF r
<1>5. /\ k \in KernelType /\ DataOK(k.streams, k.sems) /\ InUse(k, r)
      /\ k.fds = fileDescriptors /\ k.streams = streams /\ SameLives(state, k.state)
  <2>1. CASE again
    BY <1>2, <1>3, <1>4, <2>1 DEF SameLives
  <2>2. CASE ~again
    BY <1>2, <1>3, <1>4, <2>2, BeforeReadEffect
  <2> QED
    BY <2>1, <2>2
<1>6. CASE Spin(p)
  BY <1>2, <1>6, SpinStep
<1> HIDE DEF k
<1>7. /\ s \in SemIds /\ s = k.streams[r].readSem /\ k.sems[s].used /\ s # NoSem
  BY <1>2, <1>5, InUseFields DEF InUse
<1>8. CASE ~Passes(k, s, again) /\ BlockOn(k, s) /\ UNCHANGED <<handle, progVars, shell>>
  <2>1. k.state[cpu] # "EXITED" /\ cpu \in PIDs
    BY <1>1, <1>2, <1>5 DEF SameLives
  <2>2. /\ Kernel' \in KernelType /\ cpu' \in PIDs /\ inWait' = [inWait EXCEPT ![cpu] = s]
        /\ fileDescriptors' = k.fds /\ streams' = k.streams /\ DataOK(streams', sems')
        /\ SameLives(k.state, state')
    <3> HIDE DEF s
    <3> QED
      BY <1>5, <1>7, <1>8, <2>1, BlockOnEffect
  <2>3. /\ pc' = pc /\ closing' = closing /\ left' = left /\ waitPid' = waitPid /\ prog' = prog
        /\ fds' = fds /\ foreground' = foreground /\ shell' = shell
    BY <1>8 DEF progVars
  <2>4. SameLives(state, state') /\ fileDescriptors' = fileDescriptors /\ streams' = streams
    BY <1>5, <2>2 DEF SameLives
  <2>5. \A t \in Streams : SameUse(streams[t], streams'[t])
    BY <2>4 DEF SameUse
  <2>6. inWait' \in [PIDs -> SemIds \cup {NoSem}]
    <3>1. inWait \in [PIDs -> SemIds \cup {NoSem}]
      BY <1>4 DEF PipeTypeOK
    <3> HIDE DEF s
    <3> QED
      BY <1>7, <2>2, <3>1
  <2>7. PipeTypeOK'
    <3>1. pc \in [PIDs -> Points] /\ closing \in [PIDs -> Seq(Int)] /\ left \in [PIDs -> Int]
          /\ waitPid \in [PIDs -> PIDs \cup {NULL}]
      BY <1>4 DEF PipeTypeOK
    <3> QED
      BY <1>4, <2>2, <2>3, <2>6, <3>1, ProgramTypes
  <2>8. ReadAll => ReadAll'
    BY <2>3, <2>4 DEF ReadAll, Pipe, ReadFD
  <2>9. closing[p] \in Seq({fds[p][1], fds[p][2]})
    BY <1>1, <1>2, OnCPU DEF ProgramsOK
  <2>10. HoldersOK'
    BY <1>1, <2>3, <2>4, <2>5, <2>8, <2>9, OwnStep
  <2> QED
    BY <2>2, <2>7, <2>10 DEF PipeInv
<1>9. CASE /\ Passes(k, s, again) /\ Install(l)
           /\ inWait' = [inWait EXCEPT ![p] = NoSem]
           /\ IF HasByte(k.streams[r]) THEN UNCHANGED <<pc, closing>>
              ELSE /\ Goto(p, "close")
                   /\ closing' = [closing EXCEPT ![p] = Closes(prog[p], fds[p])]
           /\ UNCHANGED <<handle, prog, fds, left, foreground, waitPid, shell>>
  <2>1. k.sems[s].value # 0
    <3> HIDE DEF s, again
    <3> QED
      BY <1>7, <1>9 DEF Passes
  <2>2. /\ Quiet(k, l) /\ DataOK(l.streams, l.sems)
        /\ HasByte(k.streams[r]) \/ /\ Len(l.streams[r].got) = l.streams[r].sent
                                    /\ l.streams[r].writers = 0
    <3>1. k.streams[r].writers \in {0, 1} /\ k.sems[k.streams[r].readSem].value # 0
      BY <1>3, <1>5, <1>7, <2>1
    <3>2. l = Read(Decremented(k, k.streams[r].readSem, again), r)
      BY <1>7
    <3> HIDE DEF l, again, s
    <3> QED
      BY <1>2, <1>5, <3>1, <3>2, ReadEffect
  <2> HIDE DEF l, again, s
  <2>3. l \in KernelType /\ l.fds = k.fds /\ SameLives(k.state, l.state)
        /\ \A t \in Streams : SameUse(k.streams[t], l.streams[t])
    BY <2>2 DEF Quiet
  <2>4. /\ Kernel' \in KernelType /\ cpu' \in PIDs
        /\ fileDescriptors' = l.fds /\ streams' = l.streams /\ sems' = l.sems
        /\ SameLives(l.state, state')
    <3>1. cpu \in PIDs
      BY <1>1, <1>2
    <3> QED
      BY <1>9, <2>3, <3>1, Installed
  <2>5. SameLives(state, state') /\ fileDescriptors' = fileDescriptors
        /\ \A t \in Streams : SameUse(streams[t], streams'[t])
    BY <1>5, <2>3, <2>4 DEF SameLives
  <2>6. DataOK(streams', sems')
    BY <2>2, <2>4
  <2>7. /\ left' = left /\ waitPid' = waitPid /\ prog' = prog
        /\ fds' = fds /\ foreground' = foreground /\ shell' = shell
    BY <1>9
  <2>8. /\ pc \in [PIDs -> Points] /\ closing \in [PIDs -> Seq(Int)] /\ left \in [PIDs -> Int]
        /\ waitPid \in [PIDs -> PIDs \cup {NULL}] /\ inWait \in [PIDs -> SemIds \cup {NoSem}]
    BY <1>4 DEF PipeTypeOK
  <2>9. closing[p] \in Seq({fds[p][1], fds[p][2]})
        /\ Closes(prog[p], fds[p]) \in Seq({fds[p][1], fds[p][2]})
        /\ Seq({fds[p][1], fds[p][2]}) \subseteq Seq(Int)
    BY <1>1, <1>2, OnCPU, ClosesOwn DEF ProgramsOK
  <2>10. /\ pc' = IF HasByte(k.streams[r]) THEN pc ELSE [pc EXCEPT ![p] = "close"]
         /\ closing' = IF HasByte(k.streams[r]) THEN closing
                       ELSE [closing EXCEPT ![p] = Closes(prog[p], fds[p])]
    BY <1>9 DEF Goto
  <2>11. /\ pc' \in [PIDs -> Points] /\ closing' \in [PIDs -> Seq(Int)]
         /\ inWait' \in [PIDs -> SemIds \cup {NoSem}]
         /\ \A q \in PIDs : q # p => pc'[q] = pc[q] /\ closing'[q] = closing[q]
         /\ closing'[p] \in Seq({fds[p][1], fds[p][2]})
         /\ pc'[p] = IF HasByte(k.streams[r]) THEN "run" ELSE "close"
    BY <1>1, <1>2, <1>9, <2>8, <2>9, <2>10 DEF Points
  <2>12. PipeTypeOK'
    BY <1>4, <2>4, <2>7, <2>8, <2>11, ProgramTypes
  <2>13. Pipe' = Pipe
    BY <2>5, <2>7 DEF Pipe, ReadFD
  <2>14. ~HasByte(k.streams[r]) => ReadAll'
    BY <1>2, <2>2, <2>4, <2>13 DEF ReadAll
  <2>15. HoldersOK'
    BY <1>1, <1>2, <2>5, <2>7, <2>11, <2>14, OwnStep
  <2> QED
    BY <2>6, <2>12, <2>15 DEF PipeInv
<1> QED
  BY <1>6, <1>8, <1>9 DEF ReadByte, k, r

\* The types of what the programs keep
LEMMA ProgramFields ==
    ASSUME PipeTypeOK
    PROVE  /\ pc \in [PIDs -> Points] /\ closing \in [PIDs -> Seq(Int)] /\ left \in [PIDs -> Int]
           /\ waitPid \in [PIDs -> PIDs \cup {NULL}] /\ inWait \in [PIDs -> SemIds \cup {NoSem}]
           /\ Kernel \in KernelType /\ cpu \in PIDs
  BY DEF PipeTypeOK

\* The call of write, which finds no end of the file to take back
LEMMA WriteCallStep ==
    ASSUME PipeInv, NEW p \in Users, WriteCall(p)
    PROVE  PipeInv'
<1> DEFINE r == fileDescriptors[fds[p][2]].resource
<1>1. cpu = p /\ state[p] = "RUNNING" /\ pc[p] = "run" /\ fds[p][2] \in FDs
  BY DEF WriteCall, On
<1>2. /\ Writer(p) /\ ~Reader(p) /\ fds[p][2] = WriteFD /\ r = Pipe /\ r \in Streams
      /\ p \in PIDs /\ ProgramsOK /\ HeldOK /\ Kernel \in KernelType /\ Kernel.state = state
      /\ Kernel.streams = streams /\ Kernel.sems = sems /\ Kernel.fds = fileDescriptors
  BY <1>1, OnCPU DEF EndsOK
<1>3. streams[r].writers = 1
  BY <1>1, <1>2 DEF ProgramsOK, HeldOK
<1>4. PipeTypeOK /\ DataOK(streams, sems)
  BY DEF PipeInv
<1>5. /\ Install(BeforeWrite(Kernel, r)) /\ pc' = [pc EXCEPT ![p] = "write"]
      /\ \E n \in 1..MaxCall : left' = [left EXCEPT ![p] = n]
      /\ UNCHANGED <<inWait, handle, prog, fds, closing, foreground, waitPid, shell>>
  BY DEF WriteCall, Goto
<1> HIDE DEF r
<1>6. BeforeWrite(Kernel, r) = Kernel
  BY <1>2, <1>3, <1>4, BeforeWriteEffect
<1>7. /\ Kernel' \in KernelType /\ cpu' \in PIDs /\ fileDescriptors' = fileDescriptors
      /\ streams' = streams /\ sems' = sems /\ SameLives(state, state')
  BY <1>2, <1>4, <1>5, <1>6, Installed, ProgramFields
<1>8. /\ pc' \in [PIDs -> Points] /\ closing' \in [PIDs -> Seq(Int)] /\ left' \in [PIDs -> Int]
      /\ pc'[p] = "write" /\ \A q \in PIDs : q # p => pc'[q] = pc[q] /\ closing'[q] = closing[q]
  BY <1>2, <1>4, <1>5, PipelinesAssumption, ProgramFields DEF Points
<1>9. PipeTypeOK'
  BY <1>4, <1>5, <1>7, <1>8, ProgramTypes, ProgramFields
<1>10. ReadAll => ReadAll'
  BY <1>5, <1>7 DEF ReadAll, Pipe, ReadFD
<1>11. closing'[p] \in Seq({fds[p][1], fds[p][2]})
  BY <1>1, <1>2, <1>5, OnCPU DEF ProgramsOK
<1>12. \A t \in Streams : SameUse(streams[t], streams'[t])
  BY <1>7 DEF SameUse
<1>13. HoldersOK'
  BY <1>1, <1>2, <1>5, <1>7, <1>8, <1>10, <1>11, <1>12, OwnStep
<1> QED
  BY <1>4, <1>7, <1>9, <1>13 DEF PipeInv

\* A byte of a call of write
LEMMA WriteByteStep ==
    ASSUME PipeInv, PipeHasSemaphores, NEW p \in Users, WriteByte(p)
    PROVE  PipeInv'
<1> DEFINE r     == fileDescriptors[fds[p][2]].resource
           s     == streams[r].writeSem
           again == inWait[p] # NoSem
           k     == Kernel
           l     == Write(Decremented(k, s, again), r)
<1>1. cpu = p /\ state[p] = "RUNNING" /\ pc[p] = "write"
  BY DEF WriteByte, On
<1>2. /\ Writer(p) /\ ~Reader(p) /\ fds[p][2] = WriteFD /\ r = Pipe /\ r \in Streams
      /\ p \in PIDs /\ ProgramsOK /\ Kernel \in KernelType /\ Kernel.state = state
      /\ Kernel.streams = streams /\ Kernel.sems = sems /\ Kernel.fds = fileDescriptors
  BY <1>1, OnCPU DEF EndsOK, ProgramsOK
<1>3. InUse(Kernel, r) /\ streams[r].writers = 1
  BY <1>1, <1>2, PipeInUse
<1>4. PipeTypeOK /\ DataOK(streams, sems)
  BY DEF PipeInv
<1> HIDE DEF r
<1>5. /\ s \in SemIds /\ s = k.streams[r].writeSem /\ k.sems[s].used /\ s # NoSem
  BY <1>2, <1>3, <1>4, InUseFields DEF InUse
<1>6. CASE Spin(p)
  BY <1>2, <1>6, SpinStep
<1>7. CASE ~Passes(k, s, again) /\ BlockOn(k, s) /\ UNCHANGED <<handle, progVars, shell>>
  <2>1. k.state[cpu] # "EXITED" /\ cpu \in PIDs
    BY <1>1, <1>2
  <2>2. /\ Kernel' \in KernelType /\ cpu' \in PIDs /\ inWait' = [inWait EXCEPT ![cpu] = s]
        /\ fileDescriptors' = k.fds /\ streams' = k.streams /\ DataOK(streams', sems')
        /\ SameLives(k.state, state')
    <3> HIDE DEF s
    <3> QED
      BY <1>2, <1>4, <1>5, <1>7, <2>1, BlockOnEffect
  <2>3. /\ pc' = pc /\ closing' = closing /\ left' = left /\ waitPid' = waitPid /\ prog' = prog
        /\ fds' = fds /\ foreground' = foreground /\ shell' = shell
    BY <1>7 DEF progVars
  <2>4. SameLives(state, state') /\ fileDescriptors' = fileDescriptors /\ streams' = streams
    BY <1>2, <2>2
  <2>5. \A t \in Streams : SameUse(streams[t], streams'[t])
    BY <2>4 DEF SameUse
  <2>6. inWait' \in [PIDs -> SemIds \cup {NoSem}]
    <3>1. inWait \in [PIDs -> SemIds \cup {NoSem}]
      BY <1>4 DEF PipeTypeOK
    <3> HIDE DEF s
    <3> QED
      BY <1>5, <2>2, <3>1
  <2>7. PipeTypeOK'
    BY <1>4, <2>2, <2>3, <2>6, ProgramTypes, ProgramFields
  <2>8. ReadAll => ReadAll'
    BY <2>3, <2>4 DEF ReadAll, Pipe, ReadFD
  <2>9. closing[p] \in Seq({fds[p][1], fds[p][2]})
    BY <1>1, <1>2, OnCPU DEF ProgramsOK
  <2>10. HoldersOK'
    BY <1>1, <1>2, <2>3, <2>4, <2>5, <2>8, <2>9, OwnStep
  <2> QED
    BY <2>2, <2>7, <2>10 DEF PipeInv
<1>8. CASE /\ Passes(k, s, again) /\ Install(l)
           /\ inWait' = [inWait EXCEPT ![p] = NoSem]
           /\ left' = [left EXCEPT ![p] = @ - 1]
           /\ Goto(p, IF left[p] = 1 THEN "run" ELSE "write")
           /\ UNCHANGED <<handle, prog, fds, closing, foreground, waitPid, shell>>
  <2>1. k.sems[s].value # 0
    <3> HIDE DEF s, again
    <3> QED
      BY <1>5, <1>8 DEF Passes
  <2>2. Quiet(k, l) /\ DataOK(l.streams, l.sems)
    <3>1. k.streams[r].writers = 1 /\ k.sems[k.streams[r].writeSem].value # 0
      BY <1>2, <1>3, <1>5, <2>1
    <3>2. l = Write(Decremented(k, k.streams[r].writeSem, again), r)
      BY <1>5
    <3>3. k \in KernelType /\ DataOK(k.streams, k.sems) /\ InUse(k, r) /\ r \in Streams
      BY <1>2, <1>3, <1>4
    <3> HIDE DEF l, again, s, k
    <3> QED
      BY <3>1, <3>2, <3>3, WriteEffect
  <2> HIDE DEF l, again, s
  <2>3. l \in KernelType /\ l.fds = k.fds /\ SameLives(k.state, l.state)
        /\ \A t \in Streams : SameUse(k.streams[t], l.streams[t])
    BY <2>2 DEF Quiet
  <2>4. /\ Kernel' \in KernelType /\ cpu' \in PIDs
        /\ fileDescriptors' = l.fds /\ streams' = l.streams /\ sems' = l.sems
        /\ SameLives(l.state, state')
    <3>1. cpu \in PIDs
      BY <1>1, <1>2
    <3> QED
      BY <1>8, <2>3, <3>1, Installed
  <2>5. SameLives(state, state') /\ fileDescriptors' = fileDescriptors
        /\ \A t \in Streams : SameUse(streams[t], streams'[t])
    BY <1>2, <2>3, <2>4 DEF SameLives
  <2>6. DataOK(streams', sems')
    BY <2>2, <2>4
  <2>7. /\ closing' = closing /\ waitPid' = waitPid /\ prog' = prog
        /\ fds' = fds /\ foreground' = foreground /\ shell' = shell
    BY <1>8
  <2>8. /\ pc \in [PIDs -> Points] /\ closing \in [PIDs -> Seq(Int)] /\ left \in [PIDs -> Int]
        /\ waitPid \in [PIDs -> PIDs \cup {NULL}] /\ inWait \in [PIDs -> SemIds \cup {NoSem}]
    BY <1>4, ProgramFields
  <2>9. closing'[p] \in Seq({fds[p][1], fds[p][2]})
    BY <1>1, <1>2, <2>7, OnCPU DEF ProgramsOK
  <2>10. pc' = [pc EXCEPT ![p] = IF left[p] = 1 THEN "run" ELSE "write"]
         /\ left' = [left EXCEPT ![p] = left[p] - 1]
    BY <1>8 DEF Goto
  <2>11. /\ pc' \in [PIDs -> Points] /\ inWait' \in [PIDs -> SemIds \cup {NoSem}]
         /\ left' \in [PIDs -> Int]
         /\ \A q \in PIDs : q # p => pc'[q] = pc[q] /\ closing'[q] = closing[q]
         /\ pc'[p] \in {"run", "write"}
    BY <1>2, <1>8, <2>7, <2>8, <2>10 DEF Points
  <2>12. PipeTypeOK'
    BY <1>4, <2>4, <2>7, <2>8, <2>11, ProgramTypes
  <2>13. ~ReadAll
    BY <1>2, <1>3 DEF ReadAll
  <2>14. HoldersOK'
    BY <1>1, <1>2, <2>5, <2>7, <2>9, <2>11, <2>13, OwnStep
  <2> QED
    BY <2>6, <2>12, <2>14 DEF PipeInv
<1> QED
  BY <1>6, <1>7, <1>8 DEF WriteByte, k, r

\* The end of a program's work, and its return
LEMMA FinishStep ==
    ASSUME PipeInv, NEW p \in Users, Finish(p) \/ Return(p)
    PROVE  PipeInv'
<1>1. cpu = p /\ state[p] = "RUNNING" /\ pc[p] \in {"run", "close"}
  BY DEF Finish, Return, On
<1>2. p \in PIDs /\ ProgramsOK /\ Alive(p) /\ PipeTypeOK /\ DataOK(streams, sems)
  BY <1>1, OnCPU DEF PipeInv
<1>3. /\ state' = state /\ cpu' = cpu /\ sems' = sems /\ inWait' = inWait
      /\ fileDescriptors' = fileDescriptors /\ streams' = streams /\ locked' = locked
      /\ prog' = prog /\ fds' = fds /\ left' = left /\ foreground' = foreground
      /\ waitPid' = waitPid /\ shell' = shell
  BY DEF Finish, Return, vars, pipeVars
<1>4. Kernel' \in KernelType /\ cpu' \in PIDs
  BY <1>2, <1>3, ProgramFields DEF Kernel
<1>5. ReadAll => ReadAll'
  BY <1>3 DEF ReadAll, Pipe, ReadFD
<1>6. /\ pc' \in [PIDs -> Points] /\ closing' \in [PIDs -> Seq(Int)]
      /\ \A q \in PIDs : q # p => pc'[q] = pc[q] /\ closing'[q] = closing[q]
      /\ pc'[p] \in {"close", "exit"} /\ closing'[p] \in Seq({fds[p][1], fds[p][2]})
      /\ Reader(p) /\ Reads(prog[p]) => ReadAll
  <2>1. CASE Finish(p)
    <3>1. pc' = [pc EXCEPT ![p] = "close"]
          /\ closing' = [closing EXCEPT ![p] = Closes(prog[p], fds[p])]
      BY <2>1 DEF Finish, Goto
    <3>2. Closes(prog[p], fds[p]) \in Seq({fds[p][1], fds[p][2]})
          /\ Seq({fds[p][1], fds[p][2]}) \subseteq Seq(Int)
      BY <1>1, ClosesOwn
    <3>3. ~(Reader(p) /\ Reads(prog[p]))
      BY <1>1, <2>1, OnCPU DEF Finish, EndsOK
    <3> QED
      BY <1>2, <3>1, <3>2, <3>3, ProgramFields DEF Points
  <2>2. CASE Return(p)
    <3>1. pc' = [pc EXCEPT ![p] = "exit"] /\ closing' = closing /\ pc[p] = "close"
      BY <2>2 DEF Return, Goto, On
    <3>2. closing[p] \in Seq({fds[p][1], fds[p][2]})
          /\ (Reader(p) /\ Reads(prog[p]) => ReadAll)
      BY <1>2, <3>1 DEF ProgramsOK
    <3> QED
      BY <1>2, <3>1, <3>2, ProgramFields DEF Points
  <2> QED
    BY <2>1, <2>2
<1>7. PipeTypeOK'
  BY <1>2, <1>3, <1>4, <1>6, ProgramTypes, ProgramFields
<1>8. SameLives(state, state') /\ \A t \in Streams : SameUse(streams[t], streams'[t])
  BY <1>3 DEF SameLives, SameUse
<1>9. HoldersOK'
  BY <1>1, <1>3, <1>5, <1>6, <1>8, OwnStep
<1> QED
  BY <1>2, <1>3, <1>7, <1>9 DEF PipeInv

\* A program closes one of its descriptors.
LEMMA CloseCallStep ==
    ASSUME PipeInv, NEW p \in Users, CloseCall(p)
    PROVE  PipeInv'
<1> DEFINE fd == Head(closing[p])
           l  == closeFD(Kernel, fd)
<1>1. cpu = p /\ state[p] = "RUNNING" /\ pc[p] = "close" /\ closing[p] # << >>
  BY DEF CloseCall, On
<1>2. /\ p \in PIDs /\ ProgramsOK /\ EndsOK /\ Alive(p) /\ PipeTypeOK /\ DataOK(streams, sems)
      /\ HoldersOK /\ Pipe \in Streams
      /\ Kernel \in KernelType /\ Kernel.fds = fileDescriptors /\ Kernel.streams = streams
      /\ Kernel.sems = sems /\ Kernel.state = state
  BY <1>1, OnCPU DEF PipeInv
<1>3. CASE Spin(p)
  BY <1>2, <1>3, SpinStep
<1>4. CASE /\ Install(l) /\ closing' = [closing EXCEPT ![p] = Tail(@)]
           /\ UNCHANGED <<inWait, handle, pc, prog, fds, left, foreground, waitPid, shell>>
  <2>1. fd \in {fds[p][1], fds[p][2]} /\ Tail(closing[p]) \in Seq({fds[p][1], fds[p][2]})
        /\ Seq({fds[p][1], fds[p][2]}) \subseteq Seq(Int)
    <3> DEFINE T == {fds[p][1], fds[p][2]}
    <3>1. closing[p] \in Seq(T)
      BY <1>2 DEF ProgramsOK
    <3>2. Seq(T) \subseteq Seq(Int)
      BY <1>1, ClosesOwn
    <3> HIDE DEF T
    <3>3. Head(closing[p]) \in T /\ Tail(closing[p]) \in Seq(T)
      BY <1>1, <3>1
    <3> QED
      BY <3>2, <3>3 DEF T
  <2>2. /\ closing' \in [PIDs -> Seq(Int)] /\ closing'[p] \in Seq({fds[p][1], fds[p][2]})
        /\ \A q \in PIDs : q # p => closing'[q] = closing[q]
    BY <1>2, <1>4, <2>1, ProgramFields
  <2>3. /\ pc' = pc /\ inWait' = inWait /\ prog' = prog /\ fds' = fds /\ left' = left
        /\ foreground' = foreground /\ waitPid' = waitPid /\ shell' = shell
    BY <1>4
  <2> HIDE DEF fd
  <2>4. CASE fd \notin FDs \/ ~fileDescriptors[fd].isOpen
    <3>1. l = Kernel
      BY <1>2, <2>4, CloseNothing
    <3>2. /\ Kernel' \in KernelType /\ cpu' \in PIDs /\ fileDescriptors' = fileDescriptors
          /\ streams' = streams /\ sems' = sems /\ SameLives(state, state')
      BY <1>2, <1>4, <3>1, Installed, ProgramFields
    <3>3. PipeTypeOK'
      BY <1>2, <2>2, <2>3, <3>2, ProgramTypes, ProgramFields
    <3>4. ReadAll => ReadAll'
      BY <2>3, <3>2 DEF ReadAll, Pipe, ReadFD
    <3>5. \A t \in Streams : SameUse(streams[t], streams'[t])
      BY <3>2 DEF SameUse
    <3>6. Reader(p) /\ Reads(prog[p]) => ReadAll'
      BY <1>1, <1>2, <3>4 DEF ProgramsOK
    <3>7. HoldersOK'
      BY <1>1, <2>2, <2>3, <3>2, <3>4, <3>5, <3>6, OwnStep
    <3> QED
      BY <1>2, <3>2, <3>3, <3>7 DEF PipeInv
  <2>5. CASE fd \in FDs /\ fileDescriptors[fd].isOpen
    <3>1. fd = OwnEnd(p) /\ fd \in {ReadFD, WriteFD}
      BY <1>1, <2>1, <2>5, OnCPU
    <3>2. fileDescriptors[fd].resource = Pipe /\ streams[Pipe].status # "fresh"
      BY <1>2, <3>1 DEF EndsOK, Pipe
    <3>3. Closable(Kernel, fd) /\ Holdable(Kernel, fd)
      BY <1>2, <2>5, <3>2 DEF Closable, Holdable
    <3>4. Closing(Kernel, l, fd) /\ ~l.fds[fd].isOpen
      BY <1>2, <3>3, CloseFDEffect
    <3>5. PartlyClosed(Kernel, l, fd)
      BY <1>2, <3>3, CloseHeld
    <3> HIDE DEF l
    <3>6. l \in KernelType /\ DataOK(l.streams, l.sems) /\ SameLives(state, l.state)
      BY <1>2, <3>4 DEF Closing
    <3>7. /\ Kernel' \in KernelType /\ cpu' \in PIDs /\ fileDescriptors' = l.fds
          /\ streams' = l.streams /\ sems' = l.sems /\ SameLives(l.state, state')
      BY <1>2, <1>4, <3>6, Installed, ProgramFields
    <3>8. \A q \in Users : state'[q] # "EXITED" <=> state[q] # "EXITED"
      BY <3>6, <3>7 DEF SameLives, Users, PIDs
    <3>9. PipeTypeOK'
      BY <1>2, <2>2, <2>3, <3>7, ProgramTypes, ProgramFields
    <3>10. \A q \in Users : q # p => closing'[q] = closing[q]
      BY <2>2 DEF Users, PIDs
    <3>11. HoldersOK'
      BY <1>1, <1>2, <2>2, <2>3, <3>1, <3>3, <3>4, <3>5, <3>7, <3>8, <3>10, OwnCloseStep
    <3> QED
      BY <3>6, <3>7, <3>9, <3>11 DEF PipeInv
  <2> QED
    BY <2>4, <2>5
<1> QED
  BY <1>3, <1>4 DEF CloseCall

\* The exit of a program, wherever it is cut off
LEMMA ExitStep ==
    ASSUME PipeInv, NEW p \in Users, Exit(p)
    PROVE  PipeInv'
<1> DEFINE k0   == Ended(Kernel, p)
           k1   == closeFD(k0, fds[p][1])
           k2   == closeFD(k1, fds[p][2])
           last == [k2 EXCEPT !.state = Woken(@, {waitPid[p]})]
<1>1. cpu = p /\ state[p] = "RUNNING" /\ pc[p] = "exit"
  BY DEF Exit, On
<1>2. /\ p \in PIDs /\ p # SHELLPID /\ Alive(p) /\ PipeTypeOK /\ DataOK(streams, sems)
      /\ HoldersOK /\ Kernel \in KernelType
  BY <1>1, OnCPU DEF PipeInv
<1>3. PICK l : /\ l \in CutOff(k0, fds[p][1]) \cup CutOff(k1, fds[p][2]) \cup {last}
               /\ InstallAndSwitch(l)
               /\ waitPid' = IF l = last THEN [waitPid EXCEPT ![p] = NULL] ELSE waitPid
  <2> HIDE DEF k0, k1, k2, last
  <2>1. \E l \in IF Spins(k0, fds[p][1]) THEN CutOff(k0, fds[p][1])
                 ELSE CutOff(k0, fds[p][1]) \cup CutOff(k1, fds[p][2])
                      \cup (IF Spins(k1, fds[p][2]) THEN {} ELSE {last}) :
           /\ InstallAndSwitch(l)
           /\ waitPid' = IF l = last THEN [waitPid EXCEPT ![p] = NULL] ELSE waitPid
    BY Zenon DEF Exit, k0, k1, k2, last
  <2> QED
    BY <2>1
<1>4. PartlyClosed(k0, l, OwnEnd(p))
  <2>1. /\ \A m \in CutOff(k0, fds[p][1]) \cup CutOff(k1, fds[p][2]) : PartlyClosed(k0, m, OwnEnd(p))
        /\ PartlyClosed(k0, last, OwnEnd(p))
    BY <1>2, EndPoints, Zenon
  <2> HIDE DEF k0, k1, last
  <2> QED
    BY <1>3, <2>1
<1>5. /\ k0 \in KernelType /\ k0.fds = fileDescriptors /\ k0.streams = streams
      /\ \A q \in PIDs : k0.state[q] = "EXITED" <=> state[q] = "EXITED" \/ q = p
  BY <1>2, EndedEffect
<1> HIDE DEF k0, k1, k2, last
<1>6. l \in KernelType /\ DataOK(l.streams, l.sems) /\ SameLives(k0.state, l.state)
  BY <1>4 DEF PartlyClosed
<1>7. /\ Kernel' \in KernelType /\ cpu' \in PIDs /\ fileDescriptors' = l.fds
      /\ streams' = l.streams /\ sems' = l.sems /\ SameLives(l.state, state')
  BY <1>2, <1>3, <1>6, Installed, ProgramFields
<1>8. \A q \in Users : state'[q] # "EXITED" <=> state[q] # "EXITED" /\ q # p
  BY <1>5, <1>6, <1>7 DEF SameLives, Users, PIDs
<1>9. /\ pc' = [pc EXCEPT ![p] = "gone"] /\ inWait' = inWait /\ prog' = prog /\ fds' = fds
      /\ left' = left /\ closing' = closing /\ foreground' = foreground /\ shell' = shell
  BY DEF Exit, Goto
<1>10. /\ pc' \in [PIDs -> Points] /\ waitPid' \in [PIDs -> PIDs \cup {NULL}]
       /\ pc'[SHELLPID] = pc[SHELLPID]
       /\ \A q \in Users : q # p => pc'[q] = pc[q]
  <2>1. Users \subseteq PIDs /\ SHELLPID \in PIDs
    BY PipelinesAssumption DEF Users, PIDs, SHELLPID
  <2> QED
    BY <1>2, <1>3, <1>9, <2>1, ProgramFields DEF Points
<1>11. PipeTypeOK'
  BY <1>2, <1>7, <1>9, <1>10, ProgramTypes, ProgramFields
<1>12. HoldersOK'
  BY <1>2, <1>4, <1>5, <1>7, <1>8, <1>9, <1>10, DeathStep
<1> QED
  BY <1>6, <1>7, <1>11, <1>12 DEF PipeInv

\* A kill on a process of the pipeline, by the user or by execute_pipe
LEMMA KilledStep ==
    ASSUME PipeInv, NEW p \in Users, Alive(p), NEW at \in Points, Forget(p, at), shell' = shell,
           Install(Killed(p)) \/ InstallAndSwitch(Killed(p)),
           at = pc[SHELLPID] \/ at \notin Stages \/ (pc[SHELLPID] = "right" /\ at = "close0")
    PROVE  PipeInv'
<1> DEFINE k0 == Ended(Kernel, p)
           l  == Killed(p)
<1>1. /\ p \in PIDs /\ p # SHELLPID /\ SHELLPID \in PIDs /\ Users \subseteq PIDs
      /\ PipeTypeOK /\ DataOK(streams, sems) /\ HoldersOK /\ Kernel \in KernelType /\ cpu \in PIDs
  BY PipelinesAssumption, ProgramFields DEF PipeInv, Users, PIDs, SHELLPID
<1>2. PartlyClosed(k0, l, OwnEnd(p))
  BY <1>1, EndPoints, Zenon DEF Killed
<1>3. /\ k0 \in KernelType /\ k0.fds = fileDescriptors /\ k0.streams = streams
      /\ \A q \in PIDs : k0.state[q] = "EXITED" <=> state[q] = "EXITED" \/ q = p
  BY <1>1, EndedEffect
<1> HIDE DEF k0, l
<1>4. l \in KernelType /\ DataOK(l.streams, l.sems) /\ SameLives(k0.state, l.state)
  BY <1>2 DEF PartlyClosed
<1>5. /\ Kernel' \in KernelType /\ cpu' \in PIDs /\ fileDescriptors' = l.fds
      /\ streams' = l.streams /\ sems' = l.sems /\ SameLives(l.state, state')
  <2>1. Install(l) \/ InstallAndSwitch(l)
    BY DEF l
  <2> QED
    BY <1>1, <1>4, <2>1, Installed
<1>6. \A q \in Users : state'[q] # "EXITED" <=> state[q] # "EXITED" /\ q # p
  BY <1>3, <1>4, <1>5 DEF SameLives, Users, PIDs
<1>7. /\ pc' = [pc EXCEPT ![p] = "gone", ![SHELLPID] = at]
      /\ inWait' = [inWait EXCEPT ![p] = NoSem] /\ left' = [left EXCEPT ![p] = 0]
      /\ waitPid' = [waitPid EXCEPT ![p] = NULL]
      /\ prog' = prog /\ fds' = fds /\ closing' = closing /\ foreground' = foreground
  BY DEF Forget
<1>8. /\ pc' \in [PIDs -> Points] /\ waitPid' \in [PIDs -> PIDs \cup {NULL}]
      /\ left' \in [PIDs -> Int] /\ inWait' \in [PIDs -> SemIds \cup {NoSem}]
  <2>1. pc \in [PIDs -> Points] /\ "gone" \in Points /\ at \in Points
    BY <1>1, ProgramFields DEF Points
  <2>2. pc' \in [PIDs -> Points]
    BY <1>7, <2>1
  <2>3. waitPid \in [PIDs -> PIDs \cup {NULL}] /\ NULL \in PIDs \cup {NULL}
    BY <1>1, ProgramFields
  <2>4. waitPid' \in [PIDs -> PIDs \cup {NULL}]
    BY <1>7, <2>3
  <2>5. left \in [PIDs -> Int] /\ 0 \in Int
    BY <1>1, ProgramFields
  <2>6. left' \in [PIDs -> Int]
    BY <1>7, <2>5
  <2>7. inWait \in [PIDs -> SemIds \cup {NoSem}] /\ NoSem \in SemIds \cup {NoSem}
    BY <1>1, ProgramFields
  <2>8. inWait' \in [PIDs -> SemIds \cup {NoSem}]
    BY <1>7, <2>7
  <2> QED
    BY <2>2, <2>4, <2>6, <2>8
<1>9. pc'[SHELLPID] = at /\ \A q \in Users : q # p => pc'[q] = pc[q]
  <2>1. \A q \in Users : q # SHELLPID
    BY DEF Users, SHELLPID
  <2> QED
    BY <1>1, <1>7, <2>1, ProgramFields
<1>10. PipeTypeOK'
  BY <1>1, <1>5, <1>7, <1>8, ProgramTypes, ProgramFields
<1>11. HoldersOK'
  BY <1>1, <1>2, <1>3, <1>5, <1>6, <1>7, <1>9, DeathStep
<1> QED
  BY <1>4, <1>5, <1>10, <1>11 DEF PipeInv

\* The kill command of the shell
LEMMA KillCommandStep ==
    ASSUME PipeInv, KillCommand
    PROVE  PipeInv'
<1>1. PICK p \in Users : /\ On(SHELLPID, "prompt") /\ Alive(p)
                         /\ IF KillSpins(p) THEN Spin(SHELLPID)
                            ELSE Install(Killed(p)) /\ Forget(p, "prompt") /\ UNCHANGED shell
  BY DEF KillCommand
<1>2. CASE Spin(SHELLPID)
  BY <1>2, SpinStep, PipelinesAssumption DEF PIDs, SHELLPID
<1>3. CASE Install(Killed(p)) /\ Forget(p, "prompt") /\ UNCHANGED shell
  <2>1. "prompt" \in Points /\ "prompt" \notin Stages
    BY DEF Points, Stages
  <2> QED
    BY <1>1, <1>3, <2>1, KilledStep
<1> QED
  BY <1>1, <1>2, <1>3

\* Ctrl-C, whoever is on the CPU
LEMMA CtrlCStep ==
    ASSUME PipeInv, CtrlC
    PROVE  PipeInv'
<1> DEFINE Q == {q \in Users : Alive(q) /\ foreground[q]}
           p == Min(Q)
<1>1. /\ \E q \in Users : Alive(q) /\ foreground[q]
      /\ IF KillSpins(p) THEN Spin(cpu)
         ELSE /\ IF p = cpu THEN InstallAndSwitch(Killed(p)) ELSE Install(Killed(p))
              /\ Forget(p, pc[SHELLPID])
              /\ UNCHANGED shell
  BY DEF CtrlC
<1>2. Q \subseteq Nat /\ Q # {}
  BY <1>1, PipelinesAssumption DEF Users, PIDs
<1>3. p \in Q
  <2> HIDE DEF Q
  <2> QED
    BY <1>2, MinInSet
<1> HIDE DEF p
<1>4. p \in Users /\ Alive(p)
  BY <1>3
<1>5. PipeTypeOK /\ cpu \in PIDs /\ pc \in [PIDs -> Points] /\ SHELLPID \in PIDs
  BY PipelinesAssumption, ProgramFields DEF PipeInv, PIDs, SHELLPID
<1>6. CASE Spin(cpu)
  BY <1>5, <1>6, SpinStep
<1>7. CASE /\ Install(Killed(p)) \/ InstallAndSwitch(Killed(p))
           /\ Forget(p, pc[SHELLPID]) /\ shell' = shell
  <2>1. pc[SHELLPID] \in Points
    BY <1>5
  <2> QED
    BY <1>4, <1>7, <2>1, KilledStep
<1> QED
  BY <1>1, <1>6, <1>7

\* Only the place of the shell and what the processes wait for change.
LEMMA ShellMoves ==
    ASSUME PipeInv, NEW at \in Points, pc' = [pc EXCEPT ![SHELLPID] = at],
           Kernel' \in KernelType, cpu' \in PIDs, fileDescriptors' = fileDescriptors,
           streams' = streams, sems' = sems, SameLives(state, state'),
           inWait' = inWait, prog' = prog, fds' = fds, left' = left, closing' = closing,
           foreground' = foreground, waitPid' \in [PIDs -> PIDs \cup {NULL}], shell' = shell,
           \/ at = pc[SHELLPID] \/ at \notin Stages
           \/ pc[SHELLPID] = "right" /\ at = "close0" /\ Nobody
    PROVE  PipeInv'
<1>1. /\ SHELLPID \in PIDs /\ SHELLPID \notin Users /\ Users \subseteq PIDs
      /\ PipeTypeOK /\ DataOK(streams, sems) /\ HoldersOK
  BY PipelinesAssumption DEF PipeInv, Users, PIDs, SHELLPID
<1>2. /\ pc' \in [PIDs -> Points] /\ pc'[SHELLPID] = at
      /\ \A q \in Users : pc'[q] = pc[q]
  BY <1>1, ProgramFields
<1>3. PipeTypeOK'
  BY <1>1, <1>2, ProgramTypes, ProgramFields
<1>4. DataOK(streams', sems')
  BY <1>1
<1>5. \A q \in Users : state'[q] # "EXITED" <=> state[q] # "EXITED"
  BY <1>1 DEF SameLives
<1>6. CASE at = pc[SHELLPID] \/ at \notin Stages
  <2>1. \A t \in Streams : SameUse(streams[t], streams'[t])
    BY DEF SameUse
  <2>2. ReadAll => ReadAll'
    BY DEF ReadAll, Pipe, ReadFD
  <2>3. HoldersOK'
    <3>1. SHELLPID \in Users /\ Alive(SHELLPID) => FALSE
      BY <1>1
    <3> QED
      BY <1>1, <1>2, <1>5, <1>6, <2>1, <2>2, <3>1, HoldersStep
  <2> QED
    BY <1>3, <1>4, <2>3 DEF PipeInv
<1>7. CASE pc[SHELLPID] = "right" /\ at = "close0" /\ Nobody
  <2>1. Nobody' /\ \A q \in Users : ~Alive(q)'
    BY <1>5, <1>7 DEF Nobody, Alive
  <2>2. Opened' /\ EndsOK'
    BY <1>1, <1>7 DEF HoldersOK, ShellOK, Opened, EndsOK, Pipe, ReadFD, WriteFD
  <2>3. HeldOK' /\ ProgramsOK'
    BY <2>1 DEF HeldOK, ProgramsOK, Writer, Reader
  <2>4. ShellOK'
    <3>1. ReadOpen /\ streams[Pipe].readers = 1 /\ streams[Pipe].writers \in {0, 1}
      BY <1>1, <1>7 DEF HoldersOK, ShellOK
    <3>2. ReadOpen' /\ streams'[Pipe'].readers = 1 /\ streams'[Pipe'].writers \in {0, 1}
      BY <3>1 DEF ReadOpen, Pipe, ReadFD
    <3> QED
      BY <1>2, <1>7, <2>1, <2>2, <3>2 DEF ShellOK
  <2>5. HoldersOK'
    BY <2>1, <2>2, <2>3, <2>4 DEF HoldersOK
  <2> QED
    BY <1>3, <1>4, <2>5 DEF PipeInv
<1> QED
  BY <1>6, <1>7

\* execute_pipe ends the left program when it cannot start the right one.
LEMMA CreateRightFailsStep ==
    ASSUME PipeInv, CreateRightFails
    PROVE  PipeInv'
<1>1. PipeTypeOK /\ HoldersOK /\ SHELLPID \in PIDs /\ Users \subseteq PIDs /\ "close0" \in Points
  BY PipelinesAssumption DEF PipeInv, PIDs, SHELLPID, Users, Points
<1>2. /\ pc[SHELLPID] = "right" /\ shell.pid \in Users
      /\ \A p \in Users : Alive(p) => p = shell.pid
  BY <1>1 DEF CreateRightFails, ShellStep, On, HoldersOK, ShellOK
<1>3. CASE ~Alive(shell.pid)
  <2>1. /\ pc' = [pc EXCEPT ![SHELLPID] = "close0"] /\ Nobody
        /\ UNCHANGED <<vars, pipeVars, prog, fds, left, closing, foreground, waitPid, shell>>
    BY <1>2, <1>3 DEF CreateRightFails, Goto, Nobody
  <2>2. /\ fileDescriptors' = fileDescriptors /\ streams' = streams /\ sems' = sems
        /\ state' = state /\ cpu' = cpu /\ locked' = locked /\ inWait' = inWait
        /\ prog' = prog /\ fds' = fds /\ left' = left /\ closing' = closing
        /\ foreground' = foreground /\ waitPid' = waitPid /\ shell' = shell
    BY <2>1 DEF vars, pipeVars
  <2>3. /\ Kernel' \in KernelType /\ cpu' \in PIDs /\ SameLives(state, state')
        /\ waitPid' \in [PIDs -> PIDs \cup {NULL}]
    BY <1>1, <2>2, ProgramFields DEF Kernel, SameLives
  <2> QED
    BY <1>1, <1>2, <2>1, <2>2, <2>3, ShellMoves
<1>4. CASE Spin(SHELLPID)
  BY <1>1, <1>4, SpinStep
<1>5. CASE /\ Alive(shell.pid) /\ Install(Killed(shell.pid)) /\ Forget(shell.pid, "close0")
           /\ UNCHANGED shell
  BY <1>1, <1>2, <1>5, KilledStep
<1> QED
  BY <1>3, <1>4, <1>5 DEF CreateRightFails

\* A turn ends, or nothing happens.
LEMMA TurnStep ==
    ASSUME PipeInv, Turn \/ UNCHANGED allVars
    PROVE  PipeInv'
<1>1. PipeTypeOK /\ pc \in [PIDs -> Points] /\ Kernel \in KernelType /\ cpu \in PIDs
      /\ SHELLPID \in PIDs /\ waitPid \in [PIDs -> PIDs \cup {NULL}]
  BY PipelinesAssumption, ProgramFields DEF PipeInv, PIDs, SHELLPID
<1>2. /\ fileDescriptors' = fileDescriptors /\ streams' = streams /\ sems' = sems
      /\ locked' = locked /\ inWait' = inWait /\ pc' = pc
      /\ prog' = prog /\ fds' = fds /\ left' = left /\ closing' = closing
      /\ foreground' = foreground /\ waitPid' = waitPid /\ shell' = shell
  BY DEF Turn, allVars, vars, semVars, pipeVars, progVars
<1>3. state' \in [PIDs -> States] /\ cpu' \in PIDs /\ SameLives(state, state')
  <2>1. state \in [PIDs -> States]
    BY <1>1, KernelFields, KernelIs
  <2>2. CASE Turn
    BY <1>1, <2>1, <2>2, SwitchEffect DEF Turn, Preempt, SameLives
  <2>3. CASE UNCHANGED allVars
    BY <1>1, <2>1, <2>3 DEF allVars, vars, SameLives
  <2> QED
    BY <2>2, <2>3
<1>4. Kernel' \in KernelType
  BY <1>1, <1>2, <1>3 DEF Kernel, KernelType
<1>5. pc[SHELLPID] \in Points /\ pc' = [pc EXCEPT ![SHELLPID] = pc[SHELLPID]]
  BY <1>1, <1>2
<1> QED
  BY <1>1, <1>2, <1>3, <1>4, <1>5, ShellMoves

\* execute_pipe waits for its left program.
LEMMA WaitLeftStep ==
    ASSUME PipeInv, WaitLeft
    PROVE  PipeInv'
<1>1. PipeTypeOK /\ pc \in [PIDs -> Points] /\ Kernel \in KernelType /\ cpu \in PIDs
      /\ SHELLPID \in PIDs /\ waitPid \in [PIDs -> PIDs \cup {NULL}]
      /\ state \in [PIDs -> States]
  BY PipelinesAssumption, ProgramFields, KernelFields, KernelIs DEF PipeInv, PIDs, SHELLPID
<1>2. /\ fileDescriptors' = fileDescriptors /\ streams' = streams /\ sems' = sems
      /\ locked' = locked /\ inWait' = inWait /\ pc' = [pc EXCEPT ![SHELLPID] = "prompt"]
      /\ prog' = prog /\ fds' = fds /\ left' = left /\ closing' = closing
      /\ foreground' = foreground /\ shell' = shell
  BY DEF WaitLeft, semVars, pipeVars, Goto
<1>3. state' \in [PIDs -> States] /\ cpu' \in PIDs /\ SameLives(state, state')
  <2>1. CASE BlockSelf
    <3> DEFINE st == [state EXCEPT ![cpu] = "BLOCKED"]
    <3>1. cpu = SHELLPID /\ state[SHELLPID] = "RUNNING"
      BY DEF WaitLeft, ShellStep, On
    <3>2. st \in [PIDs -> States] /\ SameLives(state, st) /\ Switch(st)
      BY <1>1, <2>1, <3>1 DEF BlockSelf, States, SameLives
    <3> HIDE DEF st
    <3> QED
      BY <1>1, <3>2, SwitchEffect DEF SameLives
  <2>2. CASE UNCHANGED procVars
    BY <1>1, <2>2 DEF procVars, SameLives
  <2> QED
    BY <2>1, <2>2 DEF WaitLeft
<1>4. waitPid' \in [PIDs -> PIDs \cup {NULL}]
  BY <1>1 DEF WaitLeft
<1>5. Kernel' \in KernelType
  BY <1>1, <1>2, <1>3 DEF Kernel, KernelType
<1>6. "prompt" \in Points /\ "prompt" \notin Stages
  BY DEF Points, Stages
<1> QED
  BY <1>1, <1>2, <1>3, <1>4, <1>5, <1>6, ShellMoves

\* execute_pipe closes an end that nobody holds.
LEMMA ShellCloses ==
    ASSUME PipeInv, NEW fd \in {ReadFD, WriteFD}, NEW at \in Points, Opened, Nobody,
           Install(closeFD(Kernel, fd)), pc' = [pc EXCEPT ![SHELLPID] = at],
           UNCHANGED <<inWait, handle, prog, fds, left, closing, foreground, waitPid, shell>>,
           \/ at = "prompt"
           \/ fd = ReadFD /\ at = "close1" /\ ReadOpen /\ streams[Pipe].readers = 1
    PROVE  PipeInv'
<1> DEFINE l == closeFD(Kernel, fd)
<1>1. /\ SHELLPID \in PIDs /\ Users \subseteq PIDs /\ PipeTypeOK /\ HoldersOK /\ EndsOK
      /\ DataOK(streams, sems) /\ Kernel \in KernelType /\ cpu \in PIDs
      /\ Kernel.fds = fileDescriptors /\ Kernel.streams = streams /\ Kernel.sems = sems
      /\ Kernel.state = state
  BY PipelinesAssumption, ProgramFields, KernelIs
     DEF PipeInv, PIDs, SHELLPID, HoldersOK, Users
<1>2. fd \in FDs /\ fileDescriptors[fd].resource = Pipe /\ Pipe \in Streams
      /\ streams[Pipe].status # "fresh"
  BY <1>1 DEF EndsOK, Pipe
<1>3. PartlyClosed(Kernel, l, fd)
  <2>1. Holdable(Kernel, fd)
    BY <1>1, <1>2 DEF Holdable
  <2> QED
    BY <1>1, <2>1, CloseHeld
<1>4. at = "close1" => streams[Pipe].readers = 1 /\ l.streams[Pipe].readers = 0
  <2> SUFFICES ASSUME at = "close1"
               PROVE  streams[Pipe].readers = 1 /\ l.streams[Pipe].readers = 0
    OBVIOUS
  <2>1. fd = ReadFD /\ ReadOpen /\ streams[Pipe].readers = 1
    OBVIOUS
  <2>2. Closable(Kernel, fd)
    BY <1>1, <1>2, <2>1 DEF Closable, ReadOpen
  <2>3. Closing(Kernel, l, fd)
    BY <1>1, <2>2, CloseFDEffect
  <2> HIDE DEF l
  <2>4. CountedOut(Kernel, l.streams[Pipe], fd)
    BY <1>1, <1>2, <2>3 DEF Closing
  <2>5. Out(fd, Kernel, "R") = 1
    BY <1>1, <2>1 DEF Out, EndsOK
  <2> QED
    BY <1>1, <1>2, <2>1, <2>4, <2>5 DEF CountedOut
<1> HIDE DEF l
<1>5. l \in KernelType /\ DataOK(l.streams, l.sems) /\ SameLives(state, l.state)
  BY <1>1, <1>3 DEF PartlyClosed
<1>6. /\ Kernel' \in KernelType /\ cpu' \in PIDs /\ fileDescriptors' = l.fds
      /\ streams' = l.streams /\ sems' = l.sems /\ SameLives(l.state, state')
  BY <1>1, <1>5, Installed DEF l
<1>7. pc' \in [PIDs -> Points] /\ pc'[SHELLPID] = at
  BY <1>1, ProgramFields
<1>8. /\ inWait' = inWait /\ prog' = prog /\ fds' = fds /\ left' = left /\ closing' = closing
      /\ foreground' = foreground /\ waitPid' = waitPid /\ shell' = shell
  OBVIOUS
<1>9. PipeTypeOK'
  BY <1>1, <1>6, <1>7, <1>8, ProgramTypes, ProgramFields
<1>10. \A q \in Users : ~Alive(q)'
  BY <1>1, <1>5, <1>6 DEF SameLives, Nobody, Alive
<1>11. EndsOK' /\ Pipe' = Pipe /\ Opened'
  BY <1>1, <1>3, <1>6, <1>8, PartlyClosedFacts, SameNames
<1>12. HeldOK' /\ ProgramsOK' /\ Nobody'
  BY <1>10 DEF HeldOK, ProgramsOK, Writer, Reader, Nobody
<1>13. ShellOK'
  <2>1. at = "close1" => streams'[Pipe'].readers <= 0
    BY <1>4, <1>6, <1>11
  <2> QED
    BY <1>7, <1>11, <1>12, <2>1 DEF ShellOK
<1> QED
  BY <1>5, <1>6, <1>9, <1>11, <1>12, <1>13 DEF PipeInv, HoldersOK

\* The two calls of close at the end of execute_pipe
LEMMA ClosePipeStep ==
    ASSUME PipeInv, ClosePipe("close0", 1, "close1") \/ ClosePipe("close1", 2, "prompt")
    PROVE  PipeInv'
<1>1. ShellOK /\ SHELLPID \in PIDs /\ "close1" \in Points /\ "prompt" \in Points
  BY PipelinesAssumption DEF PipeInv, HoldersOK, PIDs, SHELLPID, Points
<1>2. CASE Spin(SHELLPID)
  BY <1>1, <1>2, SpinStep
<1>3. CASE ClosePipe("close0", 1, "close1") /\ ~Spin(SHELLPID)
  <2>1. /\ pc[SHELLPID] = "close0" /\ Install(closeFD(Kernel, ReadFD))
        /\ pc' = [pc EXCEPT ![SHELLPID] = "close1"]
        /\ UNCHANGED <<inWait, handle, prog, fds, left, closing, foreground, waitPid, shell>>
    BY <1>3 DEF ClosePipe, ShellStep, On, Goto, ReadFD
  <2>2. Opened /\ Nobody /\ ReadOpen /\ streams[Pipe].readers = 1
    BY <1>1, <2>1 DEF ShellOK
  <2> QED
    BY <1>1, <2>1, <2>2, ShellCloses
<1>4. CASE ClosePipe("close1", 2, "prompt") /\ ~Spin(SHELLPID)
  <2>1. /\ pc[SHELLPID] = "close1" /\ Install(closeFD(Kernel, WriteFD))
        /\ pc' = [pc EXCEPT ![SHELLPID] = "prompt"]
        /\ UNCHANGED <<inWait, handle, prog, fds, left, closing, foreground, waitPid, shell>>
    BY <1>4 DEF ClosePipe, ShellStep, On, Goto, WriteFD
  <2>2. Opened /\ Nobody
    BY <1>1, <2>1 DEF ShellOK
  <2> QED
    BY <1>1, <2>1, <2>2, ShellCloses
<1> QED
  BY <1>2, <1>3, <1>4

\* What createProcess leaves: p is alive at the start of program with its two descriptors,
\* and nobody else changes.
Placed(p, program, ends, next) ==
    /\ p \in Users /\ ~Alive(p)
    /\ fileDescriptors' = fileDescriptors /\ streams' = streams /\ sems' = sems
    /\ \A q \in Users : state'[q] # "EXITED" <=> state[q] # "EXITED" \/ q = p
    /\ fds'[p] = ends /\ prog'[p] = program /\ closing'[p] = << >>
    /\ pc'[p] = "run" /\ pc'[SHELLPID] = next
    /\ \A q \in Users : q # p => /\ fds'[q] = fds[q] /\ prog'[q] = prog[q]
                                 /\ closing'[q] = closing[q] /\ pc'[q] = pc[q]

\* createProcess takes a slot that was free.
LEMMA NewProcess ==
    ASSUME PipeTypeOK, NEW program \in Programs, NEW ends \in Seq(Int), NEW fg \in BOOLEAN,
           NEW next \in Points, Create(program, ends, fg, next),
           shell' \in [left : Programs, right : Programs, fds : Seq(Int),
                       pid : PIDs \cup {NULL}, bg : BOOLEAN]
    PROVE  PipeTypeOK' /\ Placed(Min(FreeSlots), program, ends, next)
<1> DEFINE p == Min(FreeSlots)
<1>1. p \in Users /\ state[p] = "EXITED"
  <2>1. FreeSlots \subseteq Nat /\ FreeSlots # {}
    BY PipelinesAssumption DEF Create, FreeSlots, Users
  <2>2. p \in FreeSlots
    BY <2>1, MinInSet
  <2> QED
    BY <2>2 DEF FreeSlots
<1>2. /\ state' = [state EXCEPT ![p] = "READY"] /\ cpu' = cpu
      /\ pc' = [pc EXCEPT ![p] = "run", ![SHELLPID] = next]
      /\ prog' = [prog EXCEPT ![p] = program] /\ fds' = [fds EXCEPT ![p] = ends]
      /\ left' = [left EXCEPT ![p] = 0] /\ closing' = [closing EXCEPT ![p] = << >>]
      /\ foreground' = [foreground EXCEPT ![p] = fg] /\ waitPid' = [waitPid EXCEPT ![p] = NULL]
      /\ inWait' = [inWait EXCEPT ![p] = NoSem]
      /\ fileDescriptors' = fileDescriptors /\ streams' = streams /\ sems' = sems
      /\ locked' = locked
  BY DEF Create, Start, Stay, pipeVars
<1> HIDE DEF p
<1>3. /\ p \in PIDs /\ p # SHELLPID /\ SHELLPID \in PIDs /\ Users \subseteq PIDs
      /\ SHELLPID \notin Users
  BY <1>1, PipelinesAssumption DEF Users, PIDs, SHELLPID
<1>4. /\ Kernel \in KernelType /\ cpu \in PIDs /\ prog \in [PIDs -> Programs]
      /\ fds \in [PIDs -> Seq(Int)] /\ foreground \in [PIDs -> BOOLEAN]
      /\ pc \in [PIDs -> Points] /\ closing \in [PIDs -> Seq(Int)] /\ left \in [PIDs -> Int]
      /\ waitPid \in [PIDs -> PIDs \cup {NULL}] /\ inWait \in [PIDs -> SemIds \cup {NoSem}]
  BY DEF PipeTypeOK
<1>5. state \in [PIDs -> States]
  BY <1>4, KernelFields, KernelIs
<1>6. state' \in [PIDs -> States]
      /\ \A q \in Users : state'[q] # "EXITED" <=> state[q] # "EXITED" \/ q = p
  BY <1>1, <1>2, <1>3, <1>5 DEF States
<1>7. Kernel' \in KernelType
  BY <1>2, <1>4, <1>6 DEF Kernel, KernelType
<1>8. /\ pc' \in [PIDs -> Points] /\ pc'[p] = "run" /\ pc'[SHELLPID] = next
      /\ \A q \in Users : q # p => pc'[q] = pc[q]
  <2>1. "run" \in Points
    BY DEF Points
  <2> QED
    BY <1>2, <1>3, <1>4, <2>1
<1>9. /\ fds' \in [PIDs -> Seq(Int)] /\ fds'[p] = ends
      /\ \A q \in Users : q # p => fds'[q] = fds[q]
  BY <1>2, <1>3, <1>4
<1>10. /\ prog' \in [PIDs -> Programs] /\ prog'[p] = program
       /\ \A q \in Users : q # p => prog'[q] = prog[q]
  BY <1>2, <1>3, <1>4
<1>11. /\ closing' \in [PIDs -> Seq(Int)] /\ closing'[p] = << >>
       /\ \A q \in Users : q # p => closing'[q] = closing[q]
  <2>1. << >> \in Seq(Int)
    OBVIOUS
  <2> QED
    BY <1>2, <1>3, <1>4, <2>1
<1>12. left' \in [PIDs -> Int] /\ foreground' \in [PIDs -> BOOLEAN]
  <2>1. left' \in [PIDs -> Int]
    <3>1. p \in PIDs /\ left \in [PIDs -> Int] /\ left' = [left EXCEPT ![p] = 0]
      BY <1>2, <1>3, <1>4
    <3>2. PIDs \subseteq Int
      BY DEF PIDs
    <3> QED
      BY <3>1, <3>2
  <2>2. foreground' \in [PIDs -> BOOLEAN]
    BY <1>2, <1>4
  <2> QED
    BY <2>1, <2>2
<1>13. waitPid' \in [PIDs -> PIDs \cup {NULL}]
  BY <1>2, <1>4
<1>14. inWait' \in [PIDs -> SemIds \cup {NoSem}]
  BY <1>2, <1>4
<1>15. PipeTypeOK'
  BY <1>2, <1>4, <1>7, <1>8, <1>9, <1>10, <1>11, <1>12, <1>13, <1>14 DEF PipeTypeOK
<1> QED
  BY <1>1, <1>2, <1>6, <1>8, <1>9, <1>10, <1>11, <1>15 DEF Placed, Alive, p

\* The left program is the only process, and holds the write end.
LEMMA CreateLeftStep ==
    ASSUME PipeInv, CreateLeft
    PROVE  PipeInv'
<1>0. PICK p : p = Min(FreeSlots)
  OBVIOUS
<1>1. /\ PipeTypeOK /\ DataOK(streams, sems) /\ pc[SHELLPID] = "left" /\ Opened /\ EndsOK
      /\ Nobody /\ ReadOpen /\ WriteOpen
      /\ streams[Pipe].readers = 1 /\ streams[Pipe].writers = 1
  BY DEF PipeInv, HoldersOK, ShellOK, CreateLeft, ShellStep, On
<1>2. shell \in [left : Programs, right : Programs, fds : Seq(Int), pid : PIDs \cup {NULL},
                 bg : BOOLEAN]
  BY <1>1 DEF PipeTypeOK
<1>3. /\ Create(shell.left, <<STDIN, WriteFD>>, ~shell.bg, "right")
      /\ shell' = [shell EXCEPT !.pid = p]
  BY <1>0 DEF CreateLeft, WriteFD
<1>4. p \in Users /\ p \in PIDs
  <2>1. FreeSlots \subseteq Nat /\ FreeSlots # {}
    BY <1>3, PipelinesAssumption DEF Create, FreeSlots, Users
  <2>2. p \in FreeSlots
    BY <1>0, <2>1, MinInSet
  <2> QED
    BY <2>2 DEF FreeSlots, Users, PIDs
<1>5. /\ shell' \in [left : Programs, right : Programs, fds : Seq(Int),
                     pid : PIDs \cup {NULL}, bg : BOOLEAN]
      /\ shell'.fds = shell.fds /\ shell'.pid = p
  BY <1>2, <1>3, <1>4
<1>6. PipeTypeOK' /\ Placed(p, shell.left, <<STDIN, WriteFD>>, "right")
  <2>1. WriteFD \in Int /\ STDIN \in Int /\ ReadFD \in Int
    BY <1>1 DEF EndsOK, FDs, STDIN
  <2>2. <<STDIN, WriteFD>> \in Seq(Int)
    BY <2>1
  <2>3. "right" \in Points /\ shell.left \in Programs /\ (~shell.bg) \in BOOLEAN
    BY <1>2 DEF Points
  <2> QED
    BY <1>1, <1>3, <1>5, <2>2, <2>3, NewProcess, <1>0
<1>7. ReadFD' = ReadFD /\ WriteFD' = WriteFD /\ Pipe' = Pipe /\ Opened' /\ EndsOK'
  BY <1>1, <1>5, <1>6 DEF Placed, ReadFD, WriteFD, Pipe, Opened, EndsOK
<1>8. /\ ReadOpen' /\ WriteOpen' /\ streams'[Pipe'].readers = 1 /\ streams'[Pipe'].writers = 1
  BY <1>1, <1>6, <1>7 DEF Placed, ReadOpen, WriteOpen
<1>9. \A q \in Users : Alive(q)' <=> q = p
  BY <1>1, <1>4, <1>6 DEF Placed, Nobody, Alive
<1>10. /\ fds'[p] = <<STDIN, WriteFD>> /\ pc'[p] = "run" /\ closing'[p] = << >>
       /\ pc'[SHELLPID] = "right"
  BY <1>6 DEF Placed
<1>11. Writer(p)' /\ \A q \in Users : ~Reader(q)'
  <2>1. <<STDIN, WriteFD>> # <<ReadFD, STDOUT>>
    BY <1>1 DEF EndsOK, FDs, STDIN, STDOUT
  <2> QED
    BY <1>4, <1>7, <1>9, <1>10, <2>1 DEF Writer, Reader
<1>12. HeldOK'
  BY <1>8, <1>9, <1>11 DEF HeldOK, Writer
<1>13. ProgramsOK'
  <2>1. << >> \in Seq({fds'[p][1], fds'[p][2]})
    OBVIOUS
  <2> QED
    BY <1>8, <1>9, <1>10, <1>11, <2>1 DEF ProgramsOK, Writer
<1>14. ShellOK'
  BY <1>4, <1>5, <1>7, <1>8, <1>9, <1>10, <1>11 DEF ShellOK
<1> QED
  BY <1>1, <1>6, <1>7, <1>12, <1>13, <1>14 DEF PipeInv, HoldersOK, Placed

\* The right program holds the read end beside the left one, which may have ended.
LEMMA CreateRightStep ==
    ASSUME PipeInv, CreateRight
    PROVE  PipeInv'
<1>0. PICK p : p = Min(FreeSlots)
  OBVIOUS
<1> DEFINE next == IF shell.bg THEN "prompt" ELSE "wait"
<1>1. /\ PipeTypeOK /\ DataOK(streams, sems) /\ pc[SHELLPID] = "right" /\ Opened /\ EndsOK
      /\ HeldOK /\ ProgramsOK /\ \A q \in Users : Alive(q) => Writer(q) /\ q = shell.pid
      /\ ReadOpen /\ streams[Pipe].readers = 1 /\ streams[Pipe].writers \in {0, 1}
  BY DEF PipeInv, HoldersOK, ShellOK, CreateRight, ShellStep, On
<1>2. shell \in [left : Programs, right : Programs, fds : Seq(Int), pid : PIDs \cup {NULL},
                 bg : BOOLEAN]
  BY <1>1 DEF PipeTypeOK
<1>3. Create(shell.right, <<ReadFD, STDOUT>>, FALSE, next) /\ shell' = shell
  BY DEF CreateRight, ReadFD
<1>4. next \in Points /\ next \notin Stages
  BY DEF Points, Stages
<1> HIDE DEF next
<1>5. PipeTypeOK' /\ Placed(p, shell.right, <<ReadFD, STDOUT>>, next)
  <2>1. ReadFD \in Int /\ STDOUT \in Int
    BY <1>1 DEF EndsOK, FDs, STDOUT
  <2>2. <<ReadFD, STDOUT>> \in Seq(Int)
    BY <2>1
  <2>3. shell.right \in Programs
    BY <1>2
  <2> QED
    BY <1>1, <1>2, <1>3, <1>4, <2>2, <2>3, NewProcess, <1>0
<1>6. ReadFD' = ReadFD /\ WriteFD' = WriteFD /\ Pipe' = Pipe /\ Opened' /\ EndsOK'
  BY <1>1, <1>3, <1>5 DEF Placed, ReadFD, WriteFD, Pipe, Opened, EndsOK
<1>7. /\ (ReadOpen' <=> ReadOpen) /\ (WriteOpen' <=> WriteOpen) /\ (ReadAll' <=> ReadAll)
      /\ streams'[Pipe'] = streams[Pipe]
  BY <1>5, <1>6 DEF Placed, ReadOpen, WriteOpen, ReadAll
<1>8. /\ p \in Users /\ ~Alive(p) /\ \A q \in Users : Alive(q)' <=> Alive(q) \/ q = p
      /\ fds'[p] = <<ReadFD, STDOUT>> /\ pc'[p] = "run" /\ closing'[p] = << >>
      /\ pc'[SHELLPID] = next
      /\ \A q \in Users : q # p => /\ fds'[q] = fds[q] /\ closing'[q] = closing[q]
                                   /\ pc'[q] = pc[q]
  BY <1>5 DEF Placed, Alive
<1>9. <<STDIN, WriteFD>> # <<ReadFD, STDOUT>>
  BY <1>1 DEF EndsOK, FDs, STDIN, STDOUT
<1>10. /\ Reader(p)' /\ ~Writer(p)'
       /\ \A q \in Users : q # p => ~Reader(q)' /\ (Writer(q)' <=> Writer(q))
  <2>1. \A q \in Users : q # p /\ Alive(q)' => Writer(q) /\ fds'[q] = <<STDIN, WriteFD>>
    BY <1>1, <1>8 DEF Writer
  <2> QED
    BY <1>6, <1>8, <1>9, <2>1 DEF Writer, Reader
<1>11. HeldOK'
  <2>1. \A q \in Users : Alive(q)' => Writer(q)' \/ Reader(q)'
    BY <1>1, <1>8, <1>10
  <2>2. \A q, u \in Users : Alive(q)' /\ Alive(u)' /\ fds'[q] = fds'[u] => q = u
    <3>1. \A q \in Users : q # p /\ Alive(q)' => q = shell.pid /\ fds'[q] = <<STDIN, WriteFD>>
      BY <1>1, <1>8 DEF Writer
    <3> QED
      BY <1>8, <1>9, <3>1
  <2>3. \A q \in Users : Writer(q)' => streams'[Pipe'].writers = IF WriteOpen' THEN 1 ELSE 0
    BY <1>1, <1>7, <1>10 DEF HeldOK
  <2>4. \A q \in Users : Reader(q)' => /\ streams'[Pipe'].readers = IF ReadOpen' THEN 1 ELSE 0
                                       /\ streams'[Pipe'].writers \in {0, 1}
    BY <1>1, <1>7
  <2> QED
    BY <2>1, <2>2, <2>3, <2>4 DEF HeldOK
<1>12. ProgramsOK'
  <2>1. << >> \in Seq({fds'[p][1], fds'[p][2]})
    OBVIOUS
  <2>2. \A q \in Users : Alive(q)' => closing'[q] \in Seq({fds'[q][1], fds'[q][2]})
    BY <1>1, <1>8, <2>1 DEF ProgramsOK
  <2>3. \A q \in Users : Writer(q)' /\ pc'[q] \in {"run", "write"} => WriteOpen'
    BY <1>1, <1>7, <1>8, <1>10 DEF ProgramsOK
  <2>4. \A q \in Users : Reader(q)' => q = p /\ pc'[q] = "run" /\ ReadOpen'
    BY <1>1, <1>7, <1>8, <1>10
  <2> QED
    BY <2>2, <2>3, <2>4 DEF ProgramsOK
<1>13. ShellOK'
  BY <1>4, <1>8 DEF ShellOK, Stages
<1> QED
  BY <1>1, <1>5, <1>6, <1>11, <1>12, <1>13 DEF PipeInv, HoldersOK, Placed

\* createProcess fails for the left program: the two ends are left.
LEMMA CreateLeftFailsStep ==
    ASSUME PipeInv, CreateLeftFails
    PROVE  PipeInv'
<1>1. /\ PipeTypeOK /\ DataOK(streams, sems) /\ pc[SHELLPID] = "left" /\ Opened /\ EndsOK
      /\ Nobody /\ ReadOpen /\ streams[Pipe].readers = 1 /\ streams[Pipe].writers = 1
      /\ SHELLPID \in PIDs
  BY PipelinesAssumption
     DEF PipeInv, HoldersOK, ShellOK, CreateLeftFails, ShellStep, On, PIDs, SHELLPID
<1>2. /\ fileDescriptors' = fileDescriptors /\ streams' = streams /\ sems' = sems
      /\ state' = state /\ cpu' = cpu /\ locked' = locked /\ inWait' = inWait
      /\ prog' = prog /\ fds' = fds /\ left' = left /\ closing' = closing
      /\ foreground' = foreground /\ waitPid' = waitPid /\ shell' = shell
      /\ pc' = [pc EXCEPT ![SHELLPID] = "close0"]
  BY DEF CreateLeftFails, Goto, vars, pipeVars
<1>3. pc' \in [PIDs -> Points] /\ pc'[SHELLPID] = "close0"
  <2>1. "close0" \in Points
    BY DEF Points
  <2> QED
    BY <1>1, <1>2, <2>1, ProgramFields
<1>4. Kernel' = Kernel
  BY <1>2 DEF Kernel
<1>5. PipeTypeOK'
  BY <1>1, <1>2, <1>3, <1>4, ProgramTypes, ProgramFields
<1>6. Nobody' /\ \A q \in Users : ~Alive(q)'
  BY <1>1, <1>2 DEF Nobody, Alive
<1>7. /\ Opened' /\ EndsOK' /\ ReadOpen'
      /\ streams'[Pipe'].readers = 1 /\ streams'[Pipe'].writers = 1
  BY <1>1, <1>2 DEF Opened, EndsOK, ReadOpen, Pipe, ReadFD, WriteFD
<1>8. HeldOK' /\ ProgramsOK'
  BY <1>6 DEF HeldOK, ProgramsOK, Writer, Reader
<1>9. ShellOK'
  BY <1>3, <1>6, <1>7 DEF ShellOK
<1> QED
  BY <1>1, <1>2, <1>5, <1>7, <1>8, <1>9 DEF PipeInv, HoldersOK

-----------------------------------------------------------------------------
(***************************************************************************)
(* createPipe                                                              *)
(***************************************************************************)

\* Only the descriptor fd is replaced.
OnlyFD(k, l, fd) ==
    /\ l \in KernelType /\ l.streams = k.streams /\ l.sems = k.sems /\ l.state = k.state
    /\ l.locked = k.locked
    /\ \A f \in FDs : f # fd => l.fds[f] = k.fds[f]

WithFD(k, fd, d)    == [k EXCEPT !.fds = [k.fds EXCEPT ![fd] = d]]
OpenInto(k, fd)     == [k EXCEPT !.fds[fd].isOpen = TRUE]
ResInto(k, fd, x)   == [k EXCEPT !.fds[fd].resource = x]
ModeInto(k, fd, x)  == [k EXCEPT !.fds[fd].mode = x]
StreamInto(k, r, x) == [k EXCEPT !.streams[r] = x]

\* A descriptor and a kernel with it
LEMMA FDReplaced ==
    ASSUME NEW k \in KernelType, NEW fd \in FDs, NEW d \in FD
    PROVE  OnlyFD(k, WithFD(k, fd, d), fd) /\ WithFD(k, fd, d).fds[fd] = d
<1> DEFINE l == WithFD(k, fd, d)
<1>1. /\ l.fds = [k.fds EXCEPT ![fd] = d] /\ l.streams = k.streams /\ l.sems = k.sems
      /\ l.state = k.state /\ l.locked = k.locked
  BY DEF KernelType, WithFD
<1>2. l \in KernelType
  BY <1>1 DEF KernelType, WithFD
<1> HIDE DEF l
<1>3. l.fds[fd] = d /\ \A f \in FDs : f # fd => l.fds[f] = k.fds[f]
  BY <1>1, KernelFields
<1> QED
  BY <1>1, <1>2, <1>3 DEF OnlyFD, l

\* A slot is taken, given a stream and given a mode.
LEMMA FDMarked ==
    ASSUME NEW k \in KernelType, NEW fd \in FDs, NEW x \in Streams, NEW m \in {"R", "W"}
    PROVE  /\ OnlyFD(k, OpenInto(k, fd), fd) /\ OpenInto(k, fd).fds[fd].isOpen
           /\ OnlyFD(k, ResInto(k, fd, x), fd) /\ ResInto(k, fd, x).fds[fd].resource = x
           /\ ResInto(k, fd, x).fds[fd].isOpen = k.fds[fd].isOpen
           /\ OnlyFD(k, ModeInto(k, fd, m), fd) /\ ModeInto(k, fd, m).fds[fd].mode = m
           /\ ModeInto(k, fd, m).fds[fd].isOpen = k.fds[fd].isOpen
           /\ ModeInto(k, fd, m).fds[fd].resource = k.fds[fd].resource
<1> DEFINE d == k.fds[fd]
           a == [d EXCEPT !.isOpen = TRUE]
           b == [d EXCEPT !.resource = x]
           c == [d EXCEPT !.mode = m]
<1>1. d \in FD
  BY KernelFields
<1>2. /\ OpenInto(k, fd) = WithFD(k, fd, a)
      /\ ResInto(k, fd, x) = WithFD(k, fd, b)
      /\ ModeInto(k, fd, m) = WithFD(k, fd, c)
  BY DEF OpenInto, ResInto, ModeInto, WithFD, KernelType
<1> HIDE DEF d
<1>3. a \in FD /\ a.isOpen
  BY <1>1 DEF FD
<1>4. b \in FD /\ b.resource = x /\ b.isOpen = d.isOpen
  BY <1>1 DEF FD
<1>5. c \in FD /\ c.mode = m /\ c.isOpen = d.isOpen /\ c.resource = d.resource
  BY <1>1 DEF FD
<1> HIDE DEF a, b, c
<1>6. OnlyFD(k, OpenInto(k, fd), fd) /\ OpenInto(k, fd).fds[fd] = a
  BY <1>2, <1>3, FDReplaced
<1>7. OnlyFD(k, ResInto(k, fd, x), fd) /\ ResInto(k, fd, x).fds[fd] = b
  BY <1>2, <1>4, FDReplaced
<1>8. OnlyFD(k, ModeInto(k, fd, m), fd) /\ ModeInto(k, fd, m).fds[fd] = c
  BY <1>2, <1>5, FDReplaced
<1> QED
  BY <1>3, <1>4, <1>5, <1>6, <1>7, <1>8 DEF d

\* getAvailableFD takes a closed slot, or there is none.
LEMMA GotFD ==
    ASSUME NEW k \in KernelType
    PROVE  LET g == getAvailableFD(k)
           IN  \/ g.fd = NoFD /\ g.kernel = k
               \/ /\ g.fd \in FDs /\ ~k.fds[g.fd].isOpen
                  /\ OnlyFD(k, g.kernel, g.fd) /\ g.kernel.fds[g.fd].isOpen
<1> DEFINE A == Available(k)
           g == getAvailableFD(k)
<1>1. CASE A = {}
  BY <1>1 DEF getAvailableFD
<1>2. CASE A # {}
  <2>1. A \subseteq Nat
    BY DEF Available, FDs
  <2>2. Min(A) \in A
    <3> HIDE DEF A
    <3> QED
      BY <1>2, <2>1, MinInSet
  <2>3. PICK fd \in FDs : fd = Min(A) /\ ~k.fds[fd].isOpen
    BY <2>2 DEF Available
  <2>4. g = [kernel |-> OpenInto(k, fd), fd |-> fd]
    BY <1>2, <2>3, Zenon DEF getAvailableFD, OpenInto
  <2>5. 1 \in Streams
    BY DEF Streams
  <2>6. OnlyFD(k, OpenInto(k, fd), fd) /\ OpenInto(k, fd).fds[fd].isOpen
    BY <2>5, FDMarked
  <2> HIDE DEF g
  <2>7. g.fd = fd /\ g.kernel = OpenInto(k, fd)
    BY <2>4
  <2> QED
    BY <2>3, <2>6, <2>7 DEF g
<1> QED
  BY <1>1, <1>2

\* semCreate takes a semaphore that was not in use, and gives it its value.
LEMMA SemCreated ==
    ASSUME NEW k \in KernelType, NEW name \in Names, NEW value \in Nat, cpu \in PIDs
    PROVE  LET c == semCreate(k, name, value)
           IN  \/ c.id = NoSem /\ c.kernel = k
               \/ /\ c.id \in SemIds /\ ~k.sems[c.id].used
                  /\ OnlySem(k, c.kernel, c.id) /\ c.kernel.locked = k.locked
                  /\ c.kernel.sems[c.id].used /\ c.kernel.sems[c.id].value = value
<1> DEFINE named == {s \in SemIds : k.sems[s].used /\ Spells(k.sems, s, name)}
           free  == {s \in SemIds : ~k.sems[s].used}
           c     == semCreate(k, name, value)
<1>1. CASE named # {} \/ free = {}
  <2>1. c = [kernel |-> k, id |-> NoSem]
    BY <1>1, Zenon DEF semCreate
  <2> HIDE DEF c
  <2>2. c.kernel = k /\ c.id = NoSem
    BY <2>1
  <2> QED
    BY <2>2 DEF c
<1>2. CASE ~(named # {} \/ free = {})
  <2>1. Min(free) \in free
    <3>1. free \subseteq Nat
      BY DEF SemIds
    <3> HIDE DEF free
    <3> QED
      BY <1>2, <3>1, MinInSet
  <2>2. PICK s \in SemIds : s = Min(free) /\ ~k.sems[s].used
    BY <2>1
  <2> DEFINE new == Created(k.sems[s], cpu, name, value)
             l   == [k EXCEPT !.sems[s] = new]
  <2>3. c = [kernel |-> l, id |-> s]
    BY <1>2, <2>2, Zenon DEF semCreate
  <2>4. new \in Sem /\ new.used
    BY KernelFields, CreatedEffect DEF CountedSem
  <2>5. new.value = value
    <3> DEFINE sem == k.sems[s]
    <3>1. sem \in Sem
      BY KernelFields DEF CountedSem
    <3> HIDE DEF sem
    <3>2. Created(sem, cpu, name, value).value = value
      BY <3>1 DEF Created, Flagged, CountedSem, Sem
    <3> QED
      BY <3>2 DEF sem
  <2> HIDE DEF new, c
  <2>10. new \in CountedSem
    BY <2>4, <2>5 DEF CountedSem
  <2>6. l = WithSem(k, s, new, k.state)
    BY DEF WithSem, KernelType
  <2>7. SameLives(k.state, k.state) /\ k.state \in [PIDs -> States]
    BY KernelFields DEF SameLives
  <2> HIDE DEF l
  <2>8. OnlySem(k, l, s) /\ l.sems[s] = new /\ l.locked = k.locked
    BY <2>6, <2>7, <2>10, SemReplaced
  <2>9. c.kernel = l /\ c.id = s
    BY <2>3
  <2> QED
    BY <2>2, <2>4, <2>5, <2>8, <2>9 DEF c
<1> QED
  BY <1>1, <1>2

\* A new stream, whose semaphores were not in use and count an empty buffer
LEMMA StreamOpened ==
    ASSUME NEW k \in KernelType, NEW l \in KernelType, DataOK(k.streams, k.sems),
           NEW r \in Streams, k.streams[r].status = "fresh",
           \A t \in Streams : t # r => l.streams[t] = k.streams[t],
           \A s \in SemIds : k.sems[s].used => l.sems[s] = k.sems[s],
           NEW st, st = l.streams[r], NEW x \in SemIds \cup {NoSem}, NEW y \in SemIds \cup {NoSem},
           st.status = "live", st.readSem = x, st.writeSem = y, st.eof = k.streams[r].eof,
           st.buffer = k.streams[r].buffer, st.readPos = k.streams[r].readPos,
           st.writePos = k.streams[r].writePos, SameBytes(k.streams[r], st),
           st.dataAvailable = k.streams[r].dataAvailable,
           x = y => x = NoSem,
           x # NoSem => ~k.sems[x].used /\ l.sems[x].used /\ l.sems[x].value = 0,
           y # NoSem => ~k.sems[y].used /\ l.sems[y].used /\ l.sems[y].value = BUFFER_SIZE
    PROVE  DataOK(l.streams, l.sems)
<1>1. InOrder(st)
  <2>1. InOrder(k.streams[r])
    BY DEF DataOK
  <2> QED
    BY <2>1 DEF InOrder, SameBytes
<1>2. st.dataAvailable = 0 /\ ~st.eof
  <2>1. k.streams[r].sent = 0 /\ ~k.streams[r].eof
    BY DEF DataOK
  <2>2. Len(k.streams[r].got) \in Nat /\ Len(k.streams[r].got) <= k.streams[r].sent
        /\ k.streams[r].dataAvailable = k.streams[r].sent - Len(k.streams[r].got)
    BY KernelFields, StreamFields DEF DataOK, InOrder
  <2> QED
    BY <2>1, <2>2
<1>3. SemIdsOf(st) = {x, y} \ {NoSem}
  BY DEF SemIdsOf
<1>4. Counts(st, l.sems)
  <2>1. \A s \in SemIdsOf(st) : l.sems[s].used
    BY <1>3
  <2>2. y # NoSem => l.sems[y].value + st.dataAvailable = BUFFER_SIZE
    BY <1>2, PipesAssumption
  <2>3. x # NoSem => l.sems[x].value >= st.dataAvailable /\ l.sems[x].value = st.dataAvailable
    BY <1>2
  <2> QED
    BY <1>2, <2>1, <2>2, <2>3 DEF Counts
<1>5. ASSUME NEW t \in Streams, t # r, HasEnd(l.streams[t])
      PROVE  /\ Counts(l.streams[t], l.sems) /\ SemIdsOf(l.streams[t]) \subseteq SemIds
             /\ \A s \in SemIdsOf(l.streams[t]) : k.sems[s].used
  <2> DEFINE u == k.streams[t]
  <2>1. u = l.streams[t] /\ Counts(u, k.sems)
    BY <1>5 DEF DataOK
  <2>2. u.readSem \in SemIds \cup {NoSem} /\ u.writeSem \in SemIds \cup {NoSem}
        /\ SemIdsOf(u) \subseteq SemIds
    BY KernelFields, StreamFields
  <2> HIDE DEF u
  <2>3. \A s \in SemIdsOf(u) : k.sems[s].used /\ l.sems[s] = k.sems[s]
    BY <2>1, <2>2 DEF Counts
  <2>4. u.readSem # NoSem => u.readSem \in SemIdsOf(u)
    BY DEF SemIdsOf
  <2>5. u.writeSem # NoSem => u.writeSem \in SemIdsOf(u)
    BY DEF SemIdsOf
  <2>6. Counts(u, l.sems)
    BY <2>1, <2>3, <2>4, <2>5 DEF Counts
  <2> QED
    BY <2>1, <2>2, <2>3, <2>6
<1>6. \A t \in Streams : InOrder(l.streams[t])
  BY <1>1 DEF DataOK
<1>7. \A t \in Streams : HasEnd(l.streams[t]) => Counts(l.streams[t], l.sems)
  BY <1>4, <1>5
<1>8. ASSUME NEW t \in Streams, NEW u \in Streams, HasEnd(l.streams[t]), HasEnd(l.streams[u]),
             t # u
      PROVE  SemIdsOf(l.streams[t]) \cap SemIdsOf(l.streams[u]) = {}
  <2>1. CASE t = r
    BY <1>3, <1>5, <1>8, <2>1
  <2>2. CASE u = r
    BY <1>3, <1>5, <1>8, <2>2
  <2>3. CASE t # r /\ u # r
    BY <1>8, <2>3 DEF DataOK
  <2> QED
    BY <2>1, <2>2, <2>3
<1>9. \A t \in Streams : l.streams[t].status = "fresh" => l.streams[t].sent = 0 /\ ~l.streams[t].eof
  BY DEF DataOK
<1> QED
  BY <1>6, <1>7, <1>8, <1>9 DEF DataOK

\* What createPipe returns: nothing, or the two open ends of a new stream.
PipeOf(l, ends) ==
    \/ ends = <<NoFD, NoFD>>
    \/ \E a, b \in FDs, r \in Streams :
          /\ a # b /\ ends = <<a, b>>
          /\ l.fds[a].resource = r /\ l.fds[b].resource = r
          /\ l.fds[a].mode = "R" /\ l.fds[b].mode = "W"
          /\ l.fds[a].isOpen /\ l.fds[b].isOpen
          /\ l.streams[r].status = "live"
          /\ l.streams[r].readers = 1 /\ l.streams[r].writers = 1

\* The last lines of createPipe: the stream r and the descriptors a and b are filled in.
LEMMA PipeFilled ==
    ASSUME NEW k \in KernelType, NEW r \in Streams, NEW a \in FDs, NEW b \in FDs, a # b,
           k.fds[a].isOpen, k.fds[b].isOpen, NEW new \in Stream
    PROVE  LET l == ModeInto(ResInto(ModeInto(ResInto(WithStream(k, r, new), a, r), a, "R"),
                                     b, r), b, "W")
           IN  /\ l \in KernelType /\ l.sems = k.sems /\ l.state = k.state
               /\ l.streams[r] = new /\ \A t \in Streams : t # r => l.streams[t] = k.streams[t]
               /\ l.fds[a].resource = r /\ l.fds[b].resource = r
               /\ l.fds[a].mode = "R" /\ l.fds[b].mode = "W"
               /\ l.fds[a].isOpen /\ l.fds[b].isOpen
<1> DEFINE l0 == WithStream(k, r, new)
           l1 == ResInto(l0, a, r)
           l2 == ModeInto(l1, a, "R")
           l3 == ResInto(l2, b, r)
           l4 == ModeInto(l3, b, "W")
<1>1. OnlyStream(k, l0, r) /\ l0.streams[r] = new
  BY StreamReplaced
<1>2. l0 \in KernelType
  BY <1>1 DEF OnlyStream
<1> HIDE DEF l0
<1>3. OnlyFD(l0, l1, a) /\ l1.fds[a].resource = r /\ l1.fds[a].isOpen = l0.fds[a].isOpen
  BY <1>2, FDMarked
<1>4. l1 \in KernelType
  BY <1>3 DEF OnlyFD
<1> HIDE DEF l1
<1>5. /\ OnlyFD(l1, l2, a) /\ l2.fds[a].mode = "R" /\ l2.fds[a].isOpen = l1.fds[a].isOpen
      /\ l2.fds[a].resource = l1.fds[a].resource
  BY <1>4, FDMarked
<1>6. l2 \in KernelType
  BY <1>5 DEF OnlyFD
<1> HIDE DEF l2
<1>7. OnlyFD(l2, l3, b) /\ l3.fds[b].resource = r /\ l3.fds[b].isOpen = l2.fds[b].isOpen
  BY <1>6, FDMarked
<1>8. l3 \in KernelType
  BY <1>7 DEF OnlyFD
<1> HIDE DEF l3
<1>9. /\ OnlyFD(l3, l4, b) /\ l4.fds[b].mode = "W" /\ l4.fds[b].isOpen = l3.fds[b].isOpen
      /\ l4.fds[b].resource = l3.fds[b].resource
  BY <1>8, FDMarked
<1> HIDE DEF l4
<1>10. /\ l4 \in KernelType /\ l4.sems = k.sems /\ l4.state = k.state /\ l4.streams = l0.streams
       /\ l4.fds[a] = l2.fds[a] /\ l2.fds[b] = k.fds[b] /\ l0.fds[a] = k.fds[a]
  BY <1>1, <1>3, <1>5, <1>7, <1>9 DEF OnlyFD, OnlyStream
<1>11. /\ l4.fds[a].resource = r /\ l4.fds[b].resource = r
       /\ l4.fds[a].mode = "R" /\ l4.fds[b].mode = "W"
       /\ l4.fds[a].isOpen /\ l4.fds[b].isOpen
  BY <1>3, <1>5, <1>7, <1>9, <1>10
<1>12. l4.streams[r] = new /\ \A t \in Streams : t # r => l4.streams[t] = k.streams[t]
  BY <1>1, <1>10 DEF OnlyStream
<1> QED
  BY <1>10, <1>11, <1>12 DEF l0, l1, l2, l3, l4

\* The fields createPipe gives to a stream
MadeLive(st, x, y) == [st EXCEPT !.status = "live", !.readers = 1, !.writers = 1,
                                 !.readSem = x, !.writeSem = y]

\* ... and those it leaves alone
LEMMA MadeLiveIs ==
    ASSUME NEW st \in Stream, NEW x \in SemIds \cup {NoSem}, NEW y \in SemIds \cup {NoSem},
           NEW new, new = MadeLive(st, x, y)
    PROVE  /\ new \in Stream /\ new.status = "live" /\ new.readers = 1 /\ new.writers = 1
           /\ new.readSem = x /\ new.writeSem = y /\ new.eof = st.eof
           /\ new.buffer = st.buffer /\ new.readPos = st.readPos
           /\ new.writePos = st.writePos /\ SameBytes(st, new)
           /\ new.dataAvailable = st.dataAvailable
<1> DEFINE a == [st EXCEPT !.status = "live"]
           b == [a EXCEPT !.readers = 1]
           c == [b EXCEPT !.writers = 1]
           d == [c EXCEPT !.readSem = x]
           e == [d EXCEPT !.writeSem = y]
<1>1. a \in Stream /\ a.status = "live"
  BY DEF Stream
<1>2. b \in Stream /\ b.readers = 1
  <2> HIDE DEF a
  <2>1. a \in Stream /\ 1 \in Int
    BY <1>1
  <2>2. b \in Stream
    BY <2>1 DEF Stream
  <2>3. b.readers = 1
    BY <2>1 DEF Stream
  <2> QED
    BY <2>2, <2>3
<1>3. c \in Stream /\ c.writers = 1
  <2> HIDE DEF b
  <2> QED
    BY <1>2 DEF Stream
<1>4. d \in Stream /\ d.readSem = x
  <2> HIDE DEF c
  <2> QED
    BY <1>3 DEF Stream
<1>5. e \in Stream /\ e.writeSem = y
  <2> HIDE DEF d
  <2> QED
    BY <1>4 DEF Stream
<1>6. MadeLive(st, x, y) = e
  BY Zenon DEF MadeLive
<1>7. /\ e.status = a.status /\ e.readers = b.readers /\ e.writers = c.writers
      /\ e.readSem = d.readSem /\ e.eof = st.eof
      /\ e.buffer = st.buffer /\ e.readPos = st.readPos
      /\ e.writePos = st.writePos /\ SameBytes(st, e)
      /\ e.dataAvailable = st.dataAvailable
  BY DEF Stream, SameBytes
<1> HIDE DEF a, b, c, d, e
<1> QED
  BY <1>1, <1>2, <1>3, <1>4, <1>5, <1>6, <1>7

\* createPipe keeps the other streams in order, and opens a new one or takes at most a slot.
LEMMA CreatePipeEffect ==
    ASSUME NEW k \in KernelType, DataOK(k.streams, k.sems), cpu \in PIDs,
           \E i \in Streams : k.streams[i].status = "fresh"
    PROVE  LET made == createPipe(k)
           IN  /\ made.kernel \in KernelType /\ SameLives(k.state, made.kernel.state)
               /\ DataOK(made.kernel.streams, made.kernel.sems)
               /\ PipeOf(made.kernel, made.fds)
<1> DEFINE first  == getAvailableFD(k)
           second == getAvailableFD(first.kernel)
           fd1    == first.fd
           fd2    == second.fd
           k2     == second.kernel
           R      == {i \in Streams : k.streams[i].status = "fresh"}
           r      == Min(R)
           reads  == semCreate(k2, itoa(fd1), 0)
           writes == semCreate(reads.kernel, itoa(fd2), BUFFER_SIZE)
           k4     == writes.kernel
           made   == createPipe(k)
           x      == reads.id
           y      == writes.id
           old    == k4.streams[r]
           new    == [old EXCEPT !.status = "live", !.readers = 1, !.writers = 1,
                                 !.readSem = x, !.writeSem = y]
           l      == [k4 EXCEPT !.streams[r] = new,
                                !.fds[fd1].resource = r, !.fds[fd1].mode = "R",
                                !.fds[fd2].resource = r, !.fds[fd2].mode = "W"]
<1>1. made = IF fd1 = NoFD \/ fd2 = NoFD THEN [kernel |-> k2, fds |-> <<NoFD, NoFD>>]
             ELSE [kernel |-> l, fds |-> <<fd1, fd2>>]
  BY Zenon DEF createPipe
<1>2. \/ fd1 = NoFD /\ first.kernel = k
      \/ /\ fd1 \in FDs /\ ~k.fds[fd1].isOpen
         /\ OnlyFD(k, first.kernel, fd1) /\ first.kernel.fds[fd1].isOpen
  BY GotFD
<1> HIDE DEF first
<1>3. first.kernel \in KernelType
  BY <1>2 DEF OnlyFD
<1>4. \/ fd2 = NoFD /\ k2 = first.kernel
      \/ /\ fd2 \in FDs /\ ~first.kernel.fds[fd2].isOpen
         /\ OnlyFD(first.kernel, k2, fd2) /\ k2.fds[fd2].isOpen
  BY <1>3, GotFD
<1> HIDE DEF second
<1>5. /\ k2 \in KernelType /\ k2.streams = k.streams /\ k2.sems = k.sems /\ k2.state = k.state
  BY <1>2, <1>3, <1>4 DEF OnlyFD
<1>6. CASE fd1 = NoFD \/ fd2 = NoFD
  <2>1. made = [kernel |-> k2, fds |-> <<NoFD, NoFD>>]
    BY <1>1, <1>6
  <2> HIDE DEF made
  <2>2. made.kernel = k2 /\ made.fds = <<NoFD, NoFD>>
    BY <2>1
  <2> HIDE DEF k2
  <2> QED
    BY <1>5, <2>2 DEF PipeOf, SameLives, made
<1>7. CASE fd1 # NoFD /\ fd2 # NoFD
  <2>1. made = [kernel |-> l, fds |-> <<fd1, fd2>>]
    BY <1>1, <1>7
  <2>2. /\ fd1 \in FDs /\ fd2 \in FDs /\ fd1 # fd2
        /\ k2.fds[fd1].isOpen /\ k2.fds[fd2].isOpen
    BY <1>2, <1>4, <1>7 DEF OnlyFD
  <2>3. r \in Streams /\ k.streams[r].status = "fresh"
    <3>1. R \subseteq Nat /\ R # {}
      BY DEF Streams
    <3>2. r \in R
      <4> HIDE DEF R
      <4> QED
        BY <3>1, MinInSet
    <3> QED
      BY <3>2
  <2>4. itoa(fd1) \in Names /\ itoa(fd2) \in Names /\ 0 \in Nat /\ BUFFER_SIZE \in Nat
    BY <2>2, PipeNamesAssumption, PipesAssumption
  <2> HIDE DEF R, r, fd1, fd2, k2
  <2>5. \/ x = NoSem /\ reads.kernel = k2
        \/ /\ x \in SemIds /\ ~k2.sems[x].used
           /\ OnlySem(k2, reads.kernel, x) /\ reads.kernel.locked = k2.locked
           /\ reads.kernel.sems[x].used /\ reads.kernel.sems[x].value = 0
    BY <1>5, <2>4, SemCreated
  <2> HIDE DEF reads
  <2> DEFINE k3 == reads.kernel
  <2>6. /\ k3 \in KernelType /\ k3.fds = k2.fds /\ k3.streams = k2.streams
        /\ SameLives(k2.state, k3.state)
        /\ x \in SemIds \cup {NoSem} /\ \A s \in SemIds : s # x => k3.sems[s] = k2.sems[s]
    BY <1>5, <2>5 DEF OnlySem, SameLives
  <2>7. \/ y = NoSem /\ writes.kernel = k3
        \/ /\ y \in SemIds /\ ~k3.sems[y].used
           /\ OnlySem(k3, writes.kernel, y) /\ writes.kernel.locked = k3.locked
           /\ writes.kernel.sems[y].used /\ writes.kernel.sems[y].value = BUFFER_SIZE
    BY <2>4, <2>6, SemCreated
  <2> HIDE DEF writes
  <2>8. /\ k4 \in KernelType /\ k4.fds = k3.fds /\ k4.streams = k3.streams
        /\ SameLives(k3.state, k4.state)
        /\ y \in SemIds \cup {NoSem} /\ \A s \in SemIds : s # y => k4.sems[s] = k3.sems[s]
    BY <2>6, <2>7 DEF OnlySem, SameLives
  <2>9. /\ x = y => x = NoSem
        /\ x # NoSem => ~k.sems[x].used /\ k4.sems[x].used /\ k4.sems[x].value = 0
        /\ y # NoSem => ~k.sems[y].used /\ k4.sems[y].used /\ k4.sems[y].value = BUFFER_SIZE
        /\ \A s \in SemIds : k.sems[s].used => k4.sems[s] = k.sems[s]
    <3>1. x = y => x = NoSem
      BY <2>5, <2>7
    <3>2. x # NoSem => ~k.sems[x].used /\ k4.sems[x].used /\ k4.sems[x].value = 0
      BY <1>5, <2>5, <2>8, <3>1
    <3>3. y # NoSem => ~k.sems[y].used /\ k4.sems[y].used /\ k4.sems[y].value = BUFFER_SIZE
      BY <1>5, <2>6, <2>7, <3>1
    <3>4. \A s \in SemIds : k.sems[s].used => s # x /\ s # y
      <4>1. \A s \in SemIds : s # NoSem
        BY DEF SemIds
      <4> QED
        BY <3>2, <3>3, <4>1
    <3> QED
      BY <1>5, <2>6, <2>8, <3>1, <3>2, <3>3, <3>4
  <2>10. old \in Stream /\ old = k.streams[r]
    BY <1>5, <2>3, <2>6, <2>8, KernelFields
  <2> HIDE DEF x, y, k3, k4, old
  <2>11. new \in Stream /\ new.status = "live" /\ new.readers = 1 /\ new.writers = 1
         /\ new.readSem = x /\ new.writeSem = y /\ new.eof = old.eof /\ new.buffer = old.buffer
         /\ new.readPos = old.readPos /\ new.writePos = old.writePos
         /\ SameBytes(old, new) /\ new.dataAvailable = old.dataAvailable
    <3>1. x \in SemIds \cup {NoSem} /\ y \in SemIds \cup {NoSem} /\ old \in Stream
      BY <2>6, <2>8, <2>10
    <3> HIDE DEF new
    <3>2. new = MadeLive(old, x, y)
      BY Zenon DEF MadeLive, new
    <3> QED
      BY <3>1, <3>2, MadeLiveIs
  <2> HIDE DEF new
  <2> DEFINE put == WithStream(k4, r, new)
  <2>12. l = ModeInto(ResInto(ModeInto(ResInto(put, fd1, r), fd1, "R"), fd2, r), fd2, "W")
    <3>1. StreamInto(k4, r, new) = put
      BY <2>8 DEF StreamInto, WithStream, KernelType
    <3> HIDE DEF put
    <3>2. l = ModeInto(ResInto(ModeInto(ResInto(StreamInto(k4, r, new), fd1, r), fd1, "R"),
                               fd2, r), fd2, "W")
      BY Zenon DEF StreamInto, ResInto, ModeInto
    <3> QED
      BY <3>1, <3>2, Zenon
  <2>13. k4.fds[fd1].isOpen /\ k4.fds[fd2].isOpen
    BY <2>2, <2>6, <2>8
  <2>14. /\ l \in KernelType /\ l.sems = k4.sems /\ l.state = k4.state
         /\ l.streams[r] = new /\ \A t \in Streams : t # r => l.streams[t] = k4.streams[t]
         /\ l.fds[fd1].resource = r /\ l.fds[fd2].resource = r
         /\ l.fds[fd1].mode = "R" /\ l.fds[fd2].mode = "W"
         /\ l.fds[fd1].isOpen /\ l.fds[fd2].isOpen
    <3> HIDE DEF l
    <3> QED
      BY <2>2, <2>3, <2>8, <2>11, <2>12, <2>13, PipeFilled
  <2> HIDE DEF l
  <2>15. \A t \in Streams : t # r => l.streams[t] = k.streams[t]
    BY <1>5, <2>6, <2>8, <2>14
  <2>16. DataOK(l.streams, l.sems)
    <3>1. \A s \in SemIds : k.sems[s].used => l.sems[s] = k.sems[s]
      BY <2>9, <2>14
    <3>2. /\ x # NoSem => ~k.sems[x].used /\ l.sems[x].used /\ l.sems[x].value = 0
          /\ y # NoSem => ~k.sems[y].used /\ l.sems[y].used /\ l.sems[y].value = BUFFER_SIZE
      BY <2>9, <2>14
    <3> QED
      BY <2>3, <2>6, <2>8, <2>9, <2>10, <2>11, <2>14, <2>15, <3>1, <3>2, StreamOpened
  <2>17. SameLives(k.state, l.state)
    BY <1>5, <2>6, <2>8, <2>14 DEF SameLives
  <2>18. PipeOf(l, <<fd1, fd2>>)
    BY <2>2, <2>3, <2>11, <2>14 DEF PipeOf
  <2> HIDE DEF made
  <2>19. made.kernel = l /\ made.fds = <<fd1, fd2>>
    BY <2>1
  <2> QED
    BY <2>14, <2>16, <2>17, <2>18, <2>19 DEF made
<1> QED
  BY <1>6, <1>7

\* execute_pipe begins when nobody uses the pipe of the pipeline before.
LEMMA OpenPipeStep ==
    ASSUME PipeInv, OpenPipe, Nobody
    PROVE  PipeInv'
<1>1. /\ PipeTypeOK /\ DataOK(streams, sems) /\ SHELLPID \in PIDs /\ Users \subseteq PIDs
      /\ Kernel \in KernelType /\ cpu \in PIDs
      /\ Kernel.fds = fileDescriptors /\ Kernel.streams = streams /\ Kernel.sems = sems
      /\ Kernel.state = state
  BY PipelinesAssumption, ProgramFields, KernelIs DEF PipeInv, PIDs, SHELLPID, Users
<1> DEFINE made == createPipe(Kernel)
           m    == made.kernel
           ends == made.fds
<1>2. /\ m \in KernelType /\ SameLives(state, m.state) /\ DataOK(m.streams, m.sems)
      /\ PipeOf(m, ends)
  <2>1. \E i \in Streams : streams[i].status = "fresh"
    BY DEF OpenPipe
  <2> QED
    BY <1>1, <2>1, CreatePipeEffect
<1>3. PICK u \in Lefts, v \in Rights, bg \in BOOLEAN :
        /\ shell' = [left |-> u, right |-> v, fds |-> ends, pid |-> NULL, bg |-> bg]
        /\ Goto(SHELLPID, IF ends[1] = NoFD THEN "prompt"
                          ELSE IF bg /\ ~AllowBackground(u) THEN "close0" ELSE "left")
  BY Zenon DEF OpenPipe
<1>4. /\ Install(m)
      /\ inWait' = inWait /\ prog' = prog /\ fds' = fds /\ left' = left /\ closing' = closing
      /\ foreground' = foreground /\ waitPid' = waitPid
  BY Zenon DEF OpenPipe
<1> HIDE DEF m, ends
<1>5. /\ Kernel' \in KernelType /\ cpu' \in PIDs /\ fileDescriptors' = m.fds
      /\ streams' = m.streams /\ sems' = m.sems /\ SameLives(m.state, state')
  BY <1>1, <1>2, <1>4, Installed
<1>6. ends \in Seq(Int)
  <2>1. <<NoFD, NoFD>> \in Seq(Int)
    BY DEF NoFD
  <2>2. \A a, b \in FDs : <<a, b>> \in Seq(Int)
    BY DEF FDs
  <2> QED
    BY <1>2, <2>1, <2>2 DEF PipeOf
<1>7. shell' \in [left : Programs, right : Programs, fds : Seq(Int), pid : PIDs \cup {NULL},
                  bg : BOOLEAN] /\ shell'.fds = ends
  <2>1. u \in Programs /\ v \in Programs
    BY PipelinesAssumption
  <2> QED
    BY <1>3, <1>6, <2>1
<1> DEFINE at == IF ends[1] = NoFD THEN "prompt"
                 ELSE IF bg /\ ~AllowBackground(u) THEN "close0" ELSE "left"
<1>8. /\ pc' = [pc EXCEPT ![SHELLPID] = at] /\ at \in Points
      /\ ends[1] = NoFD => at = "prompt"
      /\ ends[1] # NoFD => at \in {"close0", "left"}
  BY <1>3 DEF Goto, Points
<1> HIDE DEF at
<1>9. pc' \in [PIDs -> Points] /\ pc'[SHELLPID] = at
  BY <1>1, <1>8, ProgramFields
<1>10. PipeTypeOK'
  BY <1>1, <1>4, <1>5, <1>7, <1>9 DEF PipeTypeOK
<1>11. \A q \in Users : ~Alive(q)'
  BY <1>1, <1>2, <1>5 DEF SameLives, Nobody, Alive
<1>12. Nobody' /\ HeldOK' /\ ProgramsOK'
  BY <1>11 DEF Nobody, HeldOK, ProgramsOK, Writer, Reader
<1>13. ReadFD' = ends[1] /\ WriteFD' = ends[2]
  BY <1>7 DEF ReadFD, WriteFD
<1>14. CASE ends = <<NoFD, NoFD>>
  <2>1. ~Opened' /\ pc'[SHELLPID] = "prompt"
    BY <1>8, <1>9, <1>13, <1>14 DEF Opened
  <2>2. HoldersOK'
    BY <1>12, <2>1 DEF HoldersOK, ShellOK
  <2> QED
    BY <1>2, <1>5, <1>10, <2>2 DEF PipeInv
<1>15. CASE ends # <<NoFD, NoFD>>
  <2>1. PICK a \in FDs, b \in FDs, r \in Streams :
          /\ a # b /\ ends = <<a, b>>
          /\ m.fds[a].resource = r /\ m.fds[b].resource = r
          /\ m.fds[a].mode = "R" /\ m.fds[b].mode = "W"
          /\ m.fds[a].isOpen /\ m.fds[b].isOpen
          /\ m.streams[r].status = "live"
          /\ m.streams[r].readers = 1 /\ m.streams[r].writers = 1
    BY <1>2, <1>15 DEF PipeOf
  <2>2. ReadFD' = a /\ WriteFD' = b /\ a # NoFD /\ Pipe' = r
    BY <1>5, <1>13, <2>1 DEF FDs, NoFD, Pipe
  <2>3. Opened' /\ EndsOK' /\ ReadOpen' /\ WriteOpen' /\ pc'[SHELLPID] \in {"close0", "left"}
    BY <1>5, <1>8, <1>9, <1>13, <2>1, <2>2 DEF Opened, EndsOK, ReadOpen, WriteOpen
  <2>4. ShellOK'
    BY <1>5, <1>12, <2>1, <2>2, <2>3 DEF ShellOK
  <2> QED
    BY <1>2, <1>5, <1>10, <1>12, <2>3, <2>4 DEF PipeInv, HoldersOK
<1> QED
  BY <1>14, <1>15

-----------------------------------------------------------------------------
(***************************************************************************)
(* The invariant                                                           *)
(***************************************************************************)

\* An empty stream is in order.
LEMMA EmptyInOrder ==
    ASSUME NEW st, st.got = << >>, st.sent = 0, st.dataAvailable = 0,
           st.readPos = 0, st.writePos = 0
    PROVE  InOrder(st)
<1>1. 0 % BUFFER_SIZE = 0
  <2>1. 0 = BUFFER_SIZE * 0 + 0
    BY PipesAssumption
  <2> QED
    BY <2>1, RemainderIs, PipesAssumption
<1>2. Len(st.got) = 0 /\ DOMAIN st.got = {} /\ st.sent = 0 /\ st.dataAvailable = 0
  OBVIOUS
<1>3. (Len(st.got) + 1)..st.sent = {} /\ st.dataAvailable = st.sent - Len(st.got)
      /\ Len(st.got) <= st.sent
  <2>1. (0 + 1)..0 = {} /\ 0 = 0 - 0 /\ 0 <= 0
    OBVIOUS
  <2> QED
    BY <1>2, <2>1
<1>4. /\ st.readPos = Len(st.got) % BUFFER_SIZE /\ st.writePos = st.sent % BUFFER_SIZE
  BY <1>1, <1>2, Zenon
<1> QED
  BY <1>2, <1>3, <1>4 DEF InOrder

\* The invariant holds before the first command.
LEMMA PipesBegin ==
    ASSUME PipelinesInit
    PROVE  PipeInv
<1>1. SHELLPID \in PIDs /\ SHELLPID \notin Users /\ INITPID \notin Users /\ Users \subseteq PIDs
  BY PipelinesAssumption DEF SHELLPID, PIDs, Users
<1>2. state \in [PIDs -> States] /\ cpu \in PIDs /\ \A q \in Users : ~Alive(q)
  BY <1>1 DEF PipelinesInit, States, Alive
<1>3. sems \in [SemIds -> CountedSem] /\ inWait \in [PIDs -> SemIds \cup {NoSem}]
  <2>1. initSemManager
    BY DEF PipelinesInit
  <2> QED
    BY <2>1, NamesAssumption DEF initSemManager, CountedSem, Sem, Chars
<1>4. /\ fileDescriptors \in [FDs -> FD] /\ locked \in SUBSET SemIds
      /\ \A r \in Streams :
           /\ streams[r] \in Stream /\ ~HasEnd(streams[r]) /\ InOrder(streams[r])
           /\ streams[r].sent = 0 /\ ~streams[r].eof
      /\ streams \in [Streams -> Stream]
  <2>1. initFileDescriptors
    BY DEF PipelinesInit
  <2>2. fileDescriptors \in [FDs -> FD] /\ locked \in SUBSET SemIds
    BY <2>1 DEF initFileDescriptors, FD
  <2> DEFINE buf == [i \in Cells |-> Junk]
             st  == [status |-> "fresh", buffer |-> buf,
                     readPos |-> 0, writePos |-> 0, dataAvailable |-> 0, eof |-> FALSE,
                     readers |-> 0, writers |-> 0, readSem |-> NoSem, writeSem |-> NoSem,
                     sent |-> 0, got |-> << >>]
  <2>3. streams = [r \in Streams |-> st]
    BY <2>1 DEF initFileDescriptors
  <2>4. buf \in [Cells -> Nat] /\ 0 \in Cells /\ << >> \in Seq(Nat)
    BY PipesAssumption DEF Junk, Cells
  <2> HIDE DEF buf
  <2>5. st \in Stream
    BY <2>4 DEF Stream
  <2>6. /\ st.got = << >> /\ st.sent = 0 /\ st.dataAvailable = 0
        /\ st.readPos = 0 /\ st.writePos = 0 /\ ~st.eof /\ st.readers = 0 /\ st.writers = 0
    OBVIOUS
  <2> HIDE DEF st
  <2>7. InOrder(st) /\ ~HasEnd(st)
    BY <2>6, EmptyInOrder DEF HasEnd
  <2> QED
    BY <2>2, <2>3, <2>5, <2>6, <2>7
<1>5. Kernel \in KernelType
  BY <1>2, <1>3, <1>4 DEF Kernel, KernelType
<1>6. /\ pc \in [PIDs -> Points] /\ prog \in [PIDs -> Programs]
      /\ fds \in [PIDs -> Seq(Int)] /\ closing \in [PIDs -> Seq(Int)]
      /\ left \in [PIDs -> Int]
      /\ foreground \in [PIDs -> BOOLEAN] /\ waitPid \in [PIDs -> PIDs \cup {NULL}]
      /\ pc[SHELLPID] = "prompt"
  <2>1. pc \in [PIDs -> Points] /\ pc[SHELLPID] = "prompt"
    BY <1>1 DEF PipelinesInit, Points
  <2>2. prog \in [PIDs -> Programs]
    BY DEF PipelinesInit, Programs
  <2>3. fds \in [PIDs -> Seq(Int)]
    <3>1. <<STDIN, STDOUT>> \in Seq(Int)
      BY DEF STDIN, STDOUT
    <3> QED
      BY <3>1 DEF PipelinesInit
  <2>4. closing \in [PIDs -> Seq(Int)]
    <3>1. << >> \in Seq(Int)
      OBVIOUS
    <3> QED
      BY <3>1 DEF PipelinesInit
  <2>5. left \in [PIDs -> Int]
    BY DEF PipelinesInit
  <2>6. foreground \in [PIDs -> BOOLEAN]
    BY DEF PipelinesInit
  <2>7. waitPid \in [PIDs -> PIDs \cup {NULL}]
    BY DEF PipelinesInit
  <2> QED
    BY <2>1, <2>2, <2>3, <2>4, <2>5, <2>6, <2>7
<1>7. /\ shell \in [left : Programs, right : Programs, fds : Seq(Int), pid : PIDs \cup {NULL},
                    bg : BOOLEAN]
      /\ shell.fds[1] = NoFD
  <2>1. <<NoFD, NoFD>> \in Seq(Int) /\ "counter" \in Programs /\ "cat" \in Programs
    BY DEF NoFD, Programs
  <2> QED
    BY <2>1 DEF PipelinesInit
<1>8. PipeTypeOK
  BY <1>2, <1>3, <1>5, <1>6, <1>7 DEF PipeTypeOK
<1>9. DataOK(streams, sems)
  BY <1>4 DEF DataOK
<1>10. HoldersOK
  <2>1. ~Opened /\ Nobody
    BY <1>2, <1>7 DEF Opened, ReadFD, Nobody
  <2> QED
    BY <1>6, <2>1 DEF HoldersOK, ShellOK
<1> QED
  BY <1>8, <1>9, <1>10 DEF PipeInv

\* Every step of the shell, of a program, of Ctrl-C and of the timer keeps the invariant.
LEMMA PipesStep ==
    ASSUME PipeInv, PipeHasSemaphores, [PipelinesNext]_allVars,
           [OpenPipe => \A p \in Users : ~Alive(p)]_allVars
    PROVE  PipeInv'
<1>1. CASE OpenPipe
  <2>1. CASE UNCHANGED allVars
    BY <2>1, TurnStep
  <2>2. CASE \A p \in Users : ~Alive(p)
    BY <1>1, <2>2, OpenPipeStep DEF Nobody
  <2> QED
    BY <1>1, <2>1, <2>2
<1>2. CASE ExecutePipe
  BY <1>2, CreateLeftStep, CreateLeftFailsStep, CreateRightStep, CreateRightFailsStep,
     ClosePipeStep, WaitLeftStep DEF ExecutePipe
<1>3. CASE KillCommand
  BY <1>3, KillCommandStep
<1>4. CASE CtrlC
  BY <1>4, CtrlCStep
<1>5. CASE Turn \/ Hang \/ UNCHANGED allVars
  BY <1>5, TurnStep DEF Hang
<1>6. ASSUME NEW p \in Users, ProgramStep(p)
      PROVE  PipeInv'
  BY <1>6, ReadByteStep, WriteCallStep, WriteByteStep, FinishStep, CloseCallStep, ExitStep
     DEF ProgramStep
<1> QED
  BY <1>1, <1>2, <1>3, <1>4, <1>5, <1>6 DEF PipelinesNext

\* Types, bytes, units and who holds which end: the invariant the properties follow from,
\* while the user starts one pipeline at a time and each pipe got its two semaphores.
THEOREM PipesInvariant == PipelinesSpec /\ OneAtATime /\ []PipeHasSemaphores => []PipeInv
<1>1. PipelinesInit => PipeInv
  BY PipesBegin
<1>2. /\ PipeInv /\ PipeHasSemaphores /\ [PipelinesNext]_allVars
      /\ [OpenPipe => \A p \in Users : ~Alive(p)]_allVars
      => PipeInv'
  BY PipesStep
<1> QED
  BY <1>1, <1>2, PTL DEF PipelinesSpec, OneAtATime

\* The units of writeSem and the bytes in the buffer always make up BUFFER_SIZE, those of
\* readSem are the bytes until the end of the file: through every semWait, semPost and
\* closeFD, kills and exits cut off by a tick included.
THEOREM UnitsAlwaysMatch ==
    PipelinesSpec /\ OneAtATime /\ []PipeHasSemaphores => []UnitsMatchData
<1>1. PipeInv => UnitsMatchData
  BY DEF PipeInv, DataOK, Counts, UnitsMatchData
<1> QED
  BY <1>1, PipesInvariant, PTL

\* What a pipe delivers is what was written to it, in order and without gaps.
THEOREM AlwaysReadInOrder ==
    PipelinesSpec /\ OneAtATime /\ []PipeHasSemaphores => []ReadInOrder
<1>1. PipeInv => ReadInOrder
  BY DEF PipeInv, DataOK, InOrder, ReadInOrder
<1> QED
  BY <1>1, PipesInvariant, PTL

\* A reader that was told of the end of the file has read all that was written, and the
\* write end is closed.
THEOREM EofAlwaysFinal ==
    PipelinesSpec /\ OneAtATime /\ []PipeHasSemaphores => []EofIsFinal
<1>1. PipeInv => EofIsFinal
  <2> SUFFICES ASSUME PipeInv, NEW p \in Users, Reading(p), pc[p] \in {"close", "exit"}
               PROVE  LET st == streams[fileDescriptors[fds[p][1]].resource]
                      IN  Len(st.got) = st.sent /\ st.writers = 0
    BY DEF EofIsFinal
  <2>1. Alive(p) /\ Reads(prog[p]) /\ fds[p][1] \in FDs
    BY DEF Reading
  <2>2. Reader(p) /\ fds[p][1] = ReadFD /\ ProgramsOK
    BY <2>1, OwnEndIs DEF PipeInv
  <2>3. ReadAll
    BY <2>1, <2>2 DEF ProgramsOK
  <2> QED
    BY <2>2, <2>3 DEF ReadAll, Pipe
<1> QED
  BY <1>1, PipesInvariant, PTL
=============================================================================
