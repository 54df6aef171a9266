----------------------------- MODULE Semaphores -----------------------------
(***************************************************************************)
(* The semaphores of Kernel/semaphoreManager.c and the system calls that   *)
(* reach them, on top of the process states.  A system call runs with      *)
(* interrupts masked, so each operation is one action; semWait is cut in   *)
(* two where it blocks.  The spinlock of a semaphore is then never held    *)
(* between actions and needs no variable.                                  *)
(***************************************************************************)
EXTENDS ProcessStates, Sequences, FiniteSets, FiniteSetsExt, SequencesExt

CONSTANTS
    MAX_SEMS,           \* slots of the table
    NameLength,         \* bytes of a name field
    NulAfterTable,      \* whether the byte that follows the table is 0
    Names,              \* names programs use: sequences of characters
    Values,             \* values programs ask for, any int
    Workload,           \* operations programs make
    Callers,            \* processes that make them
    MaxValue,           \* bound on the value of a semaphore, also below 0
    MaxEntries          \* bound on the entries of a process in waiting queues

SemIds == 1..MAX_SEMS
NoSem  == 0
NUL    == "NUL"         \* the byte 0
ONE    == "ONE"         \* the byte 1, what a set openedBy flag holds

Chars  == {NUL, ONE} \cup UNION {Range(n) : n \in Names}

Operations == {"open", "close", "wait", "post", "destroy", "set",
               "block", "unblock", "kill", "start"}

ASSUME TablesAssumption == /\ MAX_PROCESSES \in Nat /\ MAX_PROCESSES >= 2
                           /\ MAX_SEMS \in Nat \ {0}
\* semCreate refuses longer names, and changes nothing
ASSUME NamesAssumption  == /\ NameLength \in Nat \ {0} /\ NulAfterTable \in BOOLEAN
                           /\ Names \subseteq Seq(STRING)
                           /\ \A n \in Names : Len(n) <= NameLength /\ NUL \notin Range(n)
ASSUME ValuesAssumption == /\ Values \subseteq Int
                           /\ MaxValue \in Nat
                           /\ MaxEntries \in Nat \ {0}
                           /\ Callers \subseteq PIDs \ {INITPID}
                           /\ Workload \subseteq Operations

VARIABLES sems,         \* the table
          inWait,       \* the semaphore whose semWait a process is inside of
          handle        \* what semOpen last returned to each program for each name

semVars == <<sems, inWait, handle>>
vars    == <<state, cpu, sems, inWait, handle>>

Sem == [used     : BOOLEAN,
        value    : Int,
        waiting  : Seq(PIDs),
        openedBy : [0..(MAX_PROCESSES - 1) -> BOOLEAN],
        name     : [1..NameLength -> Chars]]

-----------------------------------------------------------------------------
\* The C string in a name field that holds a NUL
String(field) == SubSeq(field, 1, Min({i \in DOMAIN field : field[i] = NUL}) - 1)

(***************************************************************************)
(* strcmp of the name field of slot s with a name.  A field without NUL    *)
(* goes on into the first byte of the value of the next semaphore, or into *)
(* what follows the table.                                                 *)
(***************************************************************************)
Spells(table, s, name) ==
    LET field == table[s].name
    IN  IF NUL \in Range(field) THEN String(field) = name
        ELSE /\ field = name
             /\ IF s < MAX_SEMS THEN table[s + 1].value % 256 = 0 ELSE NulAfterTable

Named(name) == {s \in SemIds : sems[s].used /\ Spells(sems, s, name)}

findSemByName(name) == IF Named(name) = {} THEN NoSem ELSE Min(Named(name))

FreeSems == {s \in SemIds : ~sems[s].used}

\* memcpy of strlen(name) bytes: no terminator, so what the field held beyond stays
Written(field, name) == [i \in DOMAIN field |-> IF i <= Len(name) THEN name[i] ELSE field[i]]

(***************************************************************************)
(* openedBy[getpid()]: PIDs run from 1 to MAX_PROCESSES and the array has  *)
(* MAX_PROCESSES elements, so the flag of the last PID is the first byte   *)
(* of the name, the field that follows it.                                 *)
(***************************************************************************)
Flagged(sem, p, on) ==
    IF p < MAX_PROCESSES
    THEN [sem EXCEPT !.openedBy[p] = on]
    ELSE [sem EXCEPT !.name[1] = IF on THEN ONE ELSE NUL]

HasOpened(sem, p) ==
    IF p < MAX_PROCESSES THEN sem.openedBy[p] ELSE sem.name[1] # NUL

Created(sem, p, name, value) ==
    Flagged([sem EXCEPT !.used = TRUE, !.value = value, !.waiting = << >>,
                        !.name = Written(sem.name, name),
                        !.openedBy = [i \in DOMAIN sem.openedBy |-> FALSE]], p, TRUE)

-----------------------------------------------------------------------------
\* The running process, not in the middle of a semWait, makes operation op
Calling(op) ==
    /\ op \in Workload
    /\ cpu \in Callers
    /\ inWait[cpu] = NoSem

\* Mutant: the semaphore is created without a search for its name
OpenSemAnew(name, value) ==
    /\ FreeSems # {}
    /\ sems' = [sems EXCEPT ![Min(FreeSems)] = Created(@, cpu, name, value)]
    /\ handle' = [handle EXCEPT ![cpu][name] = Min(FreeSems)]
    /\ UNCHANGED <<procVars, inWait>>

\* sys_sem_open: opens the semaphore of that name, or creates it
OpenSem(name, value) ==
    LET found == findSemByName(name)
        s     == IF found # NoSem THEN found ELSE Min(FreeSems)
    IN  /\ found # NoSem \/ FreeSems # {}
        /\ sems' = [sems EXCEPT ![s] = IF found # NoSem THEN Flagged(@, cpu, TRUE)
                                        ELSE Created(@, cpu, name, value)]
        /\ handle' = [handle EXCEPT ![cpu][name] = s]
        /\ UNCHANGED <<procVars, inWait>>

SemOpen ==
    /\ Calling("open")
    /\ \E name \in Names, value \in Values : OpenSem(name, value)

CloseSem(s) ==
    /\ sems[s].used /\ HasOpened(sems[s], cpu)
    /\ sems' = [sems EXCEPT ![s] = Flagged(@, cpu, FALSE)]
    /\ UNCHANGED <<procVars, inWait, handle>>

SemClose == Calling("close") /\ \E s \in SemIds : CloseSem(s)

\* Mutant: the value is not tested before it is decremented
TakeOrBlockUntested(s) ==
    /\ sems' = [sems EXCEPT ![s].value = @ - 1]
    /\ inWait' = [inWait EXCEPT ![cpu] = NoSem]
    /\ UNCHANGED <<procVars, handle>>

\* Mutant: the process is queued before the loop, not in it
TakeOrBlockOnce(s) ==
    /\ IF sems[s].value # 0
       THEN /\ sems' = [sems EXCEPT ![s].value = @ - 1]
            /\ inWait' = [inWait EXCEPT ![cpu] = NoSem]
            /\ UNCHANGED procVars
       ELSE /\ sems' = IF inWait[cpu] = NoSem
                       THEN [sems EXCEPT ![s].waiting = Append(@, cpu)] ELSE sems
            /\ inWait' = [inWait EXCEPT ![cpu] = s]
            /\ BlockSelf
    /\ UNCHANGED handle

(***************************************************************************)
(* The loop of semWait for the running process: it takes one unit, or      *)
(* queues itself and gives up the CPU.  The queue of a destroyed semaphore *)
(* is freed memory: an entry written there is never read back.             *)
(***************************************************************************)
TakeOrBlock(s) ==
    /\ IF sems[s].value # 0
       THEN /\ sems' = [sems EXCEPT ![s].value = @ - 1]
            /\ inWait' = [inWait EXCEPT ![cpu] = NoSem]
            /\ UNCHANGED procVars
       ELSE /\ sems' = IF sems[s].used
                       THEN [sems EXCEPT ![s].waiting = Append(@, cpu)] ELSE sems
            /\ inWait' = [inWait EXCEPT ![cpu] = s]
            /\ BlockSelf
    /\ UNCHANGED handle

WaitSem(s) == sems[s].used /\ TakeOrBlock(s)

SemWait ==
    /\ Calling("wait")
    /\ \E s \in SemIds : sems[s].value >= -MaxValue /\ WaitSem(s)

\* semWait back from blockProcess, interrupts still masked: used is not tested again
SemResume ==
    /\ cpu # NULL
    /\ inWait[cpu] # NoSem
    /\ TakeOrBlock(inWait[cpu])

\* Mutant: one entry of the queue is woken for the one unit
PostSemOne(s) ==
    LET w == sems[s].waiting
    IN  /\ sems[s].used
        /\ sems' = [sems EXCEPT ![s].value = @ + 1,
                                ![s].waiting = IF w = << >> THEN w ELSE Tail(w)]
        /\ Wake(IF w = << >> THEN {} ELSE {Head(w)})
        /\ UNCHANGED <<inWait, handle>>

\* semPost wakes every waiting process
PostSem(s) ==
    /\ sems[s].used
    /\ sems' = [sems EXCEPT ![s].value = @ + 1, ![s].waiting = << >>]
    /\ Wake(Range(sems[s].waiting))
    /\ UNCHANGED <<inWait, handle>>

SemPost ==
    /\ Calling("post")
    /\ \E s \in SemIds : sems[s].value < MaxValue /\ PostSem(s)

\* semDestroy wakes them too and frees the queue; programs drop their handles
DestroySem(s) ==
    /\ sems[s].used
    /\ sems' = [sems EXCEPT ![s].used = FALSE, ![s].waiting = << >>]
    /\ Wake(Range(sems[s].waiting))
    /\ handle' = [p \in PIDs |-> [n \in Names |->
                    IF handle[p][n] = s THEN NoSem ELSE handle[p][n]]]
    /\ UNCHANGED inWait

SemDestroy == Calling("destroy") /\ \E s \in SemIds : DestroySem(s)

\* semSetValue wakes as many entries of the queue as the value grew
SemSetValue ==
    /\ Calling("set")
    /\ \E s \in SemIds, v \in Values :
         LET w     == sems[s].waiting
             grown == v - sems[s].value
             n     == IF grown <= 0 THEN 0 ELSE IF grown < Len(w) THEN grown ELSE Len(w)
         IN  /\ sems[s].used /\ v >= 0
             /\ sems' = [sems EXCEPT ![s].value = v,
                                     ![s].waiting = SubSeq(w, n + 1, Len(w))]
             /\ Wake(Range(SubSeq(w, 1, n)))
    /\ UNCHANGED <<inWait, handle>>

-----------------------------------------------------------------------------
\* What other parts of the kernel do to a process, also to one inside semWait

\* Bound: p may come to queue itself once more
Room(p) ==
    \A s \in SemIds :
       Cardinality({i \in DOMAIN sems[s].waiting : sems[s].waiting[i] = p}) < MaxEntries

Block ==
    /\ Calling("block")
    /\ \/ BlockSelf
       \/ \E p \in PIDs : BlockOther(p)
    /\ UNCHANGED semVars

Unblock ==
    /\ Calling("unblock")
    /\ \E p \in PIDs : state[p] = "BLOCKED" /\ Room(p) /\ Wake({p})
    /\ UNCHANGED semVars

\* kill does not look at the semaphores: entries and flags of p stay
Kill ==
    /\ Calling("kill")
    /\ \E p \in PIDs :
         /\ End(p, {}) /\ (p = cpu => cpu' # cpu)
         /\ inWait' = [inWait EXCEPT ![p] = NoSem]
         /\ handle' = [handle EXCEPT ![p] = [n \in Names |-> NoSem]]
    /\ UNCHANGED sems

StartProcess ==
    /\ Calling("start")
    /\ \E p \in PIDs : Start(p) /\ Room(p)
    /\ UNCHANGED semVars

\* A tick ends the turn of a process that runs with interrupts enabled
Tick ==
    /\ cpu # NULL => inWait[cpu] = NoSem
    /\ Preempt
    /\ UNCHANGED semVars

\* initSemManager, and programs that have opened nothing yet
initSemManager ==
    /\ sems = [s \in SemIds |->
                 [used |-> FALSE, value |-> 0, waiting |-> << >>,
                  openedBy |-> [i \in 0..(MAX_PROCESSES - 1) |-> FALSE],
                  name |-> [i \in 1..NameLength |-> NUL]]]
    /\ inWait = [p \in PIDs |-> NoSem]
    /\ handle = [p \in PIDs |-> [n \in Names |-> NoSem]]

\* Init runs and the other processes were just created
Init ==
    /\ state = [p \in PIDs |-> IF p = INITPID THEN "RUNNING" ELSE "READY"]
    /\ cpu = INITPID
    /\ initSemManager

Next == \/ SemOpen \/ SemClose \/ SemWait \/ SemResume \/ SemPost
        \/ SemDestroy \/ SemSetValue
        \/ Block \/ Unblock \/ Kill \/ StartProcess \/ Tick

Spec == Init /\ [][Next]_vars

-----------------------------------------------------------------------------
(***************************************************************************)
(* Properties                                                              *)
(***************************************************************************)

\* Every variable keeps the type of the C declaration it models.
SemTypeOK ==
    /\ state \in [PIDs -> States]
    /\ cpu \in PIDs
    /\ sems \in [SemIds -> Sem]
    /\ inWait \in [PIDs -> SemIds \cup {NoSem}]
    /\ handle \in [PIDs -> [Names -> SemIds \cup {NoSem}]]

Sleeps(p, s) == inWait[p] = s /\ state[p] = "BLOCKED"

\* A process asleep in semWait can be found by whoever posts next: it is in the
\* waiting queue of its semaphore, although stale entries of killed or of
\* otherwise woken processes share the queue with it.
SleeperIsListed ==
    \A p \in PIDs, s \in SemIds : Sleeps(p, s) => p \in Range(sems[s].waiting)

\* No wake-up is lost: nobody sleeps on a semaphore that has units to take,
\* whatever the order of waits and posts, and whoever is killed in between.
NoLostWakeup ==
    \A p \in PIDs, s \in SemIds : Sleeps(p, s) => sems[s].value = 0

\* Only who creates a semaphore can make its value negative, for semCreate takes
\* any int: no wait, post, set or destruction, by whoever was woken in whatever
\* order, takes the value of a semaphore in use from 0 or more below 0.
NoneGoesNegative ==
    [][\A s \in SemIds : sems[s].used /\ sems[s].value >= 0 /\ sems'[s].used
                             => sems'[s].value >= 0]_vars

\* findSemByName, semaphoreManager.h:45, "Finds a semaphore by its name": programs
\* that open the same name share one semaphore, whatever was opened and destroyed
\* before.  It fails where a name as long as its field, a name shorter than what
\* its slot held, or the last PID is among those at work.
SameNameSameSem ==
    \A p, q \in PIDs, n \in Names :
       handle[p][n] # NoSem /\ handle[q][n] # NoSem => handle[p][n] = handle[q][n]
=============================================================================
