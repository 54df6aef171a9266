------------------------------ MODULE Scheduler ------------------------------
(***************************************************************************)
(* The process table and the scheduler of the kernel                       *)
(* (Kernel/process/process.c, Kernel/process/scheduler.c), with the    *)
(* two interrupts that act on them: the timer and Ctrl-C.                  *)
(*                                                                         *)
(* One CPU runs everything in ring 0.  Every gate of the IDT is an         *)
(* interrupt gate, so a system call runs with interrupts masked from its   *)
(* int 80h to its iretq or to the switch it forces itself: it is one       *)
(* action here.  A process that returns from its entry point is different: *)
(* processLoader calls kill directly, outside any gate, with interrupts    *)
(* enabled, so that path is a chain of actions with ticks between them.    *)
(* So is main of kernel.c from _sti on.  On both paths one call of         *)
(* queueADT is one action.                                                 *)
(***************************************************************************)
EXTENDS Integers, Sequences, FiniteSets, FiniteSetsExt, SequencesExt

CONSTANTS
    MAX_PROCESSES,      \* slots of the process table; a PID is a slot number
    MAX_PRIORITY,       \* queues of the scheduler, 5 in process.h
    DEFAULT_QUANTUM,    \* ticks of a turn beyond the first
    AGING_THRESHOLD,    \* passes over a waiting process until its boost grows
    MAX_AGING_BOOST,    \* largest boost
    ExitCodes,          \* values an entry point may return
    Modes,              \* values of the foreground flag callers ask for
    Priorities,         \* priorities callers ask for
    Workload,           \* system calls and events the programs may make
    MaxCopies           \* bound: entries of one process in the queues

PIDs   == 1..MAX_PROCESSES
Levels == 1..MAX_PRIORITY

INITPID  == 1
SHELLPID == 2
NONPID   == -1
NULL     == 0           \* currentProcess before the first dispatch

Calls == {"create", "kill", "block", "unblock", "yield", "nice", "wait",
          "return", "ctrlC"}

ASSUME ProcessesAssumption == MAX_PROCESSES \in Nat /\ MAX_PROCESSES >= 2
ASSUME PriorityAssumption  == MAX_PRIORITY \in 1..5
ASSUME QuantumAssumption   == DEFAULT_QUANTUM \in Nat \ {0}
ASSUME AgingAssumption     == /\ AGING_THRESHOLD \in Nat \ {0}
                              /\ MAX_AGING_BOOST \in Nat \ {0}
ASSUME InputsAssumption    == /\ ExitCodes \subseteq Int
                              /\ Modes \subseteq BOOLEAN
                              /\ Priorities \subseteq Levels
                              /\ Workload \subseteq Calls
                              /\ MaxCopies \in Nat \ {0}

States == {"READY", "RUNNING", "BLOCKED", "EXITED"}

(***************************************************************************)
(* Where a process stands inside the kernel.  "user": in its own code,     *)
(* interrupts on.  "wait": switched out inside waitProcess, interrupts     *)
(* off.  The others are the points of processLoader and of the kill it     *)
(* calls, interrupts on, each named for the last thing done;               *)
(* UnschedulePoints are those where its loop over the queues takes the     *)
(* first, the second ... queue.                                            *)
(***************************************************************************)
UnschedulePoints == <<"returned", "cleared1", "cleared2", "cleared3", "cleared4">>
ExitFrames == Range(UnschedulePoints)
                \cup {"unscheduled", "freed", "exited", "waking", "woken"}
Frames     == {"user", "wait"} \cup ExitFrames

\* What main of kernel.c does next
BootSteps == {"init", "queueInit", "shell", "queueShell", "start", "done"}

\* History of a wait: its caller's PID is in the target, or a later caller's
\* took its place, or the target has ended
WaitStates == {"none", "registered", "overwritten", "ended"}

PCB == [state            : States,
        priority         : 0..MAX_PRIORITY,
        originalPriority : 0..MAX_PRIORITY,
        agingCounter     : Nat,
        foreground       : BOOLEAN,
        stack            : BOOLEAN,     \* the memory of its stack is held
        waitPid          : PIDs \cup {NONPID},
        waitReturnValue  : Int]

VARIABLES
    processes,          \* the process table
    priorityQueues,     \* one FIFO of PIDs per priority level
    currentProcess,     \* PID that owns the CPU, NULL while main boots
    quantumsLeft,
    frame,              \* where each process stands, see Frames
    waitTarget,         \* argument of the waitProcess a process is inside of
    boot,               \* see BootSteps
    awaited,            \* history: see WaitStates
    stranded            \* history: set READY, by an exit or by main with
                        \* interrupts on, and not yet queued

vars == <<processes, priorityQueues, currentProcess, quantumsLeft, frame,
          waitTarget, boot, awaited, stranded>>

-----------------------------------------------------------------------------
(***************************************************************************)
(* Pure operators.  The kernel state they work on is a record r of the     *)
(* process table and the queues; isYield needs no variable, for setYield   *)
(* is always followed by a forced switch that clears it.                   *)
(***************************************************************************)
Now == [procs |-> processes, queues |-> priorityQueues]

Queued(queues) == UNION {Range(queues[i]) : i \in Levels}

Copies(queues, p) ==
    LET copies[i \in 0..MAX_PRIORITY] ==
          IF i = 0 THEN 0
          ELSE copies[i - 1] + Cardinality({n \in DOMAIN queues[i] : queues[i][n] = p})
    IN  copies[MAX_PRIORITY]

\* schedule: an out-of-range priority is silently refused
Schedule(r, p) ==
    IF r.procs[p].priority \in Levels
    THEN [r EXCEPT !.queues[r.procs[p].priority] = Append(@, p)]
    ELSE r

\* removeFromQueue: the first entry of p leaves queue i
RemoveFromQueue(r, i, p) == [r EXCEPT !.queues[i] = RemoveFirst(@, p)]

\* unscheduleProcess, called with interrupts off: the loop over all queues
UnscheduleProcess(r, p) ==
    [r EXCEPT !.queues = [i \in Levels |-> RemoveFirst(r.queues[i], p)]]

\* Mutant: the process made READY is not queued
UnblockProcessUnqueued(r, p) ==
    IF p \in PIDs /\ r.procs[p].state = "BLOCKED"
    THEN [r EXCEPT !.procs[p].state = "READY"]
    ELSE r

\* unblockProcess: only a BLOCKED process is made READY
UnblockProcess(r, p) ==
    IF p \in PIDs /\ r.procs[p].state = "BLOCKED"
    THEN Schedule([r EXCEPT !.procs[p].state = "READY"], p)
    ELSE r

Smaller(a, b) == IF a <= b THEN a ELSE b

\* Counts beyond this give the same boost, so the model's counter stops here
AgingCap == AGING_THRESHOLD * MAX_AGING_BOOST

\* Mutant: the counter grows and the priority does not
AgedPCBNoBoost(pcb, n) ==
    [pcb EXCEPT !.agingCounter = Smaller(pcb.agingCounter + n, AgingCap)]

\* A PCB that one pass found n times in one queue
AgedPCB(pcb, n) ==
    LET counter == Smaller(pcb.agingCounter + n, AgingCap)
        boost   == Smaller(counter \div AGING_THRESHOLD, MAX_AGING_BOOST)
    IN  [pcb EXCEPT
           !.agingCounter = counter,
           !.priority     = IF counter >= AGING_THRESHOLD /\ @ < MAX_PRIORITY
                            THEN Smaller(pcb.originalPriority + boost, MAX_PRIORITY)
                            ELSE @]

\* The entries of q at the positions in I, in the order of q
Entries(q, I) ==
    LET nth(k) == CHOOSE i \in I : Cardinality({j \in I : j <= i}) = k
    IN  [k \in 1..Cardinality(I) |-> q[nth(k)]]

\* new, whatever old is; the comparison makes TLC evaluate the function once
Updated(old, new) == IF new = old THEN old ELSE new

\* Mutant: the drained entries go back to the queue they came from
AgeQueueInPlace(r, i) ==
    IF i \notin Levels
    THEN r
    ELSE [r EXCEPT !.procs = [p \in PIDs |->
                                IF p \in Range(r.queues[i]) \ {INITPID, SHELLPID}
                                THEN AgedPCB(r.procs[p], 1) ELSE r.procs[p]]]

\* The process table once every process found in q, but init and the shell, aged
AgedTable(procs, q) ==
    LET times(p) == Cardinality({n \in DOMAIN q : q[n] = p})
    IN  [p \in PIDs |-> IF p \in Range(q) \ {INITPID, SHELLPID}
                        THEN AgedPCB(procs[p], times(p)) ELSE procs[p]]

\* The queues once the entries of queue i went where procs says they belong
Requeued(queues, i, procs) ==
    LET q         == queues[i]
        others(j) == IF j = i THEN << >> ELSE queues[j]
        moved(j)  == Entries(q, {n \in DOMAIN q : procs[q[n]].priority = j})
    IN  [j \in Levels |-> others(j) \o moved(j)]

(***************************************************************************)
(* One turn of applyAging's loop: queue i is drained, every process found  *)
(* there but init and the shell is aged, and each entry goes to the queue  *)
(* of its process's priority.  An entry that moves up is met again, and    *)
(* aged again, when the loop reaches its new queue.                        *)
(***************************************************************************)
AgeQueue(r, i) ==
    IF i \notin Levels \/ r.queues[i] = << >>
    THEN r
    ELSE LET procs == Updated(r.procs, AgedTable(r.procs, r.queues[i]))
         IN  [procs  |-> procs,
              queues |-> Updated(r.queues, Requeued(r.queues, i, procs))]

\* The loop over the queues, lowest first (MAX_PRIORITY is at most 5)
ApplyAging(r) == AgeQueue(AgeQueue(AgeQueue(AgeQueue(AgeQueue(r, 1), 2), 3), 4), 5)

\* Mutant: only BLOCKED processes are skipped
RunnableUnlessBlocked(r, i) ==
    {n \in DOMAIN r.queues[i] : r.procs[r.queues[i][n]].state # "BLOCKED"}

\* Positions of queue i whose process the dispatch loop does not skip
Runnable(r, i) ==
    {n \in DOMAIN r.queues[i] : r.procs[r.queues[i][n]].state \notin {"BLOCKED", "EXITED"}}

(***************************************************************************)
(* The end of switchContext: entries are taken from the highest queue,     *)
(* BLOCKED and EXITED ones are thrown away, the first other one runs.      *)
(***************************************************************************)
Dispatch(r) ==
    LET levels == {i \in Levels : Runnable(r, i) # {}}
        top    == Max(levels)
        first  == Min(Runnable(r, top))
        next   == r.queues[top][first]
    IN  IF levels = {}
        THEN /\ currentProcess' = NULL
             /\ priorityQueues' = [i \in Levels |-> << >>]
             /\ processes' = r.procs
             /\ UNCHANGED quantumsLeft
        ELSE /\ currentProcess' = next
             /\ priorityQueues' =
                  [i \in Levels |->
                     IF i > top THEN << >>
                     ELSE IF i = top THEN SubSeq(r.queues[i], first + 1, Len(r.queues[i]))
                     ELSE r.queues[i]]
             /\ processes' = [r.procs EXCEPT ![next].state = "RUNNING",
                                             ![next].agingCounter = 0]
             /\ quantumsLeft' = DEFAULT_QUANTUM

\* The running process goes back to its queue at its own priority
Preempted(r, c) ==
    Schedule([r EXCEPT !.procs[c].state = "READY",
                       !.procs[c].priority = r.procs[c].originalPriority], c)

\* Mutant: the quantum is used up without looking whether any is left
SwitchContextUnderflow(r, yielded) ==
    LET c == currentProcess
    IN  IF c # NULL /\ ~yielded
        THEN /\ processes' = r.procs
             /\ priorityQueues' = r.queues
             /\ quantumsLeft' = quantumsLeft - 1
             /\ UNCHANGED currentProcess
        ELSE Dispatch(r)

\* switchContext, entered with kernel state r
SwitchContext(r, yielded) ==
    LET c == currentProcess
    IN  IF c = NULL
        THEN Dispatch(r)
        ELSE IF r.procs[c].state = "RUNNING" /\ quantumsLeft > 0 /\ ~yielded
        THEN /\ processes' = r.procs
             /\ priorityQueues' = r.queues
             /\ quantumsLeft' = quantumsLeft - 1
             /\ UNCHANGED currentProcess
        ELSE Dispatch(ApplyAging(IF r.procs[c].state = "RUNNING"
                                 THEN Preempted(r, c) ELSE r))

\* The handler returns to the process it interrupted
Return(r) ==
    /\ processes' = r.procs
    /\ priorityQueues' = r.queues
    /\ UNCHANGED <<currentProcess, quantumsLeft>>

-----------------------------------------------------------------------------
\* A running process other than init makes system call c
Calling(c) ==
    /\ c \in Workload
    /\ currentProcess \notin {NULL, INITPID}
    /\ frame[currentProcess] = "user"

\* Interrupts reach the CPU
InterruptsOn == currentProcess # NULL => frame[currentProcess] # "wait"

\* Bound: an operation that queues p does so while p has room
Room(p) == p \in PIDs => Copies(priorityQueues, p) < MaxCopies

\* History: a process with a queue entry is not stranded
NoteQueued == stranded' = stranded \ Queued(priorityQueues')

FreeSlots == {p \in PIDs : processes[p].state = "EXITED"}

\* The PCB createProcess writes once its memory is granted
NewPCB(p, prio, fg) ==
    [processes[p] EXCEPT
       !.state = "READY", !.priority = prio, !.originalPriority = prio,
       !.agingCounter = 0, !.foreground = fg, !.stack = TRUE, !.waitPid = NONPID]

\* p runs its own code and waits for nobody
InOwnCode(p) ==
    /\ frame' = [frame EXCEPT ![p] = "user"]
    /\ waitTarget' = [waitTarget EXCEPT ![p] = NONPID]

\* createProcess as a system call; getFreeProcess takes the first slot
CreateProcess(prio, fg) ==
    LET p == Min(FreeSlots)
    IN  /\ FreeSlots # {}
        /\ Room(p)
        /\ Return(Schedule([Now EXCEPT !.procs[p] = NewPCB(p, prio, fg)], p))
        /\ InOwnCode(p)
        /\ awaited' = [awaited EXCEPT ![p] = "none"]
        /\ NoteQueued

Create ==
    /\ Calling("create")
    /\ \E prio \in Priorities, fg \in Modes : CreateProcess(prio, fg)
    /\ UNCHANGED boot

\* kill without its forced switch, as one uninterrupted step
Killed(r, p) ==
    LET gone == [UnscheduleProcess(r, p) EXCEPT !.procs[p].stack = FALSE,
                                                !.procs[p].state = "EXITED"]
    IN  [UnblockProcess(gone, gone.procs[p].waitPid) EXCEPT !.procs[p].waitPid = NONPID]

\* History: the process in slot p ended
NoteEnd(p) ==
    awaited' = [w \in PIDs |-> IF w = p THEN "none"
                               ELSE IF waitTarget[w] = p THEN "ended" ELSE awaited[w]]

KillProcess(p) ==
    /\ p # INITPID /\ processes[p].state # "EXITED"
    /\ Room(processes[p].waitPid)
    /\ IF p = currentProcess THEN SwitchContext(Killed(Now, p), FALSE)
                             ELSE Return(Killed(Now, p))
    /\ InOwnCode(p)
    /\ NoteEnd(p)
    /\ NoteQueued
    /\ UNCHANGED boot

Kill == Calling("kill") /\ \E p \in PIDs : KillProcess(p)

\* handleCtrlC: the first foreground process that is neither init nor the shell
Foreground ==
    {p \in PIDs : processes[p].foreground /\ processes[p].state # "EXITED"
                  /\ p \notin {INITPID, SHELLPID}}

CtrlC ==
    /\ "ctrlC" \in Workload
    /\ currentProcess # NULL /\ InterruptsOn
    /\ Foreground # {}
    /\ KillProcess(Min(Foreground))

\* Mutant: a process that blocks itself does not give up the CPU
BlockWithoutYield ==
    /\ Calling("block")
    /\ \E p \in PIDs \ {INITPID} :
         /\ processes[p].state # "EXITED"
         /\ Return([Now EXCEPT !.procs[p].state = "BLOCKED"])
    /\ UNCHANGED <<frame, waitTarget, boot, awaited, stranded>>

\* Mutant: init can be blocked
BlockAnyone ==
    /\ Calling("block")
    /\ \E p \in PIDs :
         LET r == [Now EXCEPT !.procs[p].state = "BLOCKED"]
         IN  /\ processes[p].state # "EXITED"
             /\ IF p = currentProcess THEN SwitchContext(r, TRUE) ELSE Return(r)
    /\ UNCHANGED <<frame, waitTarget, boot, awaited, stranded>>

\* sys_block and blockProcess: a READY process keeps its queue entry
Block ==
    /\ Calling("block")
    /\ \E p \in PIDs :
         LET r == [Now EXCEPT !.procs[p].state = "BLOCKED"]
         IN  /\ p # INITPID /\ processes[p].state # "EXITED"
             /\ IF p = currentProcess THEN SwitchContext(r, TRUE) ELSE Return(r)
    /\ UNCHANGED <<frame, waitTarget, boot, awaited, stranded>>

Unblock ==
    /\ Calling("unblock")
    /\ \E p \in PIDs :
         /\ processes[p].state = "BLOCKED"
         /\ Room(p)
         /\ Return(UnblockProcess(Now, p))
    /\ NoteQueued
    /\ UNCHANGED <<frame, waitTarget, boot, awaited>>

Yield ==
    /\ Calling("yield")
    /\ SwitchContext(Now, TRUE)
    /\ UNCHANGED <<frame, waitTarget, boot, awaited, stranded>>

\* Mutant: only the original priority is set
NiceOriginalOnly ==
    /\ Calling("nice")
    /\ \E p \in PIDs, prio \in Priorities :
         /\ processes[p].state # "EXITED"
         /\ Return([Now EXCEPT !.procs[p].originalPriority = prio])
    /\ UNCHANGED <<frame, waitTarget, boot, awaited, stranded>>

\* changeProccessPriority: the queues are left as they are
Reprioritized(r, p, prio) ==
    [r EXCEPT !.procs[p] = [@ EXCEPT !.priority = prio, !.originalPriority = prio,
                                     !.agingCounter = 0]]

Nice ==
    /\ Calling("nice")
    /\ \E p \in PIDs, prio \in Priorities :
         LET r == Reprioritized(Now, p, prio)
         IN  /\ processes[p].state # "EXITED"
             /\ processes[p].originalPriority # prio
             /\ IF p = currentProcess THEN SwitchContext(r, TRUE) ELSE Return(r)
    /\ UNCHANGED <<frame, waitTarget, boot, awaited, stranded>>

\* Mutant: a target that already holds a waiter keeps it
RegisteredOnce(r, t, c) ==
    [r EXCEPT !.procs[t].waitPid = IF @ = NONPID THEN c ELSE @, !.procs[c].state = "BLOCKED"]

\* c waits for t, which keeps the PID of one waiter only
Registered(r, t, c) == [r EXCEPT !.procs[t].waitPid = c, !.procs[c].state = "BLOCKED"]

\* History: c registers with t, in place of whoever was registered there
NoteWait(t, c) ==
    awaited' = [w \in PIDs |->
                  IF w = c THEN "registered"
                  ELSE IF waitTarget[w] = t /\ awaited[w] = "registered" THEN "overwritten"
                  ELSE awaited[w]]

\* waitProcess up to its first switch
Wait ==
    /\ Calling("wait")
    /\ \E t \in PIDs :
         /\ processes[t].state # "EXITED"
         /\ SwitchContext(Registered(Now, t, currentProcess), TRUE)
         /\ frame' = [frame EXCEPT ![currentProcess] = "wait"]
         /\ waitTarget' = [waitTarget EXCEPT ![currentProcess] = t]
         /\ NoteWait(t, currentProcess)
    /\ UNCHANGED <<boot, stranded>>

\* waitProcess once it runs again: its second switch only uses up a quantum
WaitReturn ==
    /\ currentProcess # NULL
    /\ frame[currentProcess] = "wait"
    /\ SwitchContext(Now, FALSE)
    /\ InOwnCode(currentProcess)
    /\ awaited' = [awaited EXCEPT ![currentProcess] = "none"]
    /\ UNCHANGED <<boot, stranded>>

-----------------------------------------------------------------------------
(***************************************************************************)
(* processLoader after the entry point returns, and the kill it calls,     *)
(* with interrupts enabled throughout.                                     *)
(***************************************************************************)
At(f) == currentProcess # NULL /\ frame[currentProcess] = f

Advance(f) == frame' = [frame EXCEPT ![currentProcess] = f]

\* The shell's main loops forever
ReturnFromEntry ==
    /\ Calling("return") /\ currentProcess # SHELLPID
    /\ \E v \in ExitCodes :
         Return([Now EXCEPT !.procs[currentProcess].waitReturnValue = v])
    /\ Advance("returned")
    /\ UNCHANGED <<waitTarget, boot, awaited, stranded>>

\* One turn of unscheduleProcess's loop
ExitUnschedule ==
    \E i \in Levels :
       /\ At(UnschedulePoints[i])
       /\ Return(RemoveFromQueue(Now, i, currentProcess))
       /\ Advance(IF i = MAX_PRIORITY THEN "unscheduled" ELSE UnschedulePoints[i + 1])
       /\ UNCHANGED <<waitTarget, boot, awaited, stranded>>

ExitFree ==
    /\ At("unscheduled")
    /\ Return([Now EXCEPT !.procs[currentProcess].stack = FALSE])
    /\ Advance("freed")
    /\ UNCHANGED <<waitTarget, boot, awaited, stranded>>

ExitMark ==
    /\ At("freed")
    /\ Return([Now EXCEPT !.procs[currentProcess].state = "EXITED"])
    /\ Advance("exited")
    /\ NoteEnd(currentProcess)
    /\ UNCHANGED <<waitTarget, boot, stranded>>

\* The waiter, if it is BLOCKED, is set READY ...
ExitWake ==
    LET w == processes[currentProcess].waitPid
    IN  /\ At("exited")
        /\ IF w # NONPID /\ processes[w].state = "BLOCKED"
           THEN /\ Room(w)
                /\ Return([Now EXCEPT !.procs[w].state = "READY"])
                /\ Advance("waking")
                /\ stranded' = stranded \cup {w}
           ELSE /\ Return([Now EXCEPT !.procs[currentProcess].waitPid = NONPID])
                /\ Advance("woken")
                /\ UNCHANGED stranded
        /\ UNCHANGED <<waitTarget, boot, awaited>>

\* ... and only then queued
ExitSchedule ==
    LET w == processes[currentProcess].waitPid
    IN  /\ At("waking")
        /\ Return(Schedule([Now EXCEPT !.procs[currentProcess].waitPid = NONPID], w))
        /\ Advance("woken")
        /\ NoteQueued
        /\ UNCHANGED <<waitTarget, boot, awaited>>

ExitSwitch ==
    /\ At("woken")
    /\ SwitchContext(Now, FALSE)
    /\ UNCHANGED <<frame, waitTarget, boot, awaited, stranded>>

ExitStep == \/ ExitUnschedule \/ ExitFree \/ ExitMark
            \/ ExitWake \/ ExitSchedule \/ ExitSwitch

-----------------------------------------------------------------------------
\* The timer interrupt
TimerTick ==
    /\ InterruptsOn
    /\ SwitchContext(Now, FALSE)
    /\ UNCHANGED <<frame, waitTarget, boot, awaited, stranded>>

(***************************************************************************)
(* main of kernel.c from _sti on, interrupts enabled: createProcess writes *)
(* the PCB of init, then of the shell, and queues each; a switch follows.  *)
(* The first tick that finds a queued process dispatches it, and main      *)
(* never runs again.                                                       *)
(***************************************************************************)
BootCreate(prio, fg) ==
    LET p == Min(FreeSlots)
    IN  /\ FreeSlots # {}
        /\ Return([Now EXCEPT !.procs[p] = NewPCB(p, prio, fg)])
        /\ InOwnCode(p)
        /\ stranded' = stranded \cup {p}
        /\ UNCHANGED awaited

BootSchedule(p) ==
    /\ Return(Schedule(Now, p))
    /\ NoteQueued
    /\ UNCHANGED <<frame, waitTarget, awaited>>

BootAt(here, next) == currentProcess = NULL /\ boot = here /\ boot' = next

BootInit       == BootAt("init", "queueInit") /\ BootCreate(1, FALSE)
BootQueueInit  == BootAt("queueInit", "shell") /\ BootSchedule(INITPID)
BootShell      == BootAt("shell", "queueShell") /\ BootCreate(MAX_PRIORITY, TRUE)
BootQueueShell == BootAt("queueShell", "start") /\ BootSchedule(SHELLPID)

BootSwitch ==
    /\ BootAt("start", "done")
    /\ SwitchContext(Now, FALSE)
    /\ UNCHANGED <<frame, waitTarget, awaited, stranded>>

Boot == BootInit \/ BootQueueInit \/ BootShell \/ BootQueueShell \/ BootSwitch

\* After initProcesses and initScheduler; the table lies in cleared memory
Init ==
    /\ processes = [p \in PIDs |->
                      [state |-> "EXITED", priority |-> 0, originalPriority |-> 0,
                       agingCounter |-> 0, foreground |-> FALSE, stack |-> FALSE,
                       waitPid |-> NONPID, waitReturnValue |-> 0]]
    /\ priorityQueues = [i \in Levels |-> << >>]
    /\ currentProcess = NULL
    /\ quantumsLeft = 0
    /\ frame = [p \in PIDs |-> "user"]
    /\ waitTarget = [p \in PIDs |-> NONPID]
    /\ boot = "init"
    /\ awaited = [p \in PIDs |-> "none"]
    /\ stranded = {}

SystemCall == Create \/ Kill \/ Block \/ Unblock \/ Yield \/ Nice \/ Wait

Next == \/ Boot \/ TimerTick \/ CtrlC
        \/ SystemCall \/ WaitReturn \/ ReturnFromEntry \/ ExitStep

Spec == Init /\ [][Next]_vars

(***************************************************************************)
(* The timer never stops, main boots, and kernel code once entered runs on *)
(* until a tick takes the CPU.  The conjunct on TimerTick is its weak      *)
(* fairness with its guard in place of ENABLED, which TLC evaluates slowly *)
(* here: once main has queued init, a tick with interrupts enabled always  *)
(* changes the state.                                                      *)
(***************************************************************************)
FairSpec ==
    /\ Spec
    /\ []<>~InterruptsOn \/ []<><<TimerTick>>_vars
    /\ WF_vars(WaitReturn)
    /\ WF_vars(ExitStep)
    /\ WF_vars(Boot)

-----------------------------------------------------------------------------
(***************************************************************************)
(* Properties                                                              *)
(***************************************************************************)

\* Every variable keeps the type of the C declaration it models.
TypeOK ==
    /\ processes \in [PIDs -> PCB]
    /\ priorityQueues \in [Levels -> Seq(PIDs)]
    /\ currentProcess \in PIDs \cup {NULL}
    /\ quantumsLeft \in 0..DEFAULT_QUANTUM
    /\ frame \in [PIDs -> Frames]
    /\ waitTarget \in [PIDs -> PIDs \cup {NONPID}]
    /\ boot \in BootSteps
    /\ awaited \in [PIDs -> WaitStates]
    /\ stranded \subseteq PIDs

\* No READY process is forgotten: each has an entry in some queue of the
\* scheduler, whatever blocks, kills, wake-ups, priority changes and ageing
\* passes went over the queues.  The exceptions are a process that an exiting
\* one had set READY and not yet queued, and one that main had created and not
\* yet queued.  One call of queueADT is one step.
ReadyIsQueued ==
    \A p \in PIDs : processes[p].state = "READY"
                       => p \in Queued(priorityQueues) \cup stranded

\* The CPU is owned by the RUNNING process, and by an EXITED one only while it
\* finishes its own kill; no other process is RUNNING.
RunningIsCurrent ==
    /\ \A p \in PIDs : processes[p].state = "RUNNING" => p = currentProcess
    /\ currentProcess # NULL =>
          \/ processes[currentProcess].state = "RUNNING"
          \/ /\ processes[currentProcess].state = "EXITED"
             /\ frame[currentProcess] \in {"exited", "waking", "woken"}

\* switchContext always finds a process: init is never BLOCKED or EXITED once
\* it was created, so after the first dispatch currentProcess is never NULL
\* again and no code dereferences a null currentProcess.
InitAlwaysRunnable ==
    /\ boot # "init" => processes[INITPID].state \in {"READY", "RUNNING"}
    /\ boot = "done" => currentProcess # NULL

\* Ageing never lowers a priority below the one asked for, nor raises it by
\* more than MAX_AGING_BOOST or above MAX_PRIORITY, and never touches init or
\* the shell.
BoostBounded ==
    \A p \in PIDs :
       LET pcb == processes[p]
       IN  /\ pcb.originalPriority <= pcb.priority
           /\ pcb.priority <= pcb.originalPriority + MAX_AGING_BOOST
           /\ p \in {INITPID, SHELLPID} => pcb.priority = pcb.originalPriority

\* Whoever gets the CPU has the highest priority among the READY processes at
\* that moment, also when nice moved one of them while it was queued.  The
\* exceptions are those of ReadyIsQueued: READY processes in no queue yet.
HighestPriorityFirst ==
    [][currentProcess' \notin {currentProcess, NULL} =>
         \A p \in PIDs \ stranded :
            processes'[p].state = "READY"
              => processes'[p].priority <= processes'[currentProcess'].priority]_vars

\* A process that ended runs again only as a new process: createProcess is the
\* only way out of EXITED, with a stack of its own and at the process's start.
NoResurrection ==
    [][\A p \in PIDs :
         processes[p].state = "EXITED" /\ processes'[p].state # "EXITED" =>
            /\ processes'[p].state = "READY"
            /\ processes'[p].stack
            /\ frame'[p] = "user"]_vars

\* No wait is forgotten while its process lives: a process blocked in
\* waitProcess for one that has not ended is the one its target will wake,
\* unless a later caller took its place in that target.
WaitIsRegistered ==
    \A p \in PIDs :
       frame[p] = "wait" /\ processes[p].state # "EXITED" /\ awaited[p] = "registered"
         => processes[waitTarget[p]].waitPid = p

\* Ageing lets every process run in the end, when the boost suffices to reach
\* the highest priority: a READY process other than init and the shell, unless
\* stranded, leaves READY, so it was dispatched, blocked or killed.
AgedProcessesRun ==
    MAX_PRIORITY <= 1 + MAX_AGING_BOOST =>
      \A p \in PIDs \ {INITPID, SHELLPID} :
         processes[p].state = "READY" /\ p \notin stranded
           ~> processes[p].state # "READY"

\* The kernel implements the state diagram of ProcessStates: BLOCKED processes
\* are not dispatched, only READY ones are, one at a time, and EXITED is left
\* only by a new process.
Abstract == INSTANCE ProcessStates WITH
              state <- [p \in PIDs |-> processes[p].state],
              cpu   <- currentProcess

ImplementsProcessStates == Abstract!StatesSpec

-----------------------------------------------------------------------------
(***************************************************************************)
(* What a comment of the code says of it.  TLC refutes it for the code as  *)
(* it is.                                                                  *)
(***************************************************************************)

\* process.c:94: processLoader "desbloquea procesos que esperaban por este
\* PID"; so once a process has ended and left the CPU, nobody stays BLOCKED in
\* a wait for it.
WaitersReleased ==
    \A p \in PIDs :
       frame[p] = "wait" /\ awaited[p] = "ended" /\ waitTarget[p] # currentProcess
         => processes[p].state # "BLOCKED"
=============================================================================
