------------------------- MODULE SchedulerRefinement -------------------------
(***************************************************************************)
(* Scheduler implements ProcessStates, and what that rests on step by      *)
(* step: a process that ended is not run again, ageing keeps its bounds,   *)
(* and a wait stays registered, for any number of processes and any        *)
(* parameters of the ageing.  The second part proves that the CPU goes to  *)
(* the highest priority.                                                   *)
(***************************************************************************)
EXTENDS SchedulerProofs

USE ProcessesAssumption, PriorityAssumption, QuantumAssumption DEF INITPID, NULL, NONPID

-----------------------------------------------------------------------------
\* The state of p in r once the process that held the CPU is off it
OffCPU(r, p) == IF p = currentProcess /\ r.procs[p].state = "RUNNING"
                THEN "READY" ELSE r.procs[p].state

\* The CPU went to a process that was READY
Handed(r) ==
    /\ currentProcess' \in PIDs
    /\ OffCPU(r, currentProcess') = "READY"
    /\ \A p \in PIDs : processes'[p].state = IF p = currentProcess' THEN "RUNNING" ELSE OffCPU(r, p)

\* Who holds the CPU goes on, and the states are those of r
Stayed(r) ==
    /\ currentProcess' = currentProcess
    /\ \A p \in PIDs : processes'[p].state = r.procs[p].state

\* The dispatch of a kernel t in which nobody is RUNNING hands the CPU over,
\* unless it finds nobody.
LEMMA DispatchHands ==
    ASSUME NEW t \in Kernel, quantumsLeft \in 0..DEFAULT_QUANTUM,
           \A p \in PIDs : t.procs[p].state # "RUNNING", Dispatch(t),
           currentProcess' # NULL
    PROVE  /\ currentProcess' \in PIDs /\ t.procs[currentProcess'].state = "READY"
           /\ \A p \in PIDs : processes'[p].state = IF p = currentProcess' THEN "RUNNING"
                                                    ELSE t.procs[p].state
<1>1. /\ Types(processes', priorityQueues', currentProcess', quantumsLeft')
      /\ \A p \in PIDs :
           processes'[p].state = IF p = currentProcess' THEN "RUNNING" ELSE t.procs[p].state
      /\ currentProcess' # NULL => t.procs[currentProcess'].state \notin {"BLOCKED", "EXITED"}
  BY DispatchEffect
<1>2. currentProcess' \in PIDs
  BY <1>1 DEF Types
<1>3. t.procs[currentProcess'].state \in States
  <2>1. t.procs[currentProcess'] \in PCB
    BY <1>2 DEF Kernel
  <2> QED
    BY <2>1 DEF PCB
<1> QED
  BY <1>1, <1>2, <1>3 DEF States

\* switchContext hands the CPU to a READY process or, when a quantum is left and
\* nobody yields, leaves it where it is.
LEMMA SwitchHands ==
    ASSUME NEW r, NEW yielded \in BOOLEAN, Switchable(r), SwitchContext(r, yielded),
           currentProcess # NULL => \E p \in PIDs : CanRun(r, p)
    PROVE  \/ Handed(r)
           \/ /\ Stayed(r)
              /\ currentProcess # NULL => r.procs[currentProcess].state = "RUNNING" /\ ~yielded
<1>1. /\ r \in Kernel /\ QueuedRanked(r) /\ quantumsLeft \in 0..DEFAULT_QUANTUM
      /\ currentProcess # NULL => currentProcess \in PIDs /\ Ranked(r.procs, currentProcess)
      /\ \A p \in PIDs : r.procs[p].state = "RUNNING" => p = currentProcess
      /\ \A p \in PIDs : p # NULL
  BY DEF Switchable, PIDs
<1>2. CASE currentProcess = NULL
  <2>1. Dispatch(r)
    BY <1>2 DEF SwitchContext
  <2>2. \A p \in PIDs : r.procs[p].state # "RUNNING" /\ OffCPU(r, p) = r.procs[p].state
    BY <1>1, <1>2 DEF OffCPU
  <2>3. CASE currentProcess' = NULL
    <3>1. \A p \in PIDs : processes'[p].state = IF p = currentProcess' THEN "RUNNING"
                                               ELSE r.procs[p].state
      BY <1>1, <2>1, DispatchEffect
    <3> QED
      BY <1>1, <1>2, <2>3, <3>1 DEF Stayed
  <2>4. CASE currentProcess' # NULL
    BY <1>1, <2>1, <2>2, <2>4, DispatchHands DEF Handed
  <2> QED
    BY <2>3, <2>4
<1>3. CASE currentProcess # NULL /\ r.procs[currentProcess].state = "RUNNING"
           /\ quantumsLeft > 0 /\ ~yielded
  <2>1. processes' = r.procs /\ currentProcess' = currentProcess
    BY <1>3 DEF SwitchContext
  <2> QED
    BY <1>3, <2>1 DEF Stayed
<1>4. CASE /\ currentProcess # NULL
           /\ ~(r.procs[currentProcess].state = "RUNNING" /\ quantumsLeft > 0 /\ ~yielded)
  <2> DEFINE c == currentProcess
             s == IF r.procs[c].state = "RUNNING" THEN Preempted(r, c) ELSE r
             t == ApplyAging(s)
  <2>1. Dispatch(t)
    BY <1>4 DEF SwitchContext
  <2>2. /\ s \in Kernel /\ QueuedRanked(s)
        /\ \A p \in PIDs : s.procs[p].state = OffCPU(r, p)
    <3>1. CASE r.procs[c].state = "RUNNING"
      <4>1. s = Preempted(r, c)
        BY <3>1
      <4> HIDE DEF s
      <4> QED
        BY <1>1, <1>4, <3>1, <4>1, PreemptedEffect DEF OffCPU
    <3>2. CASE r.procs[c].state # "RUNNING"
      BY <1>1, <3>2 DEF OffCPU
    <3> QED
      BY <3>1, <3>2
  <2> HIDE DEF s
  <2>3. t \in Kernel /\ Alike(s, t)
    BY <2>2, ApplyAgingEffect
  <2> HIDE DEF t
  <2>4. \A p \in PIDs : t.procs[p].state = OffCPU(r, p) /\ t.procs[p].state # "RUNNING"
    BY <1>1, <2>2, <2>3 DEF Alike, OffCPU
  <2>5. currentProcess' # NULL
    BY <1>4, SwitchContextEffect DEF Switched
  <2> QED
    BY <1>1, <2>1, <2>3, <2>4, <2>5, DispatchHands DEF Handed
<1> QED
  BY <1>2, <1>3, <1>4

-----------------------------------------------------------------------------
\* How a handler that made r of the kernel ends
Outcome(r) ==
    /\ Handed(r) \/ Stayed(r)
    /\ \A p \in PIDs : /\ Kept(processes, processes', p)
                       /\ processes'[p].state = "EXITED" <=> r.procs[p].state = "EXITED"
                       /\ processes'[p].waitPid = r.procs[p].waitPid

\* A handler that returns leaves the states it made.
LEMMA ReturnOutcome ==
    ASSUME NEW r, KeptAll(r), Return(r)
    PROVE  Outcome(r) /\ Stayed(r)
  BY DEF Return, KeptAll, Outcome, Stayed

\* A handler that switches: init can run, so the CPU is not lost.
LEMMA SwitchOutcome ==
    ASSUME NEW r, NEW f, NEW S, NEW up \in BOOLEAN, NEW yielded \in BOOLEAN,
           Sound(r, f, S, up), KeptAll(r), SwitchContext(r, yielded),
           quantumsLeft \in 0..DEFAULT_QUANTUM, currentProcess \in PIDs \cup {NULL},
           currentProcess # NULL => up /\ INITPID \notin S
    PROVE  /\ Outcome(r)
           /\ \/ Handed(r)
              \/ /\ Stayed(r)
                 /\ currentProcess # NULL => r.procs[currentProcess].state = "RUNNING" /\ ~yielded
<1>1. Switchable(r)
  BY DEF Switchable, Sound, SoundProcess
<1>2. Switched(r)
  BY <1>1, SwitchContextEffect
<1>3. INITPID \in PIDs
  BY DEF PIDs
<1>4. currentProcess # NULL => CanRun(r, INITPID)
  BY <1>3 DEF CanRun, Sound, SoundProcess
<1>5. \/ Handed(r)
      \/ /\ Stayed(r)
         /\ currentProcess # NULL => r.procs[currentProcess].state = "RUNNING" /\ ~yielded
  BY <1>1, <1>3, <1>4, SwitchHands
<1>6. \A p \in PIDs : SwitchedProcess(r, p) /\ Kept(processes, r.procs, p)
  BY <1>2 DEF Switched, KeptAll
<1> QED
  BY <1>5, <1>6 DEF Outcome, SwitchedProcess, Kept

\* The kernel as it is, for the handlers that only switch.
LEMMA NowOutcome ==
    ASSUME SchedInv, NEW yielded \in BOOLEAN, SwitchContext(Now, yielded)
    PROVE  /\ Outcome(Now) /\ Now.procs = processes
<1>1. Now.procs = processes /\ KeptAll(Now)
  BY Facts DEF KeptAll, Kept
<1>2. (boot # "init") \in BOOLEAN
  OBVIOUS
<1>3. Sound(Now, frame, stranded, boot # "init")
  BY Facts
<1> QED
  BY <1>1, <1>2, <1>3, Facts, SwitchOutcome

-----------------------------------------------------------------------------
\* The states of a table, as ProcessStates sees them
StatesOf(procs) == [p \in PIDs |-> procs[p].state]

\* The switch of ProcessStates from the states st, in terms of Scheduler
CpuSwitch(st) ==
    LET off == [p \in PIDs |-> IF p = currentProcess /\ st[p] = "RUNNING" THEN "READY" ELSE st[p]]
    IN  \E p \in PIDs : /\ off[p] = "READY"
                        /\ StatesOf(processes') = [off EXCEPT ![p] = "RUNNING"]
                        /\ currentProcess' = p

\* A CPU handed over is a switch of the abstract machine.
LEMMA HandedIsSwitch ==
    ASSUME NEW r, Handed(r)
    PROVE  CpuSwitch(StatesOf(r.procs))
<1> DEFINE st  == StatesOf(r.procs)
           off == [p \in PIDs |-> IF p = currentProcess /\ st[p] = "RUNNING" THEN "READY" ELSE st[p]]
<1>1. \A p \in PIDs : off[p] = OffCPU(r, p)
  BY DEF StatesOf, OffCPU
<1>2. currentProcess' \in PIDs /\ off[currentProcess'] = "READY"
  BY <1>1 DEF Handed
<1>3. StatesOf(processes') = [off EXCEPT ![currentProcess'] = "RUNNING"]
  BY <1>1, <1>2 DEF Handed, StatesOf
<1> HIDE DEF st
<1> QED
  BY <1>2, <1>3 DEF CpuSwitch, st

\* A handler that returns leaves the states it made.
LEMMA StayedIsStay ==
    ASSUME NEW r, Stayed(r)
    PROVE  StatesOf(processes') = StatesOf(r.procs) /\ currentProcess' = currentProcess
  BY DEF Stayed, StatesOf

(***************************************************************************)
(* A wait that goes on for a process that has not ended, whose place no    *)
(* later caller took: strengthened by that the process is not EXITED, so   *)
(* no new process can have taken its slot and cleared its waitPid.         *)
(***************************************************************************)
Awaits(p) == frame[p] = "wait" /\ processes[p].state # "EXITED" /\ awaited[p] = "registered"

AwaitedBy(t, p) == t \in PIDs /\ processes[t].state # "EXITED" /\ processes[t].waitPid = p

WaitInv == \A p \in PIDs : Awaits(p) => AwaitedBy(waitTarget[p], p)

\* Whoever awaits a process goes on doing so while that one is registered.
LEMMA WaitCarried ==
    ASSUME WaitInv,
           \A p \in PIDs : Awaits(p)' => Awaits(p) /\ waitTarget'[p] = waitTarget[p],
           \A p, t \in PIDs : Awaits(p)' /\ waitTarget[p] = t /\ AwaitedBy(t, p) => AwaitedBy(t, p)'
    PROVE  WaitInv'
<1> SUFFICES ASSUME NEW p \in PIDs, Awaits(p)' PROVE AwaitedBy(waitTarget[p], p)'
  BY DEF WaitInv
<1>1. Awaits(p) /\ waitTarget'[p] = waitTarget[p] /\ AwaitedBy(waitTarget[p], p)
  BY DEF WaitInv
<1>2. waitTarget[p] \in PIDs
  BY <1>1 DEF AwaitedBy
<1>3. AwaitedBy(waitTarget[p], p) => /\ processes'[waitTarget[p]].state # "EXITED"
                                /\ processes'[waitTarget[p]].waitPid = p
  BY <1>2 DEF AwaitedBy
<1> QED
  BY <1>1, <1>2, <1>3 DEF AwaitedBy

-----------------------------------------------------------------------------
\* A process leaves EXITED as a new process only
Fresh ==
    \A p \in PIDs :
       processes[p].state = "EXITED" /\ processes'[p].state # "EXITED" =>
          /\ processes'[p].state = "READY"
          /\ processes'[p].stack
          /\ frame'[p] = "user"

\* What is shown of every step
Conforms ==
    /\ Abstract!StatesNext \/ UNCHANGED (Abstract!procVars)
    /\ Fresh
    /\ \A p \in PIDs : Kept(processes, processes', p)
    /\ WaitInv => WaitInv'

\* What a step leaves of the waits when it neither starts nor ends one
SameWaits == \A p \in PIDs : frame'[p] = "wait" => /\ frame[p] = "wait"
                                                   /\ waitTarget'[p] = waitTarget[p]
                                                   /\ awaited'[p] = awaited[p]

\* A step that neither ends a process, nor starts one, nor writes the waitPid of one
\* that has not ended.
LEMMA QuietStep ==
    ASSUME NEW r, Outcome(r), SameWaits,
           \A p \in PIDs :
              /\ r.procs[p].state = "EXITED" <=> processes[p].state = "EXITED"
              /\ processes[p].state # "EXITED" => r.procs[p].waitPid = processes[p].waitPid
    PROVE  /\ Fresh /\ \A p \in PIDs : Kept(processes, processes', p)
           /\ WaitInv => WaitInv'
<1>1. \A p \in PIDs : /\ processes'[p].state = "EXITED" <=> processes[p].state = "EXITED"
                      /\ processes'[p].waitPid = r.procs[p].waitPid
  BY DEF Outcome
<1>2. Fresh
  BY <1>1 DEF Fresh
<1>3. \A p \in PIDs : Awaits(p)' => Awaits(p) /\ waitTarget'[p] = waitTarget[p]
  BY <1>1 DEF Awaits, SameWaits
<1>4. \A p, t \in PIDs : AwaitedBy(t, p) => AwaitedBy(t, p)'
  BY <1>1 DEF AwaitedBy
<1>5. WaitInv => WaitInv'
  BY <1>3, <1>4, WaitCarried
<1> QED
  BY <1>2, <1>5 DEF Outcome

\* The timer, yield and the switches that end an exit, a wait or the boot.
LEMMA SwitchConforms ==
    ASSUME SchedInv, NEW yielded \in BOOLEAN, SwitchContext(Now, yielded), SameWaits
    PROVE  Conforms
<1>1. Outcome(Now) /\ Now.procs = processes
  BY NowOutcome
<1>2. /\ Fresh /\ \A p \in PIDs : Kept(processes, processes', p)
      /\ WaitInv => WaitInv'
  BY <1>1, QuietStep
<1>3. CASE Handed(Now)
  <2>1. CpuSwitch(StatesOf(processes))
    BY <1>1, <1>3, HandedIsSwitch
  <2>2. Abstract!Preempt
    BY <2>1 DEF CpuSwitch, StatesOf, Abstract!Preempt, Abstract!Switch, Abstract!PIDs, PIDs
  <2> QED
    BY <1>2, <2>2 DEF Conforms, Abstract!StatesNext
<1>4. CASE Stayed(Now)
  <2>1. UNCHANGED (Abstract!procVars)
    BY <1>1, <1>4, StayedIsStay DEF StatesOf, Abstract!procVars
  <2> QED
    BY <1>2, <2>1 DEF Conforms
<1> QED
  BY <1>1, <1>3, <1>4 DEF Outcome

\* blockProcess is BlockSelf or BlockOther.
LEMMA BlockConforms == ASSUME SchedInv, Block PROVE Conforms
<1>1. PICK p \in PIDs :
        /\ p # INITPID /\ processes[p].state # "EXITED"
        /\ IF p = currentProcess THEN SwitchContext(BlockedIn(Now, p), TRUE)
                                 ELSE Return(BlockedIn(Now, p))
  BY DEF Block, BlockedIn
<1>2. SameWaits /\ currentProcess # NULL /\ currentProcess # INITPID
  BY DEF Block, Calling, SameWaits
<1> DEFINE r == BlockedIn(Now, p)
<1>3. /\ Sound(r, frame, stranded, boot # "init") /\ KeptAll(r)
      /\ \A q \in PIDs :
           /\ r.procs[q].state = IF q = p THEN "BLOCKED" ELSE processes[q].state
           /\ r.procs[q].waitPid = processes[q].waitPid
  BY <1>1, SoundBlocked
<1> HIDE DEF r
<1>4. Outcome(r) /\ (p = currentProcess => Handed(r)) /\ (p # currentProcess => Stayed(r))
  <2>1. CASE p = currentProcess
    <3>1. (boot # "init") \in BOOLEAN /\ TRUE \in BOOLEAN /\ SwitchContext(r, TRUE)
          /\ r.procs[currentProcess].state # "RUNNING"
      BY <1>1, <1>3, <2>1 DEF r
    <3> QED
      BY <1>2, <1>3, <2>1, <3>1, Facts, SwitchOutcome
  <2>2. CASE p # currentProcess
    <3>1. Return(r)
      BY <1>1, <2>2 DEF r
    <3> QED
      BY <1>3, <2>2, <3>1, ReturnOutcome
  <2> QED
    BY <2>1, <2>2
<1>5. /\ Fresh /\ \A q \in PIDs : Kept(processes, processes', q)
      /\ WaitInv => WaitInv'
  BY <1>1, <1>2, <1>3, <1>4, QuietStep
<1>6. StatesOf(r.procs) = [StatesOf(processes) EXCEPT ![p] = "BLOCKED"]
  BY <1>3 DEF StatesOf
<1>7. CASE p = currentProcess
  <2>1. CpuSwitch([StatesOf(processes) EXCEPT ![p] = "BLOCKED"])
    BY <1>4, <1>6, <1>7, HandedIsSwitch
  <2>2. Abstract!BlockSelf
    BY <1>2, <1>7, <2>1 DEF CpuSwitch, StatesOf, Abstract!BlockSelf, Abstract!Switch,
       Abstract!PIDs, PIDs, Abstract!NULL, Abstract!INITPID
  <2> QED
    BY <1>5, <2>2 DEF Conforms, Abstract!StatesNext
<1>8. CASE p # currentProcess
  <2>1. StatesOf(processes') = [StatesOf(processes) EXCEPT ![p] = "BLOCKED"]
        /\ currentProcess' = currentProcess
    BY <1>4, <1>6, <1>8, StayedIsStay
  <2>2. Abstract!BlockOther(p)
    BY <1>1, <1>8, <2>1 DEF StatesOf, Abstract!BlockOther, Abstract!Stay, Abstract!INITPID
  <2>3. Abstract!StatesNext
    BY <2>2 DEF Abstract!StatesNext, Abstract!PIDs, PIDs
  <2> QED
    BY <1>5, <2>3 DEF Conforms
<1> QED
  BY <1>7, <1>8

\* nice changes no state; a process that changes its own priority is preempted.
LEMMA NiceConforms == ASSUME SchedInv, Nice PROVE Conforms
<1>1. PICK p \in PIDs, prio \in Priorities :
        /\ processes[p].state # "EXITED"
        /\ IF p = currentProcess
           THEN SwitchContext(Reprioritized(Now, p, prio), TRUE)
           ELSE Return(Reprioritized(Now, p, prio))
  BY DEF Nice
<1>2. SameWaits /\ currentProcess # NULL /\ boot # "init"
  BY Facts DEF Nice, Calling, SameWaits
<1> DEFINE r == Reprioritized(Now, p, prio)
<1>3. /\ Sound(r, frame, stranded, boot # "init") /\ KeptAll(r)
      /\ \A q \in PIDs : /\ r.procs[q].state = processes[q].state
                         /\ r.procs[q].waitPid = processes[q].waitPid
  BY <1>1, <1>2, SoundReprioritized
<1> HIDE DEF r
<1>4. Outcome(r)
  <2>1. CASE p = currentProcess
    <3>1. (boot # "init") \in BOOLEAN /\ TRUE \in BOOLEAN /\ SwitchContext(r, TRUE)
      BY <1>1, <2>1 DEF r
    <3> QED
      BY <1>2, <1>3, <3>1, Facts, SwitchOutcome
  <2>2. CASE p # currentProcess
    <3>1. Return(r)
      BY <1>1, <2>2 DEF r
    <3> QED
      BY <1>3, <3>1, ReturnOutcome
  <2> QED
    BY <2>1, <2>2
<1>5. /\ Fresh /\ \A q \in PIDs : Kept(processes, processes', q)
      /\ WaitInv => WaitInv'
  BY <1>2, <1>3, <1>4, QuietStep
<1>6. StatesOf(r.procs) = StatesOf(processes)
  BY <1>3 DEF StatesOf
<1>7. CASE Handed(r)
  <2>1. CpuSwitch(StatesOf(processes))
    BY <1>6, <1>7, HandedIsSwitch
  <2>2. Abstract!Preempt
    BY <2>1 DEF CpuSwitch, StatesOf, Abstract!Preempt, Abstract!Switch, Abstract!PIDs, PIDs
  <2> QED
    BY <1>5, <2>2 DEF Conforms, Abstract!StatesNext
<1>8. CASE Stayed(r)
  <2>1. UNCHANGED (Abstract!procVars)
    BY <1>6, <1>8, StayedIsStay DEF StatesOf, Abstract!procVars
  <2> QED
    BY <1>5, <2>1 DEF Conforms
<1> QED
  BY <1>4, <1>7, <1>8 DEF Outcome

\* sys_unblock is Wake.
LEMMA UnblockConforms == ASSUME SchedInv, Unblock PROVE Conforms
<1>1. PICK p \in PIDs : Return(UnblockProcess(Now, p))
  BY DEF Unblock
<1>2. SameWaits
  BY DEF Unblock, SameWaits
<1> DEFINE r == UnblockProcess(Now, p)
<1>3. \A q \in PIDs :
        /\ r.procs[q].state = IF q = p /\ Now.procs[q].state = "BLOCKED"
                              THEN "READY" ELSE Now.procs[q].state
        /\ r.procs[q].waitPid = Now.procs[q].waitPid
        /\ Kept(Now.procs, r.procs, q)
  <2>1. Sound(Now, frame, stranded, boot # "init")
    BY Facts
  <2>2. (boot # "init") \in BOOLEAN /\ p \in PIDs \cup {NONPID}
    OBVIOUS
  <2> QED
    BY <2>1, <2>2, SoundUnblock
<1> HIDE DEF r
<1>4. Now.procs = processes
  BY Facts
<1>5. KeptAll(r) /\ Return(r)
  BY <1>1, <1>3, <1>4 DEF KeptAll, r
<1>6. Outcome(r) /\ Stayed(r)
  BY <1>5, ReturnOutcome
<1>7. /\ Fresh /\ \A q \in PIDs : Kept(processes, processes', q)
      /\ WaitInv => WaitInv'
  BY <1>2, <1>3, <1>4, <1>6, QuietStep
<1>8. StatesOf(processes') = [q \in PIDs |-> IF q \in {p} /\ StatesOf(processes)[q] = "BLOCKED"
                                             THEN "READY" ELSE StatesOf(processes)[q]]
      /\ currentProcess' = currentProcess
  BY <1>3, <1>4, <1>6 DEF StatesOf, Stayed
<1>9. Abstract!Wake({p})
  BY <1>8 DEF StatesOf, Abstract!Wake, Abstract!Woken, Abstract!Stay, Abstract!PIDs, PIDs
<1>10. Abstract!StatesNext
  BY <1>9 DEF Abstract!StatesNext, Abstract!PIDs, PIDs
<1> QED
  BY <1>7, <1>10 DEF Conforms

\* waitProcess is BlockSelf, and registers the waiter with a process that lives.
LEMMA WaitConforms == ASSUME SchedInv, Wait PROVE Conforms
<1> DEFINE c == currentProcess
<1>1. PICK t \in PIDs :
        /\ processes[t].state # "EXITED"
        /\ SwitchContext(Registered(Now, t, c), TRUE)
        /\ frame' = [frame EXCEPT ![c] = "wait"]
        /\ waitTarget' = [waitTarget EXCEPT ![c] = t]
        /\ NoteWait(t, c)
  BY DEF Wait
<1>2. c \in PIDs /\ c # INITPID /\ c # NULL /\ processes[c].state # "EXITED"
  BY Facts DEF Wait, Calling, Gone
<1> DEFINE r == Registered(Now, t, c)
<1>3. /\ Sound(r, frame', stranded, boot # "init") /\ KeptAll(r)
      /\ \A q \in PIDs :
           /\ r.procs[q].state = IF q = c THEN "BLOCKED" ELSE processes[q].state
           /\ r.procs[q].waitPid = IF q = t THEN c ELSE processes[q].waitPid
  <2>1. frame' = [frame EXCEPT ![c] = "wait"] /\ c = currentProcess /\ r = Registered(Now, t, c)
    BY <1>1
  <2> HIDE DEF c, r
  <2>2. Sound(r, frame', stranded, boot # "init") /\ KeptAll(r)
    BY <1>2, <2>1, SoundRegistered
  <2>3. ASSUME NEW q \in PIDs
        PROVE  /\ r.procs[q].state = IF q = c THEN "BLOCKED" ELSE processes[q].state
               /\ r.procs[q].waitPid = IF q = t THEN c ELSE processes[q].waitPid
    BY <1>2, <2>1, SoundRegistered
  <2> QED
    BY <2>2, <2>3
<1> HIDE DEF r
<1>4. Outcome(r) /\ Handed(r)
  <2>1. (boot # "init") \in BOOLEAN /\ TRUE \in BOOLEAN /\ SwitchContext(r, TRUE)
        /\ r.procs[c].state # "RUNNING"
    BY <1>1, <1>2, <1>3 DEF r
  <2> QED
    BY <1>2, <1>3, <2>1, Facts, SwitchOutcome
<1>5. \A q \in PIDs : /\ processes'[q].state = "EXITED" <=> processes[q].state = "EXITED"
                      /\ processes'[q].waitPid = IF q = t THEN c ELSE processes[q].waitPid
                      /\ Kept(processes, processes', q)
  BY <1>2, <1>3, <1>4 DEF Outcome
<1>6. Fresh
  BY <1>5 DEF Fresh
<1>7. WaitInv => WaitInv'
  <2> SUFFICES ASSUME WaitInv, NEW p \in PIDs, Awaits(p)' PROVE AwaitedBy(waitTarget[p], p)'
    BY DEF WaitInv
  <2>2. CASE p = c
    <3>1. waitTarget'[p] = t
      BY <1>1, <1>2, <2>2 DEF SchedInv
    <3> QED
      BY <1>1, <1>5, <2>2, <3>1 DEF AwaitedBy
  <2>3. CASE p # c
    <3>1. Awaits(p) /\ waitTarget'[p] = waitTarget[p] /\ waitTarget[p] # t
      BY <1>1, <1>5, <2>3, Facts DEF Awaits, NoteWait, SchedInv
    <3>2. AwaitedBy(waitTarget[p], p)
      BY <3>1 DEF WaitInv
    <3> QED
      BY <1>5, <3>1, <3>2 DEF AwaitedBy
  <2> QED
    BY <2>2, <2>3
<1>8. Abstract!BlockSelf
  <2>1. StatesOf(r.procs) = [StatesOf(processes) EXCEPT ![c] = "BLOCKED"]
    BY <1>3 DEF StatesOf
  <2>2. CpuSwitch([StatesOf(processes) EXCEPT ![c] = "BLOCKED"])
    BY <1>4, <2>1, HandedIsSwitch
  <2> QED
    BY <1>2, <2>2 DEF CpuSwitch, StatesOf, Abstract!BlockSelf, Abstract!Switch,
       Abstract!PIDs, PIDs, Abstract!NULL, Abstract!INITPID
<1> QED
  BY <1>5, <1>6, <1>7, <1>8 DEF Conforms, Abstract!StatesNext

\* kill, by a process or by Ctrl-C, is End: the waits for the process that ends are
\* over, and its waiter, if it is BLOCKED, is READY.
LEMMA KillConforms ==
    ASSUME SchedInv, NEW p \in PIDs, KillProcess(p), currentProcess # NULL
    PROVE  Conforms
<1> DEFINE r == Killed(Now, p)
           w == processes[p].waitPid
<1>1. /\ p # INITPID /\ processes[p].state # "EXITED"
      /\ IF p = currentProcess THEN SwitchContext(r, FALSE) ELSE Return(r)
      /\ frame' = [frame EXCEPT ![p] = "user"]
      /\ waitTarget' = [waitTarget EXCEPT ![p] = NONPID]
      /\ NoteEnd(p)
  BY DEF KillProcess, InOwnCode
<1>2. boot # "init"
  BY Facts
<1>3. Sound(r, frame', stranded, boot # "init") /\ KilledTable(processes, r.procs, p)
  BY <1>1, <1>2, KillEffect
<1> HIDE DEF r
<1>4. KeptAll(r)
  BY <1>3 DEF KilledTable, KeptAll
<1>5. Outcome(r) /\ (p = currentProcess \/ Stayed(r))
  <2>1. CASE p = currentProcess
    <3>1. (boot # "init") \in BOOLEAN /\ FALSE \in BOOLEAN /\ SwitchContext(r, FALSE)
      BY <1>1, <2>1
    <3> QED
      BY <1>2, <1>3, <1>4, <2>1, <3>1, Facts, SwitchOutcome
  <2>2. CASE p # currentProcess
    BY <1>1, <1>4, <2>2, ReturnOutcome
  <2> QED
    BY <2>1, <2>2
<1>6. \A q \in PIDs :
        /\ processes'[q].state = "EXITED" <=> q = p \/ processes[q].state = "EXITED"
        /\ q # p => processes'[q].waitPid = processes[q].waitPid
        /\ Kept(processes, processes', q)
  BY <1>3, <1>5 DEF Outcome, KilledTable
<1>7. Fresh
  BY <1>6 DEF Fresh
<1>8. WaitInv => WaitInv'
  <2> SUFFICES ASSUME WaitInv PROVE WaitInv'
    OBVIOUS
  <2>1. ASSUME NEW q \in PIDs, Awaits(q)'
        PROVE  Awaits(q) /\ waitTarget'[q] = waitTarget[q] /\ waitTarget[q] # p
    <3>1. q # p
      BY <1>6, <2>1 DEF Awaits
    <3> QED
      BY <1>1, <1>6, <2>1, <3>1, Facts DEF Awaits, NoteEnd, SchedInv
  <2>2. \A t, q \in PIDs : t # p /\ AwaitedBy(t, q) => AwaitedBy(t, q)'
    BY <1>6 DEF AwaitedBy
  <2> QED
    BY <2>1, <2>2, WaitCarried
<1>9. \E W \in {{}} \cup {{q} : q \in PIDs} :
        StatesOf(r.procs) = [q \in PIDs |->
           IF q \in W /\ [StatesOf(processes) EXCEPT ![p] = "EXITED"][q] = "BLOCKED"
           THEN "READY" ELSE [StatesOf(processes) EXCEPT ![p] = "EXITED"][q]]
  <2>1. w \in PIDs \cup {NONPID}
    <3>1. processes[p] \in PCB
      BY Facts
    <3> QED
      BY <3>1 DEF PCB
  <2> DEFINE W == IF w \in PIDs THEN {w} ELSE {}
  <2>2. \A q \in PIDs : q \in W <=> q = w
    BY <2>1
  <2>3. W \in {{}} \cup {{q} : q \in PIDs}
    OBVIOUS
  <2> HIDE DEF W
  <2>4. \A q \in PIDs : r.procs[q].state =
           IF q \in W /\ [StatesOf(processes) EXCEPT ![p] = "EXITED"][q] = "BLOCKED"
           THEN "READY" ELSE [StatesOf(processes) EXCEPT ![p] = "EXITED"][q]
    BY <1>3, <2>2 DEF KilledTable, StatesOf
  <2>5. StatesOf(r.procs) = [q \in PIDs |->
           IF q \in W /\ [StatesOf(processes) EXCEPT ![p] = "EXITED"][q] = "BLOCKED"
           THEN "READY" ELSE [StatesOf(processes) EXCEPT ![p] = "EXITED"][q]]
    BY <2>4 DEF StatesOf
  <2> QED
    BY <2>3, <2>5
<1>10. PICK W \in {{}} \cup {{q} : q \in PIDs} :
         StatesOf(r.procs) = [q \in PIDs |->
            IF q \in W /\ [StatesOf(processes) EXCEPT ![p] = "EXITED"][q] = "BLOCKED"
            THEN "READY" ELSE [StatesOf(processes) EXCEPT ![p] = "EXITED"][q]]
  BY <1>9
<1>11. Abstract!End(p, W)
  <2>1. CASE Stayed(r)
    <3>1. StatesOf(processes') = StatesOf(r.procs) /\ currentProcess' = currentProcess
      BY <2>1, StayedIsStay
    <3> QED
      BY <1>1, <1>10, <3>1 DEF Abstract!End, Abstract!Stay, Abstract!Woken, Abstract!INITPID,
         Abstract!PIDs, PIDs, StatesOf
  <2>2. CASE Handed(r) /\ p = currentProcess
    <3>1. CpuSwitch(StatesOf(r.procs))
      BY <2>2, HandedIsSwitch
    <3> QED
      BY <1>1, <1>10, <2>2, <3>1 DEF Abstract!End, Abstract!Switch, Abstract!Woken,
         Abstract!INITPID, Abstract!PIDs, PIDs, StatesOf, CpuSwitch
  <2> QED
    BY <1>5, <2>1, <2>2 DEF Outcome
<1>12. Abstract!StatesNext
  <2>1. CASE W = {}
    BY <1>11, <2>1 DEF Abstract!StatesNext, Abstract!PIDs, PIDs
  <2>2. CASE W # {}
    <3>1. PICK q \in PIDs : W = {q}
      BY <2>2
    <3> QED
      BY <1>11, <3>1 DEF Abstract!StatesNext, Abstract!PIDs, PIDs
  <2> QED
    BY <2>1, <2>2
<1> QED
  BY <1>6, <1>7, <1>8, <1>12 DEF Conforms

\* createProcess is Start: the slot it takes was EXITED, so nobody awaits it.
LEMMA StartConforms ==
    ASSUME SchedInv, NEW prio \in Levels, NEW fg \in BOOLEAN, FreeSlots # {},
           NEW p, p = Min(FreeSlots),
           processes' = [processes EXCEPT ![p] = NewPCB(p, prio, fg)],
           currentProcess' = currentProcess, InOwnCode(p),
           \A q \in PIDs : q # p => awaited'[q] = awaited[q]
    PROVE  Conforms
<1> DEFINE pcb == NewPCB(p, prio, fg)
<1>1. p \in PIDs /\ processes[p].state = "EXITED"
  <2>1. FreeSlots \subseteq Nat
    BY DEF FreeSlots, PIDs
  <2>2. p \in FreeSlots
    BY <2>1, MinInSet
  <2> QED
    BY <2>2 DEF FreeSlots
<1>2. /\ pcb.state = "READY" /\ pcb.waitPid = NONPID /\ pcb.stack
      /\ pcb.priority = prio /\ pcb.originalPriority = prio
  <2>1. processes[p] \in PCB
    BY <1>1, Facts
  <2> QED
    BY <2>1 DEF PCB, NewPCB
<1>3. processes'[p] = pcb /\ \A q \in PIDs : q # p => processes'[q] = processes[q]
  BY <1>1, Facts
<1> HIDE DEF pcb
<1>4. \A q \in PIDs : Kept(processes, processes', q)
  <2>1. MAX_AGING_BOOST \in Nat /\ prio \in Nat
    BY AgingAssumption DEF Levels
  <2> QED
    BY <1>2, <1>3, <2>1 DEF Kept, Ranked, Boosted
<1>5. frame'[p] = "user" /\ Fresh
  BY <1>1, <1>2, <1>3, Facts DEF Fresh, InOwnCode
<1>6. WaitInv => WaitInv'
  <2> SUFFICES ASSUME WaitInv PROVE WaitInv'
    OBVIOUS
  <2>1. ASSUME NEW q \in PIDs, Awaits(q)'
        PROVE  Awaits(q) /\ waitTarget'[q] = waitTarget[q]
    <3>1. q # p
      BY <1>5, <2>1 DEF Awaits
    <3> QED
      BY <1>3, <2>1, <3>1, Facts DEF Awaits, InOwnCode, SchedInv
  <2>2. \A t, q \in PIDs : AwaitedBy(t, q) => AwaitedBy(t, q)'
    BY <1>1, <1>3 DEF AwaitedBy
  <2> QED
    BY <2>1, <2>2, WaitCarried
<1>7. PICK q \in PIDs : q = p
  BY <1>1
<1>8. Abstract!Start(q)
  <2>1. StatesOf(processes') = [StatesOf(processes) EXCEPT ![q] = "READY"]
    <3>1. \A x \in PIDs : processes'[x].state = IF x = q THEN "READY" ELSE processes[x].state
      BY <1>2, <1>3, <1>7
    <3> QED
      BY <1>7, <3>1 DEF StatesOf
  <2> QED
    BY <1>1, <1>7, <2>1 DEF Abstract!Start, Abstract!Stay, StatesOf
<1>9. Abstract!StatesNext
  BY <1>8 DEF Abstract!StatesNext, Abstract!PIDs, PIDs
<1> QED
  BY <1>4, <1>5, <1>6, <1>9 DEF Conforms

\* createProcess as a system call, which queues the process too.
LEMMA CreateConforms ==
    ASSUME SchedInv, NEW prio \in Levels, NEW fg \in BOOLEAN, CreateProcess(prio, fg)
    PROVE  Conforms
<1>1. PICK p : p = Min(FreeSlots)
  OBVIOUS
<1>2. PICK t : t = [Now EXCEPT !.procs[p] = NewPCB(p, prio, fg)]
  OBVIOUS
<1>3. /\ FreeSlots # {} /\ Return(Schedule(t, p)) /\ InOwnCode(p)
      /\ awaited' = [awaited EXCEPT ![p] = "none"]
  BY <1>1, <1>2 DEF CreateProcess
<1>4. t.procs = [processes EXCEPT ![p] = NewPCB(p, prio, fg)]
  BY <1>2 DEF Now
<1>5. Schedule(t, p).procs = t.procs
  BY <1>2 DEF Schedule, Now
<1>6. processes' = t.procs /\ currentProcess' = currentProcess
  BY <1>3, <1>5 DEF Return
<1>7. \A q \in PIDs : q # p => awaited'[q] = awaited[q]
  BY <1>3 DEF SchedInv
<1> QED
  BY <1>1, <1>3, <1>4, <1>6, <1>7, StartConforms

\* createProcess of main, up to schedule.
LEMMA BootCreateConforms ==
    ASSUME SchedInv, NEW prio \in Levels, NEW fg \in BOOLEAN, BootCreate(prio, fg)
    PROVE  Conforms
<1>1. PICK p : p = Min(FreeSlots)
  OBVIOUS
<1>2. /\ FreeSlots # {} /\ InOwnCode(p) /\ awaited' = awaited
      /\ Return([Now EXCEPT !.procs[p] = NewPCB(p, prio, fg)])
  BY <1>1 DEF BootCreate
<1>3. /\ processes' = [processes EXCEPT ![p] = NewPCB(p, prio, fg)]
      /\ currentProcess' = currentProcess
  BY <1>2 DEF Return, Now
<1> QED
  BY <1>1, <1>2, <1>3, StartConforms

\* A step that leaves states and waitPids alone: the exit code, the queues, the stack.
LEMMA InvisibleConforms ==
    ASSUME NEW r, KeptAll(r), Return(r), SameWaits,
           \A q \in PIDs : /\ r.procs[q].state = processes[q].state
                           /\ r.procs[q].waitPid = processes[q].waitPid
    PROVE  Conforms
<1>1. Outcome(r) /\ Stayed(r)
  BY ReturnOutcome
<1>2. /\ Fresh /\ \A q \in PIDs : Kept(processes, processes', q)
      /\ WaitInv => WaitInv'
  BY <1>1, QuietStep
<1>3. UNCHANGED (Abstract!procVars)
  BY <1>1 DEF Stayed, Abstract!procVars
<1> QED
  BY <1>2, <1>3 DEF Conforms

\* The schedule of main's createProcess.
LEMMA BootScheduleConforms ==
    ASSUME SchedInv, NEW p \in PIDs, BootSchedule(p)
    PROVE  Conforms
<1>1. PICK r : r = Schedule(Now, p)
  OBVIOUS
<1>2. Return(r) /\ SameWaits
  BY <1>1 DEF BootSchedule, SameWaits
<1>3. r.procs = processes
  BY <1>1 DEF Schedule, Now
<1>4. KeptAll(r)
  BY <1>3 DEF KeptAll, Kept
<1> QED
  BY <1>2, <1>3, <1>4, InvisibleConforms

\* processLoader stores the exit code.
LEMMA ReturnFromEntryConforms == ASSUME SchedInv, ReturnFromEntry PROVE Conforms
<1> DEFINE c == currentProcess
<1>1. PICK v \in ExitCodes : Return([Now EXCEPT !.procs[c].waitReturnValue = v])
  BY DEF ReturnFromEntry
<1>2. c \in PIDs /\ SameWaits
  <2>1. "returned" # "wait"
    OBVIOUS
  <2> QED
    BY <2>1, Facts DEF ReturnFromEntry, Calling, Advance, SameWaits
<1> DEFINE r == [Now EXCEPT !.procs[c] = [processes[c] EXCEPT !.waitReturnValue = v]]
<1>3. [Now EXCEPT !.procs[c].waitReturnValue = v] = r
  BY <1>2, Facts DEF Kernel
<1>4. \A q \in PIDs : /\ r.procs[q].state = processes[q].state
                      /\ r.procs[q].waitPid = processes[q].waitPid
                      /\ r.procs[q].priority = processes[q].priority
                      /\ r.procs[q].originalPriority = processes[q].originalPriority
  <2>1. processes[c] \in PCB
    BY <1>2, Facts
  <2> QED
    BY <1>2, <2>1, Facts DEF Kernel, PCB
<1>5. Return(r)
  BY <1>1, <1>3
<1> HIDE DEF r
<1>6. KeptAll(r)
  BY <1>4 DEF KeptAll, Kept, Ranked, Boosted
<1> QED
  BY <1>2, <1>4, <1>5, <1>6, InvisibleConforms

\* The exit leaves one queue.
LEMMA ExitUnscheduleConforms == ASSUME SchedInv, ExitUnschedule PROVE Conforms
<1> DEFINE c == currentProcess
<1>1. PICK i \in Levels :
        /\ Return(RemoveFromQueue(Now, i, c))
        /\ Advance(IF i = MAX_PRIORITY THEN "unscheduled" ELSE UnschedulePoints[i + 1])
  BY DEF ExitUnschedule
<1>2. PICK x : frame' = [frame EXCEPT ![c] = x] /\ x # "wait"
  <2>1. PICK x : x = IF i = MAX_PRIORITY THEN "unscheduled" ELSE UnschedulePoints[i + 1]
    OBVIOUS
  <2>2. x # "wait"
    BY <1>1, <2>1, UnschedulePointsAre
  <2>3. frame' = [frame EXCEPT ![c] = x]
    BY <1>1, <2>1 DEF Advance
  <2> QED
    BY <2>2, <2>3
<1>3. c \in PIDs /\ waitTarget' = waitTarget /\ awaited' = awaited
  BY Facts DEF ExitUnschedule, At
<1>4. SameWaits
  BY <1>2, <1>3, Facts DEF SameWaits
<1>5. PICK r : r = RemoveFromQueue(Now, i, c)
  OBVIOUS
<1>6. Now \in Kernel /\ Now.procs = processes
  BY Facts
<1>7. r.procs = processes /\ Return(r)
  BY <1>1, <1>3, <1>5, <1>6, RemoveFromQueueEffect
<1>8. KeptAll(r)
  BY <1>7 DEF KeptAll, Kept
<1> QED
  BY <1>4, <1>7, <1>8, InvisibleConforms

\* The exit frees its stack.
LEMMA ExitFreeConforms == ASSUME SchedInv, ExitFree PROVE Conforms
<1> DEFINE c == currentProcess
           r == [Now EXCEPT !.procs[c] = [processes[c] EXCEPT !.stack = FALSE]]
<1>1. Return([Now EXCEPT !.procs[c].stack = FALSE]) /\ c \in PIDs /\ SameWaits
  BY Facts DEF ExitFree, At, Advance, SameWaits
<1>2. [Now EXCEPT !.procs[c].stack = FALSE] = r
  BY <1>1, Facts DEF Kernel
<1>3. \A q \in PIDs : /\ r.procs[q].state = processes[q].state
                      /\ r.procs[q].waitPid = processes[q].waitPid
                      /\ r.procs[q].priority = processes[q].priority
                      /\ r.procs[q].originalPriority = processes[q].originalPriority
  <2>1. processes[c] \in PCB
    BY <1>1, Facts
  <2> QED
    BY <1>1, <2>1, Facts DEF Kernel, PCB
<1>4. Return(r)
  BY <1>1, <1>2
<1> HIDE DEF r
<1>5. KeptAll(r)
  BY <1>3 DEF KeptAll, Kept, Ranked, Boosted
<1> QED
  BY <1>1, <1>3, <1>4, <1>5, InvisibleConforms

\* The exit marks itself EXITED, which is End that wakes nobody yet.
LEMMA ExitMarkConforms == ASSUME SchedInv, ExitMark PROVE Conforms
<1> DEFINE c == currentProcess
           r == [Now EXCEPT !.procs[c] = [processes[c] EXCEPT !.state = "EXITED"]]
<1>1. /\ Return([Now EXCEPT !.procs[c].state = "EXITED"]) /\ c # NULL /\ frame[c] = "freed"
      /\ frame' = [frame EXCEPT ![c] = "exited"] /\ waitTarget' = waitTarget
      /\ NoteEnd(c)
  BY DEF ExitMark, At, Advance
<1>2. c \in PIDs /\ c # INITPID /\ processes[c].state = "RUNNING"
  BY <1>1, Facts DEF Gone
<1>3. [Now EXCEPT !.procs[c].state = "EXITED"] = r
  BY <1>2, Facts DEF Kernel
<1>4. \A q \in PIDs : /\ r.procs[q].state = IF q = c THEN "EXITED" ELSE processes[q].state
                      /\ r.procs[q].waitPid = processes[q].waitPid
                      /\ r.procs[q].priority = processes[q].priority
                      /\ r.procs[q].originalPriority = processes[q].originalPriority
  <2>1. processes[c] \in PCB
    BY <1>2, Facts
  <2> QED
    BY <1>2, <2>1, Facts DEF Kernel, PCB
<1>5. Return(r)
  BY <1>1, <1>3
<1> HIDE DEF r
<1>6. KeptAll(r)
  BY <1>4 DEF KeptAll, Kept, Ranked, Boosted
<1>7. Outcome(r) /\ Stayed(r)
  BY <1>5, <1>6, ReturnOutcome
<1>8. Fresh /\ \A q \in PIDs : Kept(processes, processes', q)
  BY <1>4, <1>7 DEF Fresh, Outcome
<1>9. WaitInv => WaitInv'
  <2> SUFFICES ASSUME WaitInv PROVE WaitInv'
    OBVIOUS
  <2>1. ASSUME NEW q \in PIDs, Awaits(q)'
        PROVE  Awaits(q) /\ waitTarget'[q] = waitTarget[q] /\ waitTarget[q] # c
    <3>1. q # c
      BY <1>4, <1>7, <2>1 DEF Awaits, Outcome
    <3> QED
      BY <1>1, <1>4, <1>7, <2>1, <3>1, Facts DEF Awaits, NoteEnd, Outcome
  <2>2. \A t, q \in PIDs : t # c /\ AwaitedBy(t, q) => AwaitedBy(t, q)'
    BY <1>4, <1>7 DEF AwaitedBy, Outcome
  <2> QED
    BY <2>1, <2>2, WaitCarried
<1>10. PICK p \in PIDs : p = c
  BY <1>2
<1>11. Abstract!End(p, {})
  <2>1. StatesOf(processes') = [StatesOf(processes) EXCEPT ![p] = "EXITED"]
        /\ currentProcess' = currentProcess
    BY <1>4, <1>7, <1>10 DEF StatesOf, Stayed
  <2> QED
    BY <1>2, <1>10, <2>1 DEF Abstract!End, Abstract!Stay, Abstract!Woken, Abstract!INITPID,
       Abstract!PIDs, PIDs, StatesOf
<1>12. Abstract!StatesNext
  BY <1>11 DEF Abstract!StatesNext, Abstract!PIDs, PIDs
<1> QED
  BY <1>8, <1>9, <1>12 DEF Conforms

\* The exit sets its waiter READY, which is Wake, or finds it not BLOCKED.
LEMMA ExitWakeConforms == ASSUME SchedInv, ExitWake PROVE Conforms
<1> DEFINE c == currentProcess
           w == processes[c].waitPid
<1>1. /\ c # NULL /\ frame[c] = "exited"
      /\ IF w # NONPID /\ processes[w].state = "BLOCKED"
         THEN Return([Now EXCEPT !.procs[w].state = "READY"])
         ELSE Return([Now EXCEPT !.procs[c].waitPid = NONPID])
  BY DEF ExitWake, At
<1>2. /\ c \in PIDs /\ processes[c] \in PCB /\ processes[c].state = "EXITED"
  BY <1>1, Facts DEF Gone
<1>3. SameWaits
  <2>1. /\ \/ frame' = [frame EXCEPT ![c] = "waking"]
           \/ frame' = [frame EXCEPT ![c] = "woken"]
        /\ waitTarget' = waitTarget /\ awaited' = awaited
    BY DEF ExitWake, Advance
  <2> QED
    BY <1>2, <2>1, Facts DEF SameWaits
<1>4. CASE w # NONPID /\ processes[w].state = "BLOCKED"
  <2>1. PICK p \in PIDs : p = w
    BY <1>2, <1>4 DEF PCB
  <2> DEFINE r == [Now EXCEPT !.procs[p] = [processes[p] EXCEPT !.state = "READY"]]
  <2>2. [Now EXCEPT !.procs[w].state = "READY"] = r
    BY <2>1, Facts DEF Kernel
  <2>3. Return(r)
    BY <1>1, <1>4, <2>2
  <2>4. \A q \in PIDs : /\ r.procs[q].state = IF q = p THEN "READY" ELSE processes[q].state
                        /\ r.procs[q].waitPid = processes[q].waitPid
                        /\ r.procs[q].priority = processes[q].priority
                        /\ r.procs[q].originalPriority = processes[q].originalPriority
    <3>1. processes[p] \in PCB
      BY Facts
    <3> QED
      BY <3>1, Facts DEF Kernel, PCB
  <2> HIDE DEF r
  <2>5. KeptAll(r)
    BY <2>4 DEF KeptAll, Kept, Ranked, Boosted
  <2>6. Outcome(r) /\ Stayed(r)
    BY <2>3, <2>5, ReturnOutcome
  <2>7. /\ Fresh /\ \A q \in PIDs : Kept(processes, processes', q)
        /\ WaitInv => WaitInv'
    BY <1>3, <1>4, <2>1, <2>4, <2>6, QuietStep
  <2>8. Abstract!Wake({p})
    <3>1. StatesOf(processes') = [q \in PIDs |-> IF q \in {p} /\ StatesOf(processes)[q] = "BLOCKED"
                                                 THEN "READY" ELSE StatesOf(processes)[q]]
          /\ currentProcess' = currentProcess
      BY <1>4, <2>1, <2>4, <2>6 DEF StatesOf, Stayed
    <3> QED
      BY <3>1 DEF StatesOf, Abstract!Wake, Abstract!Woken, Abstract!Stay, Abstract!PIDs, PIDs
  <2>9. Abstract!StatesNext
    BY <2>8 DEF Abstract!StatesNext, Abstract!PIDs, PIDs
  <2> QED
    BY <2>7, <2>9 DEF Conforms
<1>5. CASE ~ (w # NONPID /\ processes[w].state = "BLOCKED")
  <2> DEFINE r == [Now EXCEPT !.procs[c] = [processes[c] EXCEPT !.waitPid = NONPID]]
  <2>1. Return(r)
    <3>1. [Now EXCEPT !.procs[c].waitPid = NONPID] = r
      BY <1>2, Facts DEF Kernel
    <3> QED
      BY <1>1, <1>5, <3>1
  <2>2. \A q \in PIDs : /\ r.procs[q].state = processes[q].state
                        /\ q # c => r.procs[q].waitPid = processes[q].waitPid
                        /\ r.procs[q].priority = processes[q].priority
                        /\ r.procs[q].originalPriority = processes[q].originalPriority
    BY <1>2, Facts DEF Kernel, PCB
  <2> HIDE DEF r
  <2>3. KeptAll(r)
    BY <2>2 DEF KeptAll, Kept, Ranked, Boosted
  <2>4. Outcome(r) /\ Stayed(r)
    BY <2>1, <2>3, ReturnOutcome
  <2>5. /\ Fresh /\ \A q \in PIDs : Kept(processes, processes', q)
        /\ WaitInv => WaitInv'
    BY <1>2, <1>3, <2>2, <2>4, QuietStep
  <2>6. UNCHANGED (Abstract!procVars)
    BY <2>2, <2>4 DEF Stayed, Abstract!procVars
  <2> QED
    BY <2>5, <2>6 DEF Conforms
<1> QED
  BY <1>4, <1>5

\* The exit queues its waiter; it is EXITED itself, so nobody awaits it any more.
LEMMA ExitScheduleConforms == ASSUME SchedInv, ExitSchedule PROVE Conforms
<1> DEFINE c == currentProcess
           w == processes[c].waitPid
           t == [Now EXCEPT !.procs[c] = [processes[c] EXCEPT !.waitPid = NONPID]]
           r == Schedule(t, w)
<1>1. /\ c # NULL /\ frame[c] = "waking"
      /\ Return(Schedule([Now EXCEPT !.procs[c].waitPid = NONPID], w))
      /\ frame' = [frame EXCEPT ![c] = "woken"]
      /\ waitTarget' = waitTarget /\ awaited' = awaited
  BY DEF ExitSchedule, At, Advance
<1>2. /\ c \in PIDs /\ processes[c] \in PCB /\ processes[c].state = "EXITED"
      /\ SoundProcess(Now, frame, stranded, c) /\ Now.procs = processes
  BY <1>1, Facts DEF Gone
<1>3. w \in PIDs /\ SameWaits
  BY <1>1, <1>2, Facts DEF SoundProcess, SameWaits
<1>4. [Now EXCEPT !.procs[c].waitPid = NONPID] = t
  BY <1>2, Facts DEF Kernel
<1>5. /\ t \in Kernel
      /\ \A q \in PIDs : /\ t.procs[q].state = processes[q].state
                         /\ q # c => t.procs[q].waitPid = processes[q].waitPid
                         /\ t.procs[q].priority = processes[q].priority
                         /\ t.procs[q].originalPriority = processes[q].originalPriority
  <2>1. [processes[c] EXCEPT !.waitPid = NONPID] \in PCB
    BY <1>2 DEF PCB
  <2> QED
    BY <1>2, <2>1, Facts DEF Kernel, PCB
<1> HIDE DEF t, w
<1>6. r.procs = t.procs
  BY <1>3, <1>5, ScheduleEffect
<1> HIDE DEF r
<1>7. Return(r)
  BY <1>1, <1>4 DEF r
<1>8. KeptAll(r)
  BY <1>5, <1>6 DEF KeptAll, Kept, Ranked, Boosted
<1>9. Outcome(r) /\ Stayed(r)
  BY <1>7, <1>8, ReturnOutcome
<1>10. /\ Fresh /\ \A q \in PIDs : Kept(processes, processes', q)
       /\ WaitInv => WaitInv'
  BY <1>2, <1>3, <1>5, <1>6, <1>9, QuietStep
<1>11. UNCHANGED (Abstract!procVars)
  BY <1>5, <1>6, <1>9 DEF Stayed, Abstract!procVars
<1> QED
  BY <1>10, <1>11 DEF Conforms

-----------------------------------------------------------------------------
\* Every step of the kernel conforms.
LEMMA NextConforms == ASSUME SchedInv, [Next]_vars PROVE Conforms
<1>1. CASE BootInit \/ BootShell
  <2>1. 1 \in Levels /\ MAX_PRIORITY \in Levels
    BY PriorityAssumption DEF Levels
  <2> QED
    BY <1>1, <2>1, BootCreateConforms DEF BootInit, BootShell
<1>2. CASE BootQueueInit \/ BootQueueShell
  <2>1. INITPID \in PIDs /\ SHELLPID \in PIDs
    BY ProcessesAssumption DEF PIDs, SHELLPID
  <2> QED
    BY <1>2, <2>1, BootScheduleConforms DEF BootQueueInit, BootQueueShell
<1>3. CASE BootSwitch
  BY <1>3, SwitchConforms DEF BootSwitch, SameWaits
<1>4. CASE TimerTick
  BY <1>4, SwitchConforms DEF TimerTick, SameWaits
<1>5. CASE CtrlC
  <2>1. Foreground \subseteq Nat /\ Foreground \subseteq PIDs
    BY DEF Foreground, PIDs
  <2>2. PICK p \in PIDs : p = Min(Foreground)
    BY <1>5, <2>1, MinInSet DEF CtrlC
  <2> QED
    BY <1>5, <2>2, KillConforms DEF CtrlC
<1>6. CASE Create
  <2>1. PICK prio \in Priorities, fg \in Modes : CreateProcess(prio, fg)
    BY <1>6 DEF Create
  <2>2. prio \in Levels /\ fg \in BOOLEAN
    BY InputsAssumption
  <2> QED
    BY <2>1, <2>2, CreateConforms
<1>7. CASE Kill
  BY <1>7, KillConforms DEF Kill, Calling
<1>8. CASE Block
  BY <1>8, BlockConforms
<1>9. CASE Unblock
  BY <1>9, UnblockConforms
<1>10. CASE Yield
  BY <1>10, SwitchConforms DEF Yield, SameWaits
<1>11. CASE Nice
  BY <1>11, NiceConforms
<1>12. CASE Wait
  BY <1>12, WaitConforms
<1>13. CASE WaitReturn
  <2>1. /\ currentProcess \in PIDs /\ SwitchContext(Now, FALSE)
        /\ frame' = [frame EXCEPT ![currentProcess] = "user"]
        /\ waitTarget' = [waitTarget EXCEPT ![currentProcess] = NONPID]
        /\ awaited' = [awaited EXCEPT ![currentProcess] = "none"]
    BY <1>13, Facts DEF WaitReturn, InOwnCode
  <2>2. SameWaits
    BY <2>1, Facts DEF SameWaits, SchedInv
  <2> QED
    BY <2>1, <2>2, SwitchConforms
<1>14. CASE ReturnFromEntry
  BY <1>14, ReturnFromEntryConforms
<1>15. CASE ExitSwitch
  BY <1>15, SwitchConforms DEF ExitSwitch, SameWaits
<1>16. CASE ExitUnschedule \/ ExitFree \/ ExitMark \/ ExitWake \/ ExitSchedule
  BY <1>16, ExitUnscheduleConforms, ExitFreeConforms, ExitMarkConforms, ExitWakeConforms,
     ExitScheduleConforms
<1>17. CASE UNCHANGED vars
  <2>1. processes' = processes /\ currentProcess' = currentProcess /\ frame' = frame
        /\ waitTarget' = waitTarget /\ awaited' = awaited
    BY <1>17 DEF vars
  <2>2. Fresh /\ \A p \in PIDs : Kept(processes, processes', p)
    BY <2>1 DEF Fresh, Kept
  <2>3. WaitInv => WaitInv'
    BY <2>1 DEF WaitInv, Awaits, AwaitedBy
  <2>4. UNCHANGED (Abstract!procVars)
    BY <2>1 DEF Abstract!procVars
  <2> QED
    BY <2>2, <2>3, <2>4 DEF Conforms
<1> QED
  BY <1>1, <1>2, <1>3, <1>4, <1>5, <1>6, <1>7, <1>8, <1>9, <1>10, <1>11, <1>12,
     <1>13, <1>14, <1>15, <1>16, <1>17 DEF Next, Boot, SystemCall, ExitStep

\* The initial table is that of ProcessStates, nobody waits and nobody is boosted.
LEMMA InitConforms == Init => Abstract!StatesInit /\ WaitInv /\ BoostBounded
<1> SUFFICES ASSUME Init PROVE Abstract!StatesInit /\ WaitInv /\ BoostBounded
  OBVIOUS
<1>1. \A p \in PIDs : /\ processes[p].state = "EXITED"
                      /\ processes[p].priority = 0 /\ processes[p].originalPriority = 0
  BY DEF Init
<1>2. Abstract!StatesInit
  BY <1>1 DEF Init, Abstract!StatesInit, Abstract!PIDs, PIDs, Abstract!NULL
<1>3. WaitInv
  BY <1>1 DEF WaitInv, Awaits
<1>4. BoostBounded
  BY <1>1, AgingAssumption DEF BoostBounded
<1> QED
  BY <1>2, <1>3, <1>4

\* The kernel implements the state diagram of ProcessStates, on which the other
\* components rest: whatever the queues, the quantum and the ageing do, a switch
\* gives the CPU to one READY process, a process blocks itself only by giving up the
\* CPU, and EXITED is left by a new process only.
THEOREM SchedulerImplementsStates == Spec => ImplementsProcessStates
<1>1. Init => Abstract!StatesInit
  BY InitConforms
<1>2. SchedInv /\ [Next]_vars => [Abstract!StatesNext]_(Abstract!procVars)
  BY NextConforms DEF Conforms
<1> QED
  BY <1>1, <1>2, SchedInvHolds, PTL DEF Spec, ImplementsProcessStates, Abstract!StatesSpec

\* Only createProcess takes a process out of EXITED: a killed process is never
\* dispatched, woken or blocked again, not even by a queue entry, a waiter's PID or
\* a late wake-up that still names it.
THEOREM EndedStaysEnded == Spec => NoResurrection
<1>1. SchedInv /\ [Next]_vars => Fresh
  BY NextConforms DEF Conforms
<1>2. SchedInv /\ [Next]_vars =>
        [\A p \in PIDs :
           processes[p].state = "EXITED" /\ processes'[p].state # "EXITED" =>
              /\ processes'[p].state = "READY"
              /\ processes'[p].stack
              /\ frame'[p] = "user"]_vars
  BY <1>1 DEF Fresh
<1> QED
  BY <1>2, SchedInvHolds, PTL DEF Spec, NoResurrection

\* Ageing stays within its bounds, however many entries a process has in the queues
\* and however often an entry is met in one pass, and init and the shell never age.
THEOREM BoostStaysBounded == Spec => []BoostBounded
<1>1. SchedInv /\ BoostBounded /\ [Next]_vars => BoostBounded'
  <2> SUFFICES ASSUME SchedInv, BoostBounded, [Next]_vars PROVE BoostBounded'
    OBVIOUS
  <2>1. \A p \in PIDs : Boosted(processes, p)
    BY DEF BoostBounded, Boosted
  <2>2. \A p \in PIDs : Kept(processes, processes', p)
    BY NextConforms DEF Conforms
  <2>3. \A p \in PIDs : Boosted(processes', p)
    BY <2>1, <2>2 DEF Kept
  <2> QED
    BY <2>3 DEF BoostBounded, Boosted
<1> QED
  BY <1>1, InitConforms, SchedInvHolds, PTL DEF Spec

\* A process blocked in waitProcess for one that has not ended is the one its target
\* will wake, through kills, exits and slots taken again, until a later caller takes
\* its place.
THEOREM WaitsStayRegistered == Spec => []WaitIsRegistered
<1>1. SchedInv /\ WaitInv /\ [Next]_vars => WaitInv'
  BY NextConforms DEF Conforms
<1>2. WaitInv => WaitIsRegistered
  BY DEF WaitInv, WaitIsRegistered, Awaits, AwaitedBy
<1> QED
  BY <1>1, <1>2, InitConforms, SchedInvHolds, PTL DEF Spec
-----------------------------------------------------------------------------
(***************************************************************************)
(* Who gets the CPU has the highest priority.  nice leaves the queues as   *)
(* they are, and a preempted process falls back to its own priority, so    *)
(* entries may be in queues above or below the priority of their process;  *)
(* the ageing pass before each dispatch puts them right.  It does so only  *)
(* because it cannot lower a priority while an entry is too high: that     *)
(* takes a boost that the counter, cleared by a dispatch, no longer        *)
(* accounts for, and then the entries were put right since.                *)
(***************************************************************************)
\* The counter accounts for the priority
Tight(pcb) == pcb.priority <= pcb.originalPriority
                               + Smaller(pcb.agingCounter \div AGING_THRESHOLD, MAX_AGING_BOOST)

NoneAbove(r, p) == \A l \in Levels : p \in Range(r.queues[l]) => l <= r.procs[p].priority

Placed(r, p) == Tight(r.procs[p]) \/ NoneAbove(r, p)

\* The pass is over: p has no entry above its priority and, if any, one at it
Settled(r, p) ==
    /\ NoneAbove(r, p)
    /\ \A l \in Levels : p \in Range(r.queues[l]) =>
          \E k \in Levels : k = r.procs[p].priority /\ p \in Range(r.queues[k])

\* The queues 1..i have had their turn
Stage(r, i, p) ==
    /\ \A l \in Levels : p \in Range(r.queues[l]) /\ l <= i => l <= r.procs[p].priority
    /\ \A l \in Levels : p \in Range(r.queues[l]) =>
          \E k \in Levels : p \in Range(r.queues[k]) /\ (k = r.procs[p].priority \/ k > i)
    /\ \/ Tight(r.procs[p])
       \/ \A l \in Levels : p \in Range(r.queues[l]) =>
             l <= r.procs[p].priority /\ (l > i \/ l = r.procs[p].priority)

\* Ageing makes the counter account for a priority that it changes, and raises it
\* when the counter accounted for it before.
LEMMA AgedPCBOrder ==
    ASSUME NEW pcb \in PCB, NEW n \in Nat
    PROVE  /\ Tight(AgedPCB(pcb, n)) \/ AgedPCB(pcb, n).priority = pcb.priority
           /\ Tight(pcb) => Tight(AgedPCB(pcb, n)) /\ pcb.priority <= AgedPCB(pcb, n).priority
<1> DEFINE old     == pcb.agingCounter
           counter == Smaller(old + n, AgingCap)
           b0      == Smaller(old \div AGING_THRESHOLD, MAX_AGING_BOOST)
           boost   == Smaller(counter \div AGING_THRESHOLD, MAX_AGING_BOOST)
           raised  == Smaller(pcb.originalPriority + boost, MAX_PRIORITY)
           prio    == IF counter >= AGING_THRESHOLD /\ pcb.priority < MAX_PRIORITY
                      THEN raised ELSE pcb.priority
           new     == [pcb EXCEPT !.agingCounter = counter, !.priority = prio]
<1>1. AgedPCB(pcb, n) = new
  BY DEF AgedPCB, PCB
<1>2. /\ AGING_THRESHOLD \in Nat /\ AGING_THRESHOLD >= 1 /\ MAX_AGING_BOOST \in Nat
      /\ AgingCap \in Nat /\ old \in Nat /\ counter \in Nat
  <2>1. AGING_THRESHOLD * MAX_AGING_BOOST \in Nat
    BY AgingAssumption
  <2> QED
    BY <2>1, AgingAssumption DEF Smaller, AgingCap, PCB
<1>3. pcb.priority \in 0..MAX_PRIORITY /\ pcb.originalPriority \in 0..MAX_PRIORITY
  BY DEF PCB
<1>4. /\ new.agingCounter = counter /\ new.priority = prio
      /\ new.originalPriority = pcb.originalPriority
  BY DEF PCB
<1>5. b0 \in 0..MAX_AGING_BOOST /\ boost \in 0..MAX_AGING_BOOST
  <2> HIDE DEF counter, old
  <2>1. counter \div AGING_THRESHOLD \in Nat /\ old \div AGING_THRESHOLD \in Nat
    BY <1>2
  <2> QED
    BY <1>2, <2>1 DEF Smaller
<1>6. b0 <= boost
  <2>1. CASE old + n <= AgingCap
    <3>1. counter = old + n
      BY <2>1 DEF Smaller
    <3> HIDE DEF old, counter
    <3>2. old \div AGING_THRESHOLD <= counter \div AGING_THRESHOLD
      BY <1>2, <3>1, QuotientGrows
    <3>3. old \div AGING_THRESHOLD \in Nat /\ counter \div AGING_THRESHOLD \in Nat
      BY <1>2
    <3> QED
      BY <1>2, <3>2, <3>3 DEF Smaller
  <2>2. CASE old + n > AgingCap
    <3>1. counter = AGING_THRESHOLD * MAX_AGING_BOOST
      BY <1>2, <2>2 DEF Smaller, AgingCap
    <3>2. counter \div AGING_THRESHOLD = MAX_AGING_BOOST
      <4> HIDE DEF counter
      <4> QED
        BY <1>2, <3>1, QuotientOfProduct
    <3>3. boost = MAX_AGING_BOOST
      <4> HIDE DEF counter
      <4> QED
        BY <1>2, <3>2 DEF Smaller
    <3> QED
      BY <1>5, <3>3
  <2> QED
    BY <1>2, <2>1, <2>2
<1>7. Tight(new) <=> prio <= pcb.originalPriority + boost
  BY <1>4 DEF Tight
<1>8. Tight(pcb) <=> pcb.priority <= pcb.originalPriority + b0
  BY DEF Tight
<1> HIDE DEF new, counter, b0, boost, old
<1>9. raised <= pcb.originalPriority + boost /\ raised \in Nat
  BY <1>3, <1>5 DEF Smaller
<1>10. Tight(new) \/ prio = pcb.priority
  BY <1>7, <1>9
<1>11. ASSUME Tight(pcb) PROVE prio <= pcb.originalPriority + boost /\ pcb.priority <= prio
  <2>1. pcb.priority <= pcb.originalPriority + boost
    BY <1>2, <1>3, <1>5, <1>6, <1>8, <1>11
  <2>2. pcb.priority <= raised
    BY <1>2, <1>3, <1>5, <2>1 DEF Smaller
  <2> QED
    BY <1>3, <1>9, <2>1, <2>2
<1> QED
  BY <1>1, <1>4, <1>7, <1>10, <1>11

\* One turn of applyAging's loop puts the entries of one queue right and disturbs
\* those of no queue before it.
LEMMA AgeStage ==
    ASSUME NEW r \in Kernel, NEW i \in Nat \ {0}, NEW p \in PIDs, Stage(r, i - 1, p),
           \A l \in Levels : p \in Range(r.queues[l]) => r.procs[p].priority \in Levels
                                                          /\ r.procs[p].originalPriority \in Levels
    PROVE  Stage(AgeQueue(r, i), i, p)
<1> DEFINE t   == AgeQueue(r, i)
           old == r.procs[p].priority
           new == t.procs[p].priority
           inI == i \in Levels /\ p \in Range(r.queues[i])
<1>1. /\ t \in Kernel
      /\ \/ t.procs[p] = r.procs[p]
         \/ inI /\ \E n \in Nat : t.procs[p] = AgedPCB(r.procs[p], n)
      /\ \A l \in Levels : p \in Range(t.queues[l]) <=>
           (l # i /\ p \in Range(r.queues[l])) \/ (inI /\ new = l)
  BY AgeQueueMoves
<1> HIDE DEF t
<1>2. r.procs[p] \in PCB /\ t.procs[p] \in PCB /\ old \in Nat /\ new \in Nat
      /\ \A l \in Levels : l \in Nat
  <2>1. r.procs[p] \in PCB /\ t.procs[p] \in PCB
    BY <1>1 DEF Kernel
  <2> QED
    BY <2>1 DEF PCB, Levels
<1>3. /\ Tight(t.procs[p]) \/ new = old
      /\ Tight(r.procs[p]) => Tight(t.procs[p]) /\ old <= new
      /\ ~inI => t.procs[p] = r.procs[p]
  <2>1. CASE t.procs[p] = r.procs[p]
    BY <1>2, <2>1
  <2>2. CASE inI /\ \E n \in Nat : t.procs[p] = AgedPCB(r.procs[p], n)
    BY <1>2, <2>2, AgedPCBOrder
  <2> QED
    BY <1>1, <2>1, <2>2
<1>4. inI => new \in Levels
  <2> SUFFICES ASSUME inI PROVE new \in Levels
    OBVIOUS
  <2>1. old \in Levels /\ r.procs[p].originalPriority \in Levels
    OBVIOUS
  <2>2. CASE t.procs[p] = r.procs[p]
    BY <2>1, <2>2
  <2>3. ASSUME NEW n \in Nat, t.procs[p] = AgedPCB(r.procs[p], n) PROVE new \in Levels
    BY <1>2, <2>1, <2>3, AgedPCBEffect
  <2> QED
    BY <1>1, <2>2, <2>3
<1> DEFINE E(l) == p \in Range(r.queues[l])
           F(l) == p \in Range(t.queues[l])
<1>5. /\ \A l \in Levels : E(l) /\ l <= i - 1 => l <= old
      /\ \A l \in Levels : E(l) => \E k \in Levels : E(k) /\ (k = old \/ k > i - 1)
      /\ Tight(r.procs[p]) \/ \A l \in Levels : E(l) => l <= old /\ (l > i - 1 \/ l = old)
  BY DEF Stage
<1>6. \A l \in Levels : F(l) <=> (l # i /\ E(l)) \/ (inI /\ new = l)
  BY <1>1
<1>7. inI <=> i \in Levels /\ E(i)
  OBVIOUS
<1> HIDE DEF E, F, inI, old, new
<1>8. ASSUME NEW l \in Levels, F(l), l <= i PROVE l <= new
  <2>1. CASE inI /\ new = l
    BY <1>2, <2>1
  <2>2. CASE l # i /\ E(l)
    <3>1. l <= old
      BY <1>2, <1>5, <1>8, <2>2
    <3>2. CASE Tight(r.procs[p])
      BY <1>2, <1>3, <3>1, <3>2
    <3>3. CASE ~Tight(r.procs[p])
      <4>1. l = old
        BY <1>2, <1>5, <1>8, <2>2, <3>3
      <4>2. ~inI
        BY <1>2, <1>5, <1>7, <1>8, <2>2, <3>3, <4>1
      <4> QED
        BY <1>3, <3>1, <4>2 DEF new, old
    <3> QED
      BY <3>2, <3>3
  <2> QED
    BY <1>6, <1>8, <2>1, <2>2
<1>9. ASSUME NEW l \in Levels, F(l)
      PROVE  \E k \in Levels : F(k) /\ (k = new \/ k > i)
  <2>1. CASE inI
    BY <1>4, <1>6, <2>1
  <2>2. CASE ~inI
    <3>1. E(l) /\ new = old
      BY <1>3, <1>6, <1>9, <2>2 DEF new, old
    <3>2. PICK k \in Levels : E(k) /\ (k = old \/ k > i - 1)
      BY <1>5, <3>1
    <3>3. k # i
      BY <1>7, <2>2, <3>2
    <3>4. F(k)
      BY <1>6, <3>2, <3>3
    <3> QED
      BY <1>2, <3>1, <3>2, <3>3, <3>4
  <2> QED
    BY <2>1, <2>2
<1>10. ASSUME ~Tight(t.procs[p]), NEW l \in Levels, F(l)
       PROVE  l <= new /\ (l > i \/ l = new)
  <2>1. ~Tight(r.procs[p]) /\ new = old
    BY <1>3, <1>10
  <2>2. CASE inI /\ new = l
    BY <1>2, <2>2
  <2>3. CASE l # i /\ E(l)
    BY <1>2, <1>5, <2>1, <2>3
  <2> QED
    BY <1>6, <1>10, <2>2, <2>3
<1>11. Stage(t, i, p)
  BY <1>8, <1>9, <1>10 DEF Stage, F, new
<1> QED
  BY <1>11 DEF t

\* Whoever is Placed before the ageing pass is Settled after it.
LEMMA AgingSettles ==
    ASSUME NEW r \in Kernel, QueuedRanked(r), NEW p \in PIDs, Placed(r, p)
    PROVE  Settled(ApplyAging(r), p)
<1> DEFINE a == AgeQueue(r, 1)
           b == AgeQueue(a, 2)
           c == AgeQueue(b, 3)
           d == AgeQueue(c, 4)
           e == AgeQueue(d, 5)
<1>1. Stage(r, 0, p)
  <2>1. r.procs[p] \in PCB /\ \A l \in Levels : l \in Nat /\ l > 0
    BY DEF Kernel, Levels
  <2> QED
    BY <2>1 DEF Stage, Placed, NoneAbove, PCB
<1>2. ASSUME NEW s \in Kernel, NEW i \in Nat \ {0}, QueuedRanked(s), Stage(s, i - 1, p)
      PROVE  AgeQueue(s, i) \in Kernel /\ QueuedRanked(AgeQueue(s, i)) /\ Stage(AgeQueue(s, i), i, p)
  <2>1. s.queues \in [Levels -> Seq(PIDs)]
    BY DEF Kernel
  <2>2. \A l \in Levels : p \in Range(s.queues[l]) => Ranked(s.procs, p)
    BY <1>2, <2>1, QueuedArePIDs DEF QueuedRanked
  <2>3. Stage(AgeQueue(s, i), i, p)
    BY <1>2, <2>2, AgeStage DEF Ranked
  <2> QED
    BY <1>2, <2>3, AgeQueueEffect
<1>3. a \in Kernel /\ QueuedRanked(a) /\ Stage(a, 1, p)
  BY <1>1, <1>2
<1> HIDE DEF a
<1>4. b \in Kernel /\ QueuedRanked(b) /\ Stage(b, 2, p)
  BY <1>2, <1>3
<1> HIDE DEF b
<1>5. c \in Kernel /\ QueuedRanked(c) /\ Stage(c, 3, p)
  BY <1>2, <1>4
<1> HIDE DEF c
<1>6. d \in Kernel /\ QueuedRanked(d) /\ Stage(d, 4, p)
  BY <1>2, <1>5
<1> HIDE DEF d
<1>7. e \in Kernel /\ QueuedRanked(e) /\ Stage(e, 5, p)
  BY <1>2, <1>6
<1> HIDE DEF e
<1>8. Settled(e, p)
  <2>1. \A l \in Levels : l \in Nat /\ l <= 5
    BY DEF Levels
  <2>2. NoneAbove(e, p)
    BY <1>7, <2>1 DEF Stage, NoneAbove
  <2>3. ASSUME NEW l \in Levels, p \in Range(e.queues[l])
        PROVE  \E k \in Levels : k = e.procs[p].priority /\ p \in Range(e.queues[k])
    <3>1. PICK k \in Levels : p \in Range(e.queues[k]) /\ (k = e.procs[p].priority \/ k > 5)
      BY <1>7, <2>3 DEF Stage
    <3> QED
      BY <2>1, <3>1
  <2> QED
    BY <2>2, <2>3 DEF Settled
<1>9. ApplyAging(r) = e
  BY DEF ApplyAging, a, b, c, d, e
<1> QED
  BY <1>8, <1>9

\* What the dispatch loop takes is in the highest queue that has something to run.
LEMMA DispatchPicks ==
    ASSUME NEW r \in Kernel, Dispatch(r)
    PROVE  /\ \A l \in Levels : Range(priorityQueues'[l]) \subseteq Range(r.queues[l])
           /\ \A p \in PIDs : /\ processes'[p].priority = r.procs[p].priority
                              /\ p # currentProcess' => processes'[p] = r.procs[p]
           /\ currentProcess' = NULL => \A l \in Levels : Range(priorityQueues'[l]) = {}
           /\ currentProcess' # NULL =>
                /\ currentProcess' \in PIDs
                /\ \E top \in Levels :
                     /\ currentProcess' \in Range(r.queues[top])
                     /\ \A l \in Levels : \A p \in Range(r.queues[l]) :
                          r.procs[p].state \notin {"BLOCKED", "EXITED"} => l <= top
<1> DEFINE levels == {i \in Levels : Runnable(r, i) # {}}
           top    == Max(levels)
           first  == Min(Runnable(r, top))
           next   == r.queues[top][first]
<1>1. r.queues \in [Levels -> Seq(PIDs)] /\ r.procs \in [PIDs -> PCB] /\ NULL \notin PIDs
  BY DEF Kernel, PIDs
<1>2. ASSUME NEW i \in Levels
      PROVE  /\ r.queues[i] \in Seq(PIDs) /\ DOMAIN r.queues[i] = 1..Len(r.queues[i])
             /\ Len(r.queues[i]) \in Nat
             /\ Runnable(r, i) \subseteq 1..Len(r.queues[i])
             /\ \A n \in 1..Len(r.queues[i]) :
                  r.queues[i][n] \in PIDs /\ r.queues[i][n] \in Range(r.queues[i])
  BY <1>1 DEF Runnable, Range
<1>3. CASE levels = {}
  <2>1. /\ currentProcess' = NULL /\ processes' = r.procs
        /\ priorityQueues' = [i \in Levels |-> << >>]
    BY <1>3 DEF Dispatch
  <2>2. \A i \in Levels : Range(priorityQueues'[i]) = {}
    BY <2>1 DEF Range
  <2> QED
    BY <1>1, <2>1, <2>2
<1>4. CASE levels # {}
  <2>1. top \in Levels /\ Runnable(r, top) # {} /\ \A i \in levels : i <= top
    <3>1. levels \subseteq 1..MAX_PRIORITY /\ MAX_PRIORITY \in Nat
      BY DEF Levels
    <3>2. top \in levels /\ \A i \in levels : i <= top
      <4> HIDE DEF levels
      <4> QED BY <1>4, <3>1, MaxInSet
    <3> QED
      BY <3>2
  <2>2. /\ currentProcess' = next
        /\ priorityQueues' = [i \in Levels |->
              IF i > top THEN << >>
              ELSE IF i = top THEN SubSeq(r.queues[i], first + 1, Len(r.queues[i]))
              ELSE r.queues[i]]
        /\ processes' = [r.procs EXCEPT ![next].state = "RUNNING", ![next].agingCounter = 0]
    BY <1>4 DEF Dispatch
  <2>3. \A l \in Levels : l <= top \/ Runnable(r, l) = {}
    BY <2>1
  <2> HIDE DEF levels, top
  <2>4. first \in Runnable(r, top)
    <3>1. Runnable(r, top) \subseteq Nat
      BY <1>2, <2>1
    <3> QED
      BY <2>1, <3>1, MinInSet
  <2> HIDE DEF first
  <2>5. first \in 1..Len(r.queues[top]) /\ next \in PIDs /\ next \in Range(r.queues[top])
    BY <1>2, <2>1, <2>4
  <2>6. Range(SubSeq(r.queues[top], first + 1, Len(r.queues[top]))) \subseteq Range(r.queues[top])
    <3>1. r.queues[top] \in Seq(PIDs) /\ first \in 0..Len(r.queues[top])
      BY <1>2, <2>1, <2>5
    <3>2. Range(SubSeq(r.queues[top], first + 1, Len(r.queues[top])))
              = {r.queues[top][n] : n \in (first + 1)..Len(r.queues[top])}
      BY <3>1, RangeOfSuffix
    <3>3. \A n \in (first + 1)..Len(r.queues[top]) : n \in 1..Len(r.queues[top])
      BY <1>2, <2>1, <2>5
    <3> QED
      BY <1>2, <2>1, <3>2, <3>3
  <2>7. ASSUME NEW l \in Levels PROVE Range(priorityQueues'[l]) \subseteq Range(r.queues[l])
    <3>1. Range(<< >>) = {}
      BY DEF Range
    <3>2. priorityQueues'[l] \in {<< >>, r.queues[l]}
          \/ (l = top /\ priorityQueues'[l] = SubSeq(r.queues[l], first + 1, Len(r.queues[l])))
      BY <2>2
    <3>3. CASE priorityQueues'[l] = << >>
      BY <3>1, <3>3
    <3>4. CASE priorityQueues'[l] = r.queues[l]
      BY <3>4
    <3>5. CASE l = top /\ priorityQueues'[l] = SubSeq(r.queues[l], first + 1, Len(r.queues[l]))
      BY <2>6, <3>5
    <3> QED
      BY <3>2, <3>3, <3>4, <3>5
  <2> HIDE DEF next
  <2>8. ASSUME NEW p \in PIDs
        PROVE  processes'[p].priority = r.procs[p].priority /\ (p # next => processes'[p] = r.procs[p])
    <3>1. r.procs[p] \in PCB
      BY <1>1
    <3> QED
      BY <1>1, <2>2, <2>5, <3>1 DEF PCB
  <2>9. ASSUME NEW l \in Levels, NEW p \in Range(r.queues[l]),
               r.procs[p].state \notin {"BLOCKED", "EXITED"}
        PROVE  l <= top
    <3>1. PICK n \in DOMAIN r.queues[l] : r.queues[l][n] = p
      BY DEF Range
    <3>2. n \in Runnable(r, l)
      BY <2>9, <3>1 DEF Runnable
    <3> QED
      BY <2>3, <3>2
  <2> QED
    BY <1>1, <2>1, <2>2, <2>5, <2>7, <2>8, <2>9
<1> QED
  BY <1>3, <1>4

-----------------------------------------------------------------------------
\* What the kernel r that a handler works on owes the ageing pass; while main boots,
\* a dispatch ages nobody, and only new processes are queued.
Orderly(r) ==
    /\ \A p \in PIDs : Placed(r, p)
    /\ currentProcess = NULL =>
         \A p \in PIDs : /\ Settled(r, p)
                         /\ p \in Queued(r.queues) => r.procs[p].state # "EXITED"

\* HighestPriorityFirst, of one step
TopRuns == currentProcess' \notin {currentProcess, NULL} =>
             \A p \in PIDs \ stranded :
                processes'[p].state = "READY"
                  => processes'[p].priority <= processes'[currentProcess'].priority

\* The dispatch of a kernel in which everyone is Settled takes the highest priority.
LEMMA DispatchOrder ==
    ASSUME NEW r \in Kernel, quantumsLeft \in 0..DEFAULT_QUANTUM, Dispatch(r),
           \A p \in PIDs : Settled(r, p)
    PROVE  /\ Orderly(Now)'
           /\ currentProcess' # NULL =>
                \A p \in Queued(r.queues) :
                   processes'[p].state = "READY"
                     => processes'[p].priority <= processes'[currentProcess'].priority
<1>1. /\ \A l \in Levels : Range(priorityQueues'[l]) \subseteq Range(r.queues[l])
      /\ \A p \in PIDs : /\ processes'[p].priority = r.procs[p].priority
                         /\ p # currentProcess' => processes'[p] = r.procs[p]
      /\ currentProcess' = NULL => \A l \in Levels : Range(priorityQueues'[l]) = {}
      /\ currentProcess' # NULL =>
           /\ currentProcess' \in PIDs
           /\ \E top \in Levels :
                /\ currentProcess' \in Range(r.queues[top])
                /\ \A l \in Levels : \A p \in Range(r.queues[l]) :
                     r.procs[p].state \notin {"BLOCKED", "EXITED"} => l <= top
  BY DispatchPicks
<1>2. /\ r.queues \in [Levels -> Seq(PIDs)] /\ r.procs \in [PIDs -> PCB]
      /\ processes' \in [PIDs -> PCB] /\ priorityQueues' \in [Levels -> Seq(PIDs)]
      /\ currentProcess' # NULL => processes'[currentProcess'].state = "RUNNING"
  <2>1. Types(processes', priorityQueues', currentProcess', quantumsLeft')
        /\ \A p \in PIDs :
             processes'[p].state = IF p = currentProcess' THEN "RUNNING" ELSE r.procs[p].state
    BY DispatchEffect
  <2> QED
    BY <1>1, <2>1 DEF Types, Kernel
<1>3. Now' = [procs |-> processes', queues |-> priorityQueues']
  BY DEF Now
<1> DEFINE n == [procs |-> processes', queues |-> priorityQueues']
<1>4. n.procs = processes' /\ n.queues = priorityQueues'
  OBVIOUS
<1> HIDE DEF n
<1>5. ASSUME NEW p \in PIDs PROVE NoneAbove(n, p)
  BY <1>1, <1>4, <1>5 DEF Settled, NoneAbove
<1>6. ASSUME currentProcess' = NULL, NEW p \in PIDs
      PROVE  Settled(n, p) /\ p \notin Queued(n.queues)
  <2>1. \A l \in Levels : Range(n.queues[l]) = {}
    BY <1>1, <1>4, <1>6
  <2> QED
    BY <1>2, <1>4, <1>5, <2>1, QueuedArePIDs DEF Settled
<1>7. Orderly(Now)'
  BY <1>3, <1>4, <1>5, <1>6 DEF Orderly, Placed, Settled, NoneAbove, n
<1>8. ASSUME currentProcess' # NULL, NEW p \in Queued(r.queues), processes'[p].state = "READY"
      PROVE  processes'[p].priority <= processes'[currentProcess'].priority
  <2>1. p \in PIDs /\ p # currentProcess' /\ currentProcess' \in PIDs
    BY <1>1, <1>2, <1>8, QueuedArePIDs
  <2>2. processes'[p] = r.procs[p]
    BY <1>1, <2>1
  <2>3. PICK top \in Levels :
          /\ currentProcess' \in Range(r.queues[top])
          /\ \A l \in Levels : \A q \in Range(r.queues[l]) :
               r.procs[q].state \notin {"BLOCKED", "EXITED"} => l <= top
    BY <1>1, <1>8
  <2>4. PICK k \in Levels : k = r.procs[p].priority /\ p \in Range(r.queues[k])
    BY <1>2, <2>1, QueuedArePIDs DEF Settled
  <2>5. k <= top
    BY <1>8, <2>2, <2>3, <2>4
  <2>6. top <= r.procs[currentProcess'].priority
    BY <2>1, <2>3 DEF Settled, NoneAbove
  <2>7. processes'[currentProcess'].priority = r.procs[currentProcess'].priority
        /\ r.procs[currentProcess'] \in PCB
    BY <1>1, <1>2, <2>1
  <2> QED
    BY <2>2, <2>4, <2>5, <2>6, <2>7 DEF PCB, Levels
<1> QED
  BY <1>7, <1>8

\* A process at its own priority needs no boost.
LEMMA OwnIsTight ==
    ASSUME NEW pcb \in PCB, pcb.priority = pcb.originalPriority
    PROVE  Tight(pcb)
<1>1. pcb.agingCounter \in Nat /\ AGING_THRESHOLD \in Nat \ {0} /\ MAX_AGING_BOOST \in Nat
  BY AgingAssumption DEF PCB
<1>2. pcb.agingCounter \div AGING_THRESHOLD \in Nat
  BY <1>1
<1>3. Smaller(pcb.agingCounter \div AGING_THRESHOLD, MAX_AGING_BOOST) \in Nat
  BY <1>1, <1>2 DEF Smaller
<1> QED
  BY <1>3 DEF Tight, PCB

\* schedule adds an entry at the priority of its process.
LEMMA ScheduleEntries ==
    ASSUME NEW r \in Kernel, NEW p \in PIDs
    PROVE  \A l \in Levels : \A q \in PIDs :
             q \in Range(Schedule(r, p).queues[l]) <=>
               q \in Range(r.queues[l]) \/ (q = p /\ l = r.procs[p].priority)
<1> DEFINE k == r.procs[p].priority
<1>1. r.queues \in [Levels -> Seq(PIDs)]
  BY DEF Kernel
<1>2. CASE k \notin Levels
  BY <1>2 DEF Schedule
<1>3. CASE k \in Levels
  <2> DEFINE Q == [r.queues EXCEPT ![k] = Append(r.queues[k], p)]
  <2>1. Schedule(r, p) = [r EXCEPT !.queues = Q]
    BY <1>3 DEF Schedule, Kernel
  <2>2. Schedule(r, p).queues = Q
    BY <2>1 DEF Kernel
  <2> HIDE DEF k
  <2>3. Range(Append(r.queues[k], p)) = Range(r.queues[k]) \cup {p}
    BY <1>1, <1>3, RangeOfAppend
  <2>4. \A l \in Levels : Q[l] = IF l = k THEN Append(r.queues[k], p) ELSE r.queues[l]
    BY <1>1
  <2> HIDE DEF Q
  <2>5. ASSUME NEW l \in Levels, NEW q \in PIDs
        PROVE  q \in Range(Schedule(r, p).queues[l]) <=> q \in Range(r.queues[l]) \/ (q = p /\ l = k)
    <3>1. CASE l = k
      BY <2>2, <2>3, <2>4, <3>1
    <3>2. CASE l # k
      BY <2>2, <2>4, <3>2
    <3> QED
      BY <3>1, <3>2
  <2> QED
    BY <2>5 DEF k
<1> QED
  BY <1>2, <1>3

\* schedule keeps the order; main schedules new processes only.
LEMMA OrderlySchedule ==
    ASSUME NEW r \in Kernel, Orderly(r), NEW p \in PIDs,
           currentProcess = NULL => r.procs[p].state # "EXITED",
           NEW t, t = Schedule(r, p)
    PROVE  Orderly(t)
<1>1. /\ t.procs = r.procs /\ t \in Kernel /\ Queued(t.queues) \subseteq Queued(r.queues) \cup {p}
      /\ \A l \in Levels : \A q \in PIDs :
           q \in Range(t.queues[l]) <=>
             q \in Range(r.queues[l]) \/ (q = p /\ l = r.procs[p].priority)
  BY ScheduleEffect, ScheduleEntries
<1>2. \A q \in PIDs : r.procs[q].priority \in Int
  <2>1. \A q \in PIDs : r.procs[q] \in PCB
    BY DEF Kernel
  <2> QED
    BY <2>1 DEF PCB
<1>3. \A l \in Levels : l \in Int
  BY DEF Levels
<1>4. ASSUME NEW q \in PIDs PROVE NoneAbove(r, q) => NoneAbove(t, q)
  BY <1>1, <1>2, <1>3 DEF NoneAbove
<1>5. ASSUME NEW q \in PIDs PROVE Settled(r, q) => Settled(t, q)
  BY <1>1, <1>4 DEF Settled
<1> QED
  BY <1>1, <1>4, <1>5 DEF Orderly, Placed

\* unscheduleProcess takes entries away only.
LEMMA OrderlyUnschedule ==
    ASSUME NEW r \in Kernel, Orderly(r), NEW p \in PIDs, currentProcess # NULL,
           NEW t, t = UnscheduleProcess(r, p)
    PROVE  Orderly(t)
<1>1. t.queues = [l \in Levels |-> RemoveFirst(r.queues[l], p)] /\ t.procs = r.procs
  BY DEF UnscheduleProcess, Kernel
<1>2. r.queues \in [Levels -> Seq(PIDs)]
  BY DEF Kernel
<1>3. ASSUME NEW l \in Levels PROVE Range(t.queues[l]) \subseteq Range(r.queues[l])
  <2>1. r.queues[l] \in Seq(PIDs) /\ t.queues[l] = RemoveFirst(r.queues[l], p)
    BY <1>1, <1>2
  <2> QED
    BY <2>1, RemoveFirstEffect
<1>4. \A q \in PIDs : NoneAbove(r, q) => NoneAbove(t, q)
  BY <1>1, <1>3 DEF NoneAbove
<1> QED
  BY <1>1, <1>4 DEF Orderly, Placed

\* So does one turn of its loop.
LEMMA OrderlyRemoved ==
    ASSUME NEW r \in Kernel, Orderly(r), NEW i \in Levels, NEW p \in PIDs, currentProcess # NULL,
           NEW t, t = RemoveFromQueue(r, i, p)
    PROVE  Orderly(t)
<1>1. t.queues = [r.queues EXCEPT ![i] = RemoveFirst(r.queues[i], p)] /\ t.procs = r.procs
  BY DEF RemoveFromQueue, Kernel
<1>2. r.queues \in [Levels -> Seq(PIDs)]
  BY DEF Kernel
<1>3. ASSUME NEW l \in Levels PROVE Range(t.queues[l]) \subseteq Range(r.queues[l])
  <2>1. CASE l = i
    <3>1. r.queues[l] \in Seq(PIDs) /\ t.queues[l] = RemoveFirst(r.queues[l], p)
      BY <1>1, <1>2, <2>1
    <3> QED
      BY <3>1, RemoveFirstEffect
  <2>2. CASE l # i
    BY <1>1, <1>2, <2>2
  <2> QED
    BY <2>1, <2>2
<1>4. \A q \in PIDs : NoneAbove(r, q) => NoneAbove(t, q)
  BY <1>1, <1>3 DEF NoneAbove
<1> QED
  BY <1>1, <1>4 DEF Orderly, Placed

\* Rewriting a PCB keeps the order if the priority stays as it was and is accounted
\* for as it was, or is now the process's own.
LEMMA OrderlyWrite ==
    ASSUME NEW r \in Kernel, Orderly(r), NEW p \in PIDs, currentProcess # NULL, NEW pcb \in PCB,
           \/ /\ pcb.priority = r.procs[p].priority
              /\ pcb.originalPriority = r.procs[p].originalPriority
              /\ pcb.agingCounter = r.procs[p].agingCounter
           \/ pcb.priority = pcb.originalPriority,
           NEW t, t = [r EXCEPT !.procs[p] = pcb]
    PROVE  Orderly(t) /\ t \in Kernel /\ t.queues = r.queues
           /\ t.procs[p] = pcb /\ \A q \in PIDs : q # p => t.procs[q] = r.procs[q]
<1>1. /\ t \in Kernel /\ t.queues = r.queues
      /\ t.procs[p] = pcb /\ \A q \in PIDs : q # p => t.procs[q] = r.procs[q]
  BY DEF Kernel
<1>2. ASSUME NEW q \in PIDs PROVE Placed(t, q)
  <2>1. Placed(r, q)
    BY DEF Orderly
  <2>2. CASE q # p
    BY <1>1, <2>1, <2>2 DEF Placed, NoneAbove
  <2>3. CASE q = p /\ pcb.priority = pcb.originalPriority
    BY <1>1, <2>3, OwnIsTight DEF Placed
  <2>4. CASE /\ q = p
             /\ pcb.priority = r.procs[p].priority
             /\ pcb.originalPriority = r.procs[p].originalPriority
             /\ pcb.agingCounter = r.procs[p].agingCounter
    BY <1>1, <2>1, <2>4 DEF Placed, NoneAbove, Tight
  <2> QED
    BY <2>2, <2>3, <2>4
<1> QED
  BY <1>1, <1>2 DEF Orderly

\* A preempted process falls back to its own priority.
LEMMA OrderlyPreempted ==
    ASSUME NEW r \in Kernel, Orderly(r), NEW c \in PIDs, currentProcess # NULL
    PROVE  Orderly(Preempted(r, c))
<1> DEFINE pcb == [r.procs[c] EXCEPT !.state = "READY", !.priority = r.procs[c].originalPriority]
           s   == [r EXCEPT !.procs[c] = pcb]
<1>1. r.procs[c] \in PCB /\ r.procs \in [PIDs -> PCB]
  BY DEF Kernel
<1>2. /\ pcb \in PCB /\ pcb.priority = pcb.originalPriority /\ pcb.state = "READY"
  BY <1>1 DEF PCB, States
<1>3. Preempted(r, c) = Schedule(s, c)
  BY <1>1 DEF Preempted, Kernel
<1> HIDE DEF pcb
<1>4. Orderly(s) /\ s \in Kernel /\ s.procs[c] = pcb
  <2>1. s = [r EXCEPT !.procs[c] = pcb]
    OBVIOUS
  <2> HIDE DEF s
  <2>2. Orderly(s) /\ s \in Kernel
    BY <1>2, <2>1, OrderlyWrite
  <2>3. s.procs[c] = pcb
    BY <1>1, <2>1 DEF Kernel
  <2> QED
    BY <2>2, <2>3
<1> HIDE DEF s
<1>5. Orderly(Schedule(s, c))
  BY <1>2, <1>4, OrderlySchedule
<1> QED
  BY <1>3, <1>5

\* switchContext of an orderly kernel gives the CPU to the highest priority.
LEMMA SwitchOrder ==
    ASSUME NEW r, NEW yielded \in BOOLEAN, Switchable(r), Orderly(r), SwitchContext(r, yielded),
           \A p \in PIDs \ stranded : r.procs[p].state = "READY" => p \in Queued(r.queues)
    PROVE  Orderly(Now)' /\ TopRuns
<1>1. /\ r \in Kernel /\ QueuedRanked(r) /\ quantumsLeft \in 0..DEFAULT_QUANTUM
      /\ currentProcess # NULL => currentProcess \in PIDs /\ Ranked(r.procs, currentProcess)
      /\ Switched(r)
  BY SwitchContextEffect DEF Switchable
<1>2. \A p \in PIDs : processes'[p].state = "READY" => r.procs[p].state \in {"READY", "RUNNING"}
  <2>1. \A p \in PIDs : r.procs[p].state \in States
    <3>1. \A p \in PIDs : r.procs[p] \in PCB
      BY <1>1 DEF Kernel
    <3> QED
      BY <3>1 DEF PCB
  <2> QED
    BY <1>1, <2>1 DEF Switched, SwitchedProcess, States
<1>3. \A p \in PIDs : r.procs[p].state = "RUNNING" => p = currentProcess
  BY DEF Switchable
<1>4. CASE currentProcess = NULL
  <2>1. Dispatch(r) /\ \A p \in PIDs : Settled(r, p)
    BY <1>4 DEF SwitchContext, Orderly
  <2>2. \A p \in PIDs : p # NULL
    BY DEF PIDs
  <2>3. \A p \in PIDs \ stranded : processes'[p].state = "READY" => p \in Queued(r.queues)
    BY <1>2, <1>3, <1>4, <2>2
  <2> QED
    BY <1>1, <2>1, <2>3, DispatchOrder DEF TopRuns
<1>5. CASE currentProcess # NULL /\ r.procs[currentProcess].state = "RUNNING"
           /\ quantumsLeft > 0 /\ ~yielded
  <2>1. /\ processes' = r.procs /\ priorityQueues' = r.queues /\ currentProcess' = currentProcess
    BY <1>5 DEF SwitchContext
  <2>2. Now' = r
    BY <1>1, <2>1 DEF Now, Kernel
  <2>3. Orderly(Now)'
    BY <1>5, <2>1, <2>2 DEF Orderly, Placed, NoneAbove
  <2> QED
    BY <2>1, <2>3 DEF TopRuns
<1>6. CASE /\ currentProcess # NULL
           /\ ~(r.procs[currentProcess].state = "RUNNING" /\ quantumsLeft > 0 /\ ~yielded)
  <2> DEFINE c == currentProcess
             s == IF r.procs[c].state = "RUNNING" THEN Preempted(r, c) ELSE r
             t == ApplyAging(s)
  <2>1. Dispatch(t)
    BY <1>6 DEF SwitchContext
  <2>2. /\ s \in Kernel /\ QueuedRanked(s) /\ Orderly(s)
        /\ Queued(r.queues) \subseteq Queued(s.queues)
        /\ r.procs[c].state = "RUNNING" => c \in Queued(s.queues)
    <3>1. CASE r.procs[c].state = "RUNNING"
      <4>1. s = Preempted(r, c)
        BY <3>1
      <4> HIDE DEF s
      <4> QED
        BY <1>1, <1>6, <4>1, PreemptedEffect, OrderlyPreempted
    <3>2. CASE r.procs[c].state # "RUNNING"
      BY <1>1, <3>2
    <3> QED
      BY <3>1, <3>2
  <2> HIDE DEF s
  <2>3. t \in Kernel /\ Queued(t.queues) = Queued(s.queues) /\ \A p \in PIDs : Settled(t, p)
    BY <2>2, ApplyAgingEffect, AgingSettles DEF Orderly
  <2> HIDE DEF t
  <2>4. \A p \in PIDs \ stranded : processes'[p].state = "READY" => p \in Queued(t.queues)
    BY <1>2, <1>3, <2>2, <2>3
  <2> QED
    BY <1>1, <2>1, <2>3, <2>4, DispatchOrder DEF TopRuns
<1> QED
  BY <1>4, <1>5, <1>6

-----------------------------------------------------------------------------
OrderInv == Orderly(Now)

\* What each step of the kernel does for the order
KeepsOrder == OrderInv' /\ TopRuns

\* A handler that returns.
LEMMA ReturnOrder ==
    ASSUME NEW r \in Kernel, Orderly(r), Return(r)
    PROVE  KeepsOrder
<1>1. processes' = r.procs /\ priorityQueues' = r.queues /\ currentProcess' = currentProcess
  BY DEF Return
<1>2. Now' = r
  BY <1>1 DEF Now, Kernel
<1>3. Orderly(Now)'
  BY <1>1, <1>2 DEF Orderly, Placed, NoneAbove, Settled
<1> QED
  BY <1>1, <1>3 DEF KeepsOrder, OrderInv, TopRuns

\* A handler that switches.
LEMMA SwitchingOrder ==
    ASSUME SchedInv, NEW r, NEW f, NEW up, NEW yielded \in BOOLEAN,
           Sound(r, f, stranded, up), Orderly(r), SwitchContext(r, yielded)
    PROVE  KeepsOrder
<1>1. Switchable(r)
  BY Facts DEF Switchable, Sound, SoundProcess
<1>2. \A p \in PIDs \ stranded : r.procs[p].state = "READY" => p \in Queued(r.queues)
  BY DEF Sound, SoundProcess
<1> QED
  BY <1>1, <1>2, SwitchOrder DEF KeepsOrder, OrderInv

\* The handlers that only switch.
LEMMA NowOrder ==
    ASSUME SchedInv, OrderInv, NEW yielded \in BOOLEAN, SwitchContext(Now, yielded)
    PROVE  KeepsOrder
  BY Facts, SwitchingOrder DEF OrderInv

\* A handler that rewrites one PCB of the table as it is and returns.
LEMMA WriteOrder ==
    ASSUME SchedInv, OrderInv, currentProcess # NULL, NEW p \in PIDs, NEW pcb \in PCB,
           \/ /\ pcb.priority = processes[p].priority
              /\ pcb.originalPriority = processes[p].originalPriority
              /\ pcb.agingCounter = processes[p].agingCounter
           \/ pcb.priority = pcb.originalPriority,
           Return([Now EXCEPT !.procs[p] = pcb])
    PROVE  KeepsOrder
<1>1. Orderly(Now) /\ Now \in Kernel /\ Now.procs = processes
  BY Facts DEF OrderInv
<1>2. PICK t : t = [Now EXCEPT !.procs[p] = pcb]
  OBVIOUS
<1>3. Orderly(t) /\ t \in Kernel
  BY <1>1, <1>2, OrderlyWrite
<1> QED
  BY <1>2, <1>3, ReturnOrder

\* block changes a state only.
LEMMA BlockOrder == ASSUME SchedInv, OrderInv, Block PROVE KeepsOrder
<1>1. PICK p \in PIDs :
        /\ p # INITPID /\ processes[p].state # "EXITED"
        /\ IF p = currentProcess THEN SwitchContext(BlockedIn(Now, p), TRUE)
                                 ELSE Return(BlockedIn(Now, p))
  BY DEF Block, BlockedIn
<1>2. currentProcess # NULL
  BY DEF Block, Calling
<1> DEFINE pcb == [processes[p] EXCEPT !.state = "BLOCKED"]
<1>3. /\ pcb \in PCB /\ pcb.priority = processes[p].priority
      /\ pcb.originalPriority = processes[p].originalPriority
      /\ pcb.agingCounter = processes[p].agingCounter
  <2>1. processes[p] \in PCB
    BY Facts
  <2> QED
    BY <2>1 DEF PCB, States
<1>4. PICK r : r = BlockedIn(Now, p)
  OBVIOUS
<1>5. r = [Now EXCEPT !.procs[p] = pcb]
  BY <1>4, Facts DEF Kernel, BlockedIn
<1> HIDE DEF pcb
<1>6. Orderly(r) /\ r \in Kernel
  BY <1>2, <1>3, <1>5, Facts, OrderlyWrite DEF OrderInv
<1>7. Sound(r, frame, stranded, boot # "init")
  BY <1>1, <1>4, SoundBlocked
<1>8. CASE p = currentProcess
  BY <1>1, <1>4, <1>6, <1>7, <1>8, SwitchingOrder
<1>9. CASE p # currentProcess
  BY <1>1, <1>4, <1>6, <1>9, ReturnOrder
<1> QED
  BY <1>8, <1>9

\* nice sets the process's own priority too, so no boost is left over.
LEMMA NiceOrder == ASSUME SchedInv, OrderInv, Nice PROVE KeepsOrder
<1>1. PICK p \in PIDs, prio \in Priorities :
        /\ processes[p].state # "EXITED"
        /\ IF p = currentProcess
           THEN SwitchContext(Reprioritized(Now, p, prio), TRUE)
           ELSE Return(Reprioritized(Now, p, prio))
  BY DEF Nice
<1>2. currentProcess # NULL /\ boot # "init"
  BY Facts DEF Nice, Calling
<1> DEFINE pcb == [processes[p] EXCEPT !.priority = prio, !.originalPriority = prio,
                                       !.agingCounter = 0]
<1>3. pcb \in PCB /\ pcb.priority = pcb.originalPriority
  <2>1. processes[p] \in PCB /\ prio \in 0..MAX_PRIORITY
    BY Facts, InputsAssumption DEF Levels
  <2> QED
    BY <2>1 DEF PCB
<1>4. PICK r : r = Reprioritized(Now, p, prio)
  OBVIOUS
<1>5. r = [Now EXCEPT !.procs[p] = pcb]
  BY <1>4, Facts DEF Kernel, Reprioritized
<1> HIDE DEF pcb
<1>6. Orderly(r) /\ r \in Kernel
  BY <1>2, <1>3, <1>5, Facts, OrderlyWrite DEF OrderInv
<1>7. Sound(r, frame, stranded, boot # "init")
  BY <1>1, <1>2, <1>4, SoundReprioritized
<1>8. CASE p = currentProcess
  BY <1>1, <1>4, <1>6, <1>7, <1>8, SwitchingOrder
<1>9. CASE p # currentProcess
  BY <1>1, <1>4, <1>6, <1>9, ReturnOrder
<1> QED
  BY <1>8, <1>9

\* unblockProcess sets a process READY and queues it.
LEMMA OrderlyUnblock ==
    ASSUME NEW r \in Kernel, Orderly(r), currentProcess # NULL, NEW p,
           NEW t, t = UnblockProcess(r, p)
    PROVE  Orderly(t) /\ t \in Kernel
<1>1. CASE p \in PIDs /\ r.procs[p].state = "BLOCKED"
  <2> DEFINE pcb == [r.procs[p] EXCEPT !.state = "READY"]
  <2>1. r.procs[p] \in PCB
    BY <1>1 DEF Kernel
  <2>2. /\ pcb \in PCB /\ pcb.priority = r.procs[p].priority /\ pcb.state = "READY"
        /\ pcb.originalPriority = r.procs[p].originalPriority
        /\ pcb.agingCounter = r.procs[p].agingCounter
    BY <2>1 DEF PCB, States
  <2>3. PICK s : s = [r EXCEPT !.procs[p] = pcb]
    OBVIOUS
  <2>4. t = Schedule(s, p)
    <3>1. s = [r EXCEPT !.procs[p].state = "READY"]
      BY <1>1, <2>3 DEF Kernel
    <3> QED
      BY <1>1, <3>1 DEF UnblockProcess
  <2> HIDE DEF pcb
  <2>5. Orderly(s) /\ s \in Kernel
    BY <1>1, <2>2, <2>3, OrderlyWrite
  <2>6. s.procs[p].state # "EXITED"
    BY <1>1, <2>2, <2>3 DEF Kernel
  <2> QED
    BY <1>1, <2>4, <2>5, <2>6, OrderlySchedule, ScheduleEffect
<1>2. CASE ~(p \in PIDs /\ r.procs[p].state = "BLOCKED")
  BY <1>2 DEF UnblockProcess
<1> QED
  BY <1>1, <1>2

LEMMA UnblockOrder == ASSUME SchedInv, OrderInv, Unblock PROVE KeepsOrder
<1>1. PICK p \in PIDs : Return(UnblockProcess(Now, p))
  BY DEF Unblock
<1>2. currentProcess # NULL
  BY DEF Unblock, Calling
<1>3. PICK r : r = UnblockProcess(Now, p)
  OBVIOUS
<1>4. Orderly(r) /\ r \in Kernel
  BY <1>2, <1>3, Facts, OrderlyUnblock DEF OrderInv
<1> QED
  BY <1>1, <1>3, <1>4, ReturnOrder

\* waitProcess blocks the caller and registers it.
LEMMA WaitOrder == ASSUME SchedInv, OrderInv, Wait PROVE KeepsOrder
<1> DEFINE c == currentProcess
<1>1. PICK t \in PIDs : SwitchContext(Registered(Now, t, c), TRUE)
  BY DEF Wait
<1>2. c \in PIDs /\ c # INITPID /\ c # NULL
  BY Facts DEF Wait, Calling
<1> DEFINE pcb == [processes[t] EXCEPT !.waitPid = c]
<1>3. /\ pcb \in PCB /\ pcb.priority = processes[t].priority
      /\ pcb.originalPriority = processes[t].originalPriority
      /\ pcb.agingCounter = processes[t].agingCounter
  <2>1. processes[t] \in PCB
    BY Facts
  <2> QED
    BY <1>2, <2>1 DEF PCB
<1>4. PICK s : s = [Now EXCEPT !.procs[t] = pcb]
  OBVIOUS
<1> DEFINE own == [s.procs[c] EXCEPT !.state = "BLOCKED"]
<1>5. PICK r : r = Registered(Now, t, c)
  OBVIOUS
<1>6. r = [s EXCEPT !.procs[c] = own]
  <2>1. processes[t] \in PCB /\ processes[c] \in PCB
    BY <1>2, Facts
  <2> QED
    BY <1>2, <1>4, <1>5, <2>1, Facts DEF Registered, Kernel, PCB
<1> HIDE DEF pcb
<1>7. Orderly(s) /\ s \in Kernel
  BY <1>2, <1>3, <1>4, Facts, OrderlyWrite DEF OrderInv
<1>8. /\ own \in PCB /\ own.priority = s.procs[c].priority
      /\ own.originalPriority = s.procs[c].originalPriority
      /\ own.agingCounter = s.procs[c].agingCounter
  <2>1. s.procs[c] \in PCB
    BY <1>2, <1>7 DEF Kernel
  <2> QED
    BY <2>1 DEF PCB, States
<1> HIDE DEF own
<1>9. Orderly(r)
  BY <1>2, <1>6, <1>7, <1>8, OrderlyWrite
<1>10. PICK f : f = [frame EXCEPT ![c] = "wait"]
  OBVIOUS
<1>11. Sound(r, f, stranded, boot # "init")
  BY <1>2, <1>5, <1>10, SoundRegistered
<1> QED
  BY <1>1, <1>5, <1>9, <1>11, SwitchingOrder

\* kill takes entries away, and queues the waiter it wakes.
LEMMA KillOrder ==
    ASSUME SchedInv, OrderInv, NEW p \in PIDs, KillProcess(p), currentProcess # NULL
    PROVE  KeepsOrder
<1>1. /\ p # INITPID
      /\ IF p = currentProcess THEN SwitchContext(Killed(Now, p), FALSE) ELSE Return(Killed(Now, p))
  BY DEF KillProcess
<1> DEFINE u    == UnscheduleProcess(Now, p)
           pcb  == [u.procs[p] EXCEPT !.stack = FALSE, !.state = "EXITED"]
           gone == [u EXCEPT !.procs[p] = pcb]
           w    == gone.procs[p].waitPid
           b    == UnblockProcess(gone, w)
           last == [b.procs[p] EXCEPT !.waitPid = NONPID]
           k    == [b EXCEPT !.procs[p] = last]
<1>2. Orderly(u) /\ u \in Kernel
  <2>1. PICK t : t = UnscheduleProcess(Now, p)
    OBVIOUS
  <2>2. Orderly(t) /\ t \in Kernel
    BY <2>1, Facts, OrderlyUnschedule, UnscheduleEffect DEF OrderInv
  <2> QED
    BY <2>1, <2>2
<1>3. PICK r : r = Killed(Now, p)
  OBVIOUS
<1>4. gone = [UnscheduleProcess(Now, p) EXCEPT !.procs[p].stack = FALSE,
                                                !.procs[p].state = "EXITED"]
  <2> HIDE DEF u
  <2>1. u.procs \in [PIDs -> PCB] /\ u.procs[p] \in PCB
    BY <1>2 DEF Kernel
  <2>2. gone = [u EXCEPT !.procs[p].stack = FALSE, !.procs[p].state = "EXITED"]
    BY <1>2, <2>1 DEF Kernel, PCB
  <2> QED
    BY <2>2 DEF u
<1> HIDE DEF u
<1>5. u.procs[p] \in PCB
  BY <1>2 DEF Kernel
<1>6. /\ pcb \in PCB /\ pcb.priority = u.procs[p].priority
      /\ pcb.originalPriority = u.procs[p].originalPriority
      /\ pcb.agingCounter = u.procs[p].agingCounter
  BY <1>5 DEF PCB, States
<1>7. Orderly(gone) /\ gone \in Kernel
  <2> HIDE DEF pcb
  <2>1. PICK t : t = [u EXCEPT !.procs[p] = pcb]
    OBVIOUS
  <2>2. Orderly(t) /\ t \in Kernel
    BY <1>2, <1>6, <2>1, OrderlyWrite
  <2> QED
    BY <2>1, <2>2
<1>8. r = [b EXCEPT !.procs[p].waitPid = NONPID]
  <2> HIDE DEF gone
  <2> QED
    BY <1>3, <1>4 DEF Killed
<1> HIDE DEF gone
<1>9. Orderly(b) /\ b \in Kernel
  BY <1>7, OrderlyUnblock
<1> HIDE DEF b
<1>10. b.procs[p] \in PCB
  BY <1>9 DEF Kernel
<1>11. /\ last \in PCB /\ last.priority = b.procs[p].priority
       /\ last.originalPriority = b.procs[p].originalPriority
       /\ last.agingCounter = b.procs[p].agingCounter
  BY <1>10 DEF PCB
<1>12. r = k
  BY <1>8, <1>9, <1>10 DEF Kernel
<1> HIDE DEF last
<1>13. Orderly(r) /\ r \in Kernel
  BY <1>9, <1>11, <1>12, OrderlyWrite
<1>14. CASE p = currentProcess
  <2>1. PICK f : f = [frame EXCEPT ![p] = "user"]
    OBVIOUS
  <2>2. Sound(r, f, stranded, boot # "init")
    BY <1>1, <1>3, <2>1, Facts, KillEffect
  <2> QED
    BY <1>1, <1>3, <1>13, <1>14, <2>2, SwitchingOrder
<1>15. CASE p # currentProcess
  BY <1>1, <1>3, <1>13, <1>15, ReturnOrder
<1> QED
  BY <1>14, <1>15

\* createProcess gives the slot it takes a PCB at its own priority; while main boots,
\* the slot has no entry left from an earlier process.
LEMMA OrderlyCreated ==
    ASSUME SchedInv, OrderInv, NEW prio \in Levels, NEW fg \in BOOLEAN, FreeSlots # {},
           NEW p, p = Min(FreeSlots), NEW t, t = [Now EXCEPT !.procs[p] = NewPCB(p, prio, fg)]
    PROVE  /\ p \in PIDs /\ t.procs[p].state = "READY"
           /\ Orderly(t) /\ t \in Kernel
<1> DEFINE pcb == NewPCB(p, prio, fg)
<1>1. p \in PIDs /\ processes[p].state = "EXITED"
  <2>1. FreeSlots \subseteq Nat
    BY DEF FreeSlots, PIDs
  <2>2. p \in FreeSlots
    BY <2>1, MinInSet
  <2> QED
    BY <2>2 DEF FreeSlots
<1>2. pcb \in PCB /\ pcb.priority = pcb.originalPriority /\ pcb.state = "READY"
  <2>1. processes[p] \in PCB /\ prio \in 0..MAX_PRIORITY
    BY <1>1, Facts DEF Levels
  <2> QED
    BY <2>1 DEF PCB, States, NewPCB
<1>3. t = [Now EXCEPT !.procs[p] = pcb]
  OBVIOUS
<1> HIDE DEF pcb
<1>4. /\ t \in Kernel /\ t.queues = priorityQueues /\ t.procs[p] = pcb
      /\ \A q \in PIDs : q # p => t.procs[q] = processes[q]
  <2>1. PICK own \in PCB : own = pcb
    BY <1>2
  <2>2. /\ Now \in Kernel /\ Now.procs = processes /\ Now.queues = priorityQueues
        /\ t = [Now EXCEPT !.procs[p] = own]
    BY <1>3, <2>1, Facts
  <2>3. /\ t.procs = [processes EXCEPT ![p] = own] /\ t.queues = priorityQueues
        /\ t = [procs |-> t.procs, queues |-> t.queues]
    BY <2>2 DEF Now
  <2>4. /\ processes \in [PIDs -> PCB] /\ priorityQueues \in [Levels -> Seq(PIDs)]
    BY <2>2 DEF Kernel
  <2>5. t \in Kernel
    BY <1>1, <2>1, <2>3, <2>4 DEF Kernel
  <2> QED
    BY <1>1, <2>1, <2>3, <2>4, <2>5
<1>5. CASE currentProcess # NULL
  <2>1. Orderly(t)
    BY <1>1, <1>2, <1>3, <1>5, Facts, OrderlyWrite DEF OrderInv
  <2> QED
    BY <1>1, <1>2, <1>4, <2>1
<1>6. CASE currentProcess = NULL
  <2>1. \A q \in PIDs : /\ Settled(Now, q) /\ Placed(Now, q)
                        /\ q \in Queued(priorityQueues) => processes[q].state # "EXITED"
    BY <1>6, Facts DEF OrderInv, Orderly
  <2>2. p \notin Queued(priorityQueues) /\ priorityQueues \in [Levels -> Seq(PIDs)]
    BY <1>1, <2>1, Facts DEF Kernel
  <2>3. \A l \in Levels : p \notin Range(t.queues[l])
    BY <1>4, <2>2, QueuedArePIDs
  <2>4. ASSUME NEW q \in PIDs PROVE Settled(t, q)
    <3>1. CASE q = p
      BY <2>3, <3>1 DEF Settled, NoneAbove
    <3>2. CASE q # p
      BY <1>4, <2>1, <3>2, Facts DEF Settled, NoneAbove
    <3> QED
      BY <3>1, <3>2
  <2>5. ASSUME NEW q \in PIDs, q \in Queued(t.queues) PROVE t.procs[q].state # "EXITED"
    <3>1. q # p
      BY <1>4, <2>2, <2>5
    <3> QED
      BY <1>4, <2>1, <2>5, <3>1
  <2>6. Orderly(t)
    BY <2>4, <2>5 DEF Orderly, Placed, Settled
  <2> QED
    BY <1>1, <1>2, <1>4, <2>6
<1> QED
  BY <1>5, <1>6

\* createProcess as a system call queues the process it made.
LEMMA CreateOrder ==
    ASSUME SchedInv, OrderInv, NEW prio \in Levels, NEW fg \in BOOLEAN, CreateProcess(prio, fg)
    PROVE  KeepsOrder
<1>1. PICK p : p = Min(FreeSlots)
  OBVIOUS
<1>2. PICK t : t = [Now EXCEPT !.procs[p] = NewPCB(p, prio, fg)]
  OBVIOUS
<1>3. FreeSlots # {} /\ Return(Schedule(t, p))
  BY <1>1, <1>2 DEF CreateProcess
<1>4. p \in PIDs /\ t.procs[p].state = "READY" /\ Orderly(t) /\ t \in Kernel
  BY <1>1, <1>2, <1>3, OrderlyCreated
<1>5. PICK r : r = Schedule(t, p)
  OBVIOUS
<1>6. Orderly(r) /\ r \in Kernel
  BY <1>4, <1>5, OrderlySchedule, ScheduleEffect
<1> QED
  BY <1>3, <1>5, <1>6, ReturnOrder

\* createProcess of main, up to schedule.
LEMMA BootCreateOrder ==
    ASSUME SchedInv, OrderInv, NEW prio \in Levels, NEW fg \in BOOLEAN, BootCreate(prio, fg)
    PROVE  KeepsOrder
<1>1. PICK p : p = Min(FreeSlots)
  OBVIOUS
<1>2. PICK t : t = [Now EXCEPT !.procs[p] = NewPCB(p, prio, fg)]
  OBVIOUS
<1>3. FreeSlots # {} /\ Return(t)
  BY <1>1, <1>2 DEF BootCreate
<1>4. Orderly(t) /\ t \in Kernel
  BY <1>1, <1>2, <1>3, OrderlyCreated
<1> QED
  BY <1>3, <1>4, ReturnOrder

\* schedule of main: the process it queues is the one it has just created.
LEMMA BootScheduleOrder ==
    ASSUME SchedInv, OrderInv, NEW p \in PIDs, BootSchedule(p), currentProcess = NULL,
           \/ boot = "queueInit" /\ p = INITPID
           \/ boot = "queueShell" /\ p = SHELLPID
    PROVE  KeepsOrder
<1>1. processes[p].state # "EXITED"
  <2>1. CASE boot = "queueInit" /\ p = INITPID
    BY <2>1, Facts DEF Sound
  <2>2. CASE boot = "queueShell" /\ p = SHELLPID
    BY <2>2 DEF SchedInv, BootInv
  <2> QED
    BY <2>1, <2>2
<1>2. PICK r : r = Schedule(Now, p)
  OBVIOUS
<1>3. Orderly(r) /\ r \in Kernel
  BY <1>1, <1>2, Facts, OrderlySchedule, ScheduleEffect DEF OrderInv
<1>4. Return(r)
  BY <1>2 DEF BootSchedule
<1> QED
  BY <1>3, <1>4, ReturnOrder

-----------------------------------------------------------------------------
\* The steps of an exit.
LEMMA ReturnFromEntryOrder == ASSUME SchedInv, OrderInv, ReturnFromEntry PROVE KeepsOrder
<1> DEFINE c == currentProcess
<1>1. PICK v \in ExitCodes : Return([Now EXCEPT !.procs[c].waitReturnValue = v])
  BY DEF ReturnFromEntry
<1> DEFINE pcb == [processes[c] EXCEPT !.waitReturnValue = v]
<1>2. c # NULL /\ c \in PIDs /\ processes[c] \in PCB /\ v \in Int
  BY Facts, InputsAssumption DEF ReturnFromEntry, Calling
<1>3. /\ pcb \in PCB /\ pcb.priority = processes[c].priority
      /\ pcb.originalPriority = processes[c].originalPriority
      /\ pcb.agingCounter = processes[c].agingCounter
  BY <1>2 DEF PCB
<1>4. [Now EXCEPT !.procs[c].waitReturnValue = v] = [Now EXCEPT !.procs[c] = pcb]
  BY <1>2, Facts DEF Kernel
<1> HIDE DEF pcb
<1> QED
  BY <1>1, <1>2, <1>3, <1>4, WriteOrder

LEMMA ExitFreeOrder == ASSUME SchedInv, OrderInv, ExitFree PROVE KeepsOrder
<1> DEFINE c   == currentProcess
           pcb == [processes[c] EXCEPT !.stack = FALSE]
<1>1. c # NULL /\ c \in PIDs /\ processes[c] \in PCB
  BY Facts DEF ExitFree, At
<1>2. /\ pcb \in PCB /\ pcb.priority = processes[c].priority
      /\ pcb.originalPriority = processes[c].originalPriority
      /\ pcb.agingCounter = processes[c].agingCounter
  BY <1>1 DEF PCB
<1>3. [Now EXCEPT !.procs[c].stack = FALSE] = [Now EXCEPT !.procs[c] = pcb]
  BY <1>1, Facts DEF Kernel
<1>4. Return([Now EXCEPT !.procs[c].stack = FALSE])
  BY DEF ExitFree
<1> HIDE DEF pcb
<1> QED
  BY <1>1, <1>2, <1>3, <1>4, WriteOrder

LEMMA ExitMarkOrder == ASSUME SchedInv, OrderInv, ExitMark PROVE KeepsOrder
<1> DEFINE c   == currentProcess
           pcb == [processes[c] EXCEPT !.state = "EXITED"]
<1>1. c # NULL /\ c \in PIDs /\ processes[c] \in PCB
  BY Facts DEF ExitMark, At
<1>2. /\ pcb \in PCB /\ pcb.priority = processes[c].priority
      /\ pcb.originalPriority = processes[c].originalPriority
      /\ pcb.agingCounter = processes[c].agingCounter
  BY <1>1 DEF PCB, States
<1>3. [Now EXCEPT !.procs[c].state = "EXITED"] = [Now EXCEPT !.procs[c] = pcb]
  BY <1>1, Facts DEF Kernel
<1>4. Return([Now EXCEPT !.procs[c].state = "EXITED"])
  BY DEF ExitMark
<1> HIDE DEF pcb
<1> QED
  BY <1>1, <1>2, <1>3, <1>4, WriteOrder

LEMMA ExitUnscheduleOrder == ASSUME SchedInv, OrderInv, ExitUnschedule PROVE KeepsOrder
<1>1. PICK i \in Levels : /\ currentProcess # NULL
                         /\ Return(RemoveFromQueue(Now, i, currentProcess))
  BY DEF ExitUnschedule, At
<1>2. currentProcess \in PIDs
  BY <1>1, Facts
<1>3. PICK r : r = RemoveFromQueue(Now, i, currentProcess)
  OBVIOUS
<1>4. Orderly(r) /\ r \in Kernel
  BY <1>1, <1>2, <1>3, Facts, OrderlyRemoved, RemoveFromQueueEffect DEF OrderInv
<1> QED
  BY <1>1, <1>3, <1>4, ReturnOrder

LEMMA ExitWakeOrder == ASSUME SchedInv, OrderInv, ExitWake PROVE KeepsOrder
<1> DEFINE c == currentProcess
<1>1. PICK w : w = processes[c].waitPid
  OBVIOUS
<1>2. /\ c # NULL
      /\ IF w # NONPID /\ processes[w].state = "BLOCKED"
         THEN Return([Now EXCEPT !.procs[w].state = "READY"])
         ELSE Return([Now EXCEPT !.procs[c].waitPid = NONPID])
  BY <1>1 DEF ExitWake, At
<1>3. c \in PIDs /\ processes[c] \in PCB
  BY <1>2, Facts
<1>4. CASE w # NONPID /\ processes[w].state = "BLOCKED"
  <2> DEFINE pcb == [processes[w] EXCEPT !.state = "READY"]
  <2>1. w \in PIDs /\ processes[w] \in PCB
    <3>1. w \in PIDs
      BY <1>1, <1>3, <1>4 DEF PCB
    <3> QED
      BY <3>1, Facts
  <2>2. /\ pcb \in PCB /\ pcb.priority = processes[w].priority
        /\ pcb.originalPriority = processes[w].originalPriority
        /\ pcb.agingCounter = processes[w].agingCounter
    BY <2>1 DEF PCB, States
  <2>3. [Now EXCEPT !.procs[w].state = "READY"] = [Now EXCEPT !.procs[w] = pcb]
    BY <2>1, Facts DEF Kernel
  <2> HIDE DEF pcb
  <2> QED
    BY <1>2, <1>4, <2>1, <2>2, <2>3, WriteOrder
<1>5. CASE ~(w # NONPID /\ processes[w].state = "BLOCKED")
  <2> DEFINE pcb == [processes[c] EXCEPT !.waitPid = NONPID]
  <2>1. /\ pcb \in PCB /\ pcb.priority = processes[c].priority
        /\ pcb.originalPriority = processes[c].originalPriority
        /\ pcb.agingCounter = processes[c].agingCounter
    BY <1>3 DEF PCB
  <2>2. [Now EXCEPT !.procs[c].waitPid = NONPID] = [Now EXCEPT !.procs[c] = pcb]
    BY <1>3, Facts DEF Kernel
  <2> HIDE DEF pcb
  <2> QED
    BY <1>2, <1>3, <1>5, <2>1, <2>2, WriteOrder
<1> QED
  BY <1>4, <1>5

LEMMA ExitScheduleOrder == ASSUME SchedInv, OrderInv, ExitSchedule PROVE KeepsOrder
<1> DEFINE c   == currentProcess
           pcb == [processes[c] EXCEPT !.waitPid = NONPID]
<1>1. /\ c # NULL /\ frame[c] = "waking"
      /\ Return(Schedule([Now EXCEPT !.procs[c].waitPid = NONPID], processes[c].waitPid))
  BY DEF ExitSchedule, At
<1>2. PICK w : w = processes[c].waitPid
  OBVIOUS
<1>3. c \in PIDs /\ processes[c] \in PCB /\ w \in PIDs
  BY <1>1, <1>2, Facts DEF SoundProcess
<1>4. /\ pcb \in PCB /\ pcb.priority = processes[c].priority
      /\ pcb.originalPriority = processes[c].originalPriority
      /\ pcb.agingCounter = processes[c].agingCounter
  BY <1>3 DEF PCB
<1>5. PICK t : t = [Now EXCEPT !.procs[c] = pcb]
  OBVIOUS
<1>6. [Now EXCEPT !.procs[c].waitPid = NONPID] = t
  BY <1>3, <1>5, Facts DEF Kernel
<1> HIDE DEF pcb
<1>7. Orderly(t) /\ t \in Kernel
  BY <1>1, <1>3, <1>4, <1>5, Facts, OrderlyWrite DEF OrderInv
<1>8. PICK r : r = Schedule(t, w)
  OBVIOUS
<1>9. Orderly(r) /\ r \in Kernel
  BY <1>1, <1>3, <1>7, <1>8, OrderlySchedule, ScheduleEffect
<1>10. Return(r)
  BY <1>1, <1>2, <1>6, <1>8
<1> QED
  BY <1>9, <1>10, ReturnOrder

-----------------------------------------------------------------------------
\* Every step of the kernel keeps the order, and gives the CPU to the highest priority.
LEMMA NextOrder == ASSUME SchedInv, OrderInv, [Next]_vars PROVE KeepsOrder
<1>1. CASE BootInit \/ BootShell
  <2>1. /\ 1 \in Levels /\ MAX_PRIORITY \in Levels
        /\ TRUE \in BOOLEAN /\ FALSE \in BOOLEAN
    BY PriorityAssumption DEF Levels
  <2> QED
    BY <1>1, <2>1, BootCreateOrder DEF BootInit, BootShell
<1>2. CASE BootQueueInit \/ BootQueueShell
  <2>1. INITPID \in PIDs /\ SHELLPID \in PIDs
    BY ProcessesAssumption DEF PIDs, SHELLPID
  <2> QED
    BY <1>2, <2>1, BootScheduleOrder DEF BootQueueInit, BootQueueShell, BootAt
<1>3. CASE BootSwitch \/ TimerTick \/ Yield \/ WaitReturn \/ ExitSwitch
  <2>1. PICK yielded \in BOOLEAN : SwitchContext(Now, yielded)
    BY <1>3 DEF BootSwitch, TimerTick, Yield, WaitReturn, ExitSwitch
  <2> QED
    BY <2>1, NowOrder
<1>4. CASE CtrlC
  <2>1. Foreground \subseteq Nat /\ Foreground \subseteq PIDs
    BY DEF Foreground, PIDs
  <2>2. PICK p \in PIDs : p = Min(Foreground)
    BY <1>4, <2>1, MinInSet DEF CtrlC
  <2> QED
    BY <1>4, <2>2, KillOrder DEF CtrlC
<1>5. CASE Create
  <2>1. PICK prio \in Priorities, fg \in Modes : CreateProcess(prio, fg)
    BY <1>5 DEF Create
  <2>2. prio \in Levels /\ fg \in BOOLEAN
    BY InputsAssumption
  <2> QED
    BY <2>1, <2>2, CreateOrder
<1>6. CASE Kill
  BY <1>6, KillOrder DEF Kill, Calling
<1>7. CASE Block \/ Unblock \/ Nice \/ Wait
  BY <1>7, BlockOrder, UnblockOrder, NiceOrder, WaitOrder
<1>8. CASE ReturnFromEntry
  BY <1>8, ReturnFromEntryOrder
<1>9. CASE ExitUnschedule \/ ExitFree \/ ExitMark \/ ExitWake \/ ExitSchedule
  BY <1>9, ExitUnscheduleOrder, ExitFreeOrder, ExitMarkOrder, ExitWakeOrder, ExitScheduleOrder
<1>10. CASE UNCHANGED vars
  <2>1. currentProcess' = currentProcess /\ processes' = processes /\ priorityQueues' = priorityQueues
    BY <1>10 DEF vars
  <2>2. Now' = Now
    BY <2>1 DEF Now
  <2>3. Orderly(Now)'
    BY <2>1, <2>2 DEF OrderInv, Orderly, Placed, NoneAbove, Settled
  <2> QED
    BY <2>1, <2>3 DEF KeepsOrder, OrderInv, TopRuns
<1> QED
  BY <1>1, <1>2, <1>3, <1>4, <1>5, <1>6, <1>7, <1>8, <1>9, <1>10
     DEF Next, Boot, SystemCall, ExitStep

\* Nobody is queued at first, and nobody boosted.
LEMMA InitOrder == Init => OrderInv
<1> SUFFICES ASSUME Init PROVE OrderInv
  OBVIOUS
<1>1. /\ \A l \in Levels : Range(Now.queues[l]) = {}
      /\ Now.queues \in [Levels -> Seq(PIDs)]
  <2>1. Now.queues = [l \in Levels |-> << >>] /\ Range(<< >>) = {}
    BY DEF Init, Now, Range
  <2> QED
    BY <2>1
<1>2. \A p \in PIDs : p \notin Queued(Now.queues)
  BY <1>1, QueuedArePIDs
<1> QED
  BY <1>1, <1>2 DEF OrderInv, Orderly, Placed, Settled, NoneAbove

\* Whoever gets the CPU has the highest priority among the READY processes, but for
\* one that an exit woke or main created and that a tick kept out of the queues.  It
\* holds also when nice moved one of them while it was queued, or a process was queued
\* twice, or lost its boost: the ageing pass before each dispatch puts every entry where
\* its process belongs.
THEOREM HighestRunsFirst == Spec => HighestPriorityFirst
<1>1. SchedInv /\ OrderInv /\ [Next]_vars => OrderInv' /\ TopRuns
  BY NextOrder DEF KeepsOrder
<1>2. SchedInv /\ OrderInv /\ [Next]_vars =>
        [currentProcess' \notin {currentProcess, NULL} =>
           \A p \in PIDs \ stranded :
              processes'[p].state = "READY"
                => processes'[p].priority <= processes'[currentProcess'].priority]_vars
  BY <1>1 DEF TopRuns
<1> QED
  BY <1>1, <1>2, InitOrder, SchedInvHolds, PTL DEF Spec, HighestPriorityFirst
=============================================================================
