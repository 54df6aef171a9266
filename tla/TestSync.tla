------------------------------ MODULE TestSync ------------------------------
(***************************************************************************)
(* The synchronisation test of Userland/tests/test_sync.c: a main process  *)
(* starts pairs of workers that add -1 and 1 to a shared counter, each     *)
(* addition a read, a yield and a write, under one named semaphore.  Ticks *)
(* fall between any two steps of a program.                                *)
(***************************************************************************)
EXTENDS Semaphores

CONSTANTS
    TOTAL_PAIR_PROCESSES,   \* workers that decrement, and as many that increment
    Iterations              \* the argument n of the test

Main    == 2           \* no process but init and the test runs here
First   == 3
Workers == First..(First + 2 * TOTAL_PAIR_PROCESSES - 1)

\* The table is not full, so nobody has the last PID, and no name fills its field
ASSUME TestAssumption == /\ TOTAL_PAIR_PROCESSES \in Nat \ {0}
                         /\ Iterations \in Nat \ {0}
                         /\ First + 2 * TOTAL_PAIR_PROCESSES - 1 < MAX_PROCESSES
                         /\ \A n \in Names : Len(n) < NameLength

\* Mutant: both workers of a pair get the arguments of the one that decrements
IncrementSame(p) == -1

\* Workers are created, and awaited, alternately: one decrements, one increments
Increment(p) == IF (p - First) % 2 = 0 THEN -1 ELSE 1

\* SEM_ID
SEM_ID == CHOOSE n \in Names : TRUE

VARIABLES global,       \* the shared counter
          aux,          \* slowInc's local copy of it
          todo,         \* iterations left to each worker
          pc,           \* what each program does next
          pid           \* the worker main creates or waits for next

testVars == <<global, aux, todo, pc, pid>>
allVars  == <<vars, testVars>>

\* The program of p is on the CPU, outside semWait, about to do the step called at
On(p, at) == cpu = p /\ state[p] = "RUNNING" /\ inWait[p] = NoSem /\ pc[p] = at

Goto(p, at) == pc' = [pc EXCEPT ![p] = at]

-----------------------------------------------------------------------------
\* process_inc
WorkerOpen(p) ==
    /\ On(p, "open")
    /\ OpenSem(SEM_ID, 1)
    /\ Goto(p, "wait")
    /\ UNCHANGED <<global, aux, todo, pid>>

\* Mutant: the worker does not call semWait
WorkerWaitSkipped(p) ==
    /\ On(p, "wait")
    /\ Goto(p, "read")
    /\ UNCHANGED <<vars, global, aux, todo, pid>>

WorkerWait(p) ==
    /\ On(p, "wait")
    /\ WaitSem(handle[p][SEM_ID])
    /\ Goto(p, "read")
    /\ UNCHANGED <<global, aux, todo, pid>>

SlowIncRead(p) ==
    /\ On(p, "read")
    /\ aux' = [aux EXCEPT ![p] = global]
    /\ Goto(p, "yield")
    /\ UNCHANGED <<vars, global, todo, pid>>

SlowIncYield(p) ==
    /\ On(p, "yield")
    /\ Preempt
    /\ Goto(p, "write")
    /\ UNCHANGED <<semVars, global, aux, todo, pid>>

SlowIncWrite(p) ==
    /\ On(p, "write")
    /\ global' = aux[p] + Increment(p)
    /\ Goto(p, "post")
    /\ UNCHANGED <<vars, aux, todo, pid>>

\* Mutant: the worker forgets semPost before it closes the semaphore
WorkerPostSkipped(p) ==
    /\ On(p, "post")
    /\ todo' = [todo EXCEPT ![p] = @ - 1]
    /\ Goto(p, IF todo[p] > 1 THEN "wait" ELSE "close")
    /\ UNCHANGED <<vars, global, aux, pid>>

WorkerPost(p) ==
    /\ On(p, "post")
    /\ PostSem(handle[p][SEM_ID])
    /\ todo' = [todo EXCEPT ![p] = @ - 1]
    /\ Goto(p, IF todo[p] > 1 THEN "wait" ELSE "close")
    /\ UNCHANGED <<global, aux, pid>>

WorkerClose(p) ==
    /\ On(p, "close")
    /\ CloseSem(handle[p][SEM_ID])
    /\ Goto(p, "exit")
    /\ UNCHANGED <<global, aux, todo, pid>>

\* The entry point returns.  The exit wakes main if it waits for p, unless a tick
\* cuts the exit off after the process was marked EXITED.
WorkerExit(p) ==
    /\ On(p, "exit")
    /\ End(p, {}) \/ (pc[Main] = "waiting" /\ pid = p /\ End(p, {Main}))
    /\ Goto(p, "exited")
    /\ UNCHANGED <<semVars, global, aux, todo, pid>>

WorkerStep(p) ==
    \/ WorkerOpen(p) \/ WorkerWait(p) \/ WorkerPost(p) \/ WorkerClose(p) \/ WorkerExit(p)
    \/ SlowIncRead(p) \/ SlowIncYield(p) \/ SlowIncWrite(p)

-----------------------------------------------------------------------------
\* test_sync
NextWorker(at, last) ==
    IF pid + 1 \in Workers THEN pid' = pid + 1 /\ Goto(Main, at)
                           ELSE pid' = First /\ Goto(Main, last)

MainCreate ==
    /\ On(Main, "create")
    /\ Start(pid)
    /\ NextWorker("create", "await")
    /\ UNCHANGED <<semVars, global, aux, todo>>

\* wait: returns at once when the worker has ended
MainWait ==
    /\ On(Main, "await")
    /\ IF state[pid] = "EXITED"
       THEN NextWorker("await", "reopen") /\ UNCHANGED procVars
       ELSE BlockSelf /\ Goto(Main, "waiting") /\ UNCHANGED pid
    /\ UNCHANGED <<semVars, global, aux, todo>>

MainWaitReturn ==
    /\ On(Main, "waiting")
    /\ NextWorker("await", "reopen")
    /\ UNCHANGED <<vars, global, aux, todo>>

MainReopen ==
    /\ On(Main, "reopen")
    /\ OpenSem(SEM_ID, 1)
    /\ Goto(Main, "destroy")
    /\ UNCHANGED <<global, aux, todo, pid>>

MainDestroy ==
    /\ On(Main, "destroy")
    /\ DestroySem(handle[Main][SEM_ID])
    /\ Goto(Main, "done")
    /\ UNCHANGED <<global, aux, todo, pid>>

MainStep == MainCreate \/ MainWait \/ MainWaitReturn \/ MainReopen \/ MainDestroy

-----------------------------------------------------------------------------
\* The shell has started a program, whose workers are not created yet
Started ==
    /\ state = [p \in PIDs |-> CASE p = INITPID -> "READY"
                                 [] p = Main    -> "RUNNING"
                                 [] OTHER       -> "EXITED"]
    /\ cpu = Main
    /\ initSemManager
    /\ global = 0
    /\ aux = [p \in PIDs |-> 0]
    /\ todo = [p \in PIDs |-> Iterations]
    /\ pid = First

TestInit == Started /\ pc = [p \in PIDs |-> IF p = Main THEN "create" ELSE "open"]

ProgramStep == MainStep \/ \E p \in Workers : WorkerStep(p)

-----------------------------------------------------------------------------
Inside(p) == pc[p] \in {"read", "yield", "write", "post"} /\ inWait[p] = NoSem

\* test_sync.c:17, "tiene capturado el sem no pasa nada": between semWait and
\* semPost a worker is alone, through the yield in the middle and whatever order
\* the wake-all of semPost lets the others retry in.
MutualExclusion == \A p, q \in Workers : Inside(p) /\ Inside(q) => p = q

\* README.md: "Con semáforo el valor final es 0": when main has waited for its
\* workers, their additions have all been made and cancel out.
FinalValueIsZero == pc[Main] = "done" => global = 0

\* No worker is left behind: each one that was created makes its iterations and
\* ends, although a post wakes all waiters for one unit and the losers queue again.
WorkersFinish ==
    \A p \in Workers : state[p] = "READY" /\ pc[p] = "open" ~> pc[p] = "exited"
=============================================================================
