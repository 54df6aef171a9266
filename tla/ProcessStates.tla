---------------------------- MODULE ProcessStates ----------------------------
(***************************************************************************)
(* What the process table and the scheduler promise to the rest of the     *)
(* kernel: one CPU, four states per process and the moves between them.    *)
(* Which READY process runs next is left open, so a component checked on   *)
(* top of this module is checked for every schedule.  Scheduler implements *)
(* this specification.                                                     *)
(***************************************************************************)
EXTENDS Integers

CONSTANT MAX_PROCESSES

PIDs    == 1..MAX_PROCESSES
INITPID == 1
NULL    == 0

States == {"READY", "RUNNING", "BLOCKED", "EXITED"}

VARIABLES state,        \* [PIDs -> States]
          cpu           \* the process on the CPU, NULL before the first one

procVars == <<state, cpu>>

\* The CPU goes to a READY process; who held it is READY if it was RUNNING
Switch(st) ==
    LET off == [p \in PIDs |-> IF p = cpu /\ st[p] = "RUNNING" THEN "READY" ELSE st[p]]
    IN  \E p \in PIDs : /\ off[p] = "READY"
                        /\ state' = [off EXCEPT ![p] = "RUNNING"]
                        /\ cpu' = p

Stay(st) == state' = st /\ UNCHANGED cpu

\* The blocked processes of W become READY
Woken(st, W) == [p \in PIDs |-> IF p \in W /\ st[p] = "BLOCKED" THEN "READY" ELSE st[p]]

Start(p) == state[p] = "EXITED" /\ Stay([state EXCEPT ![p] = "READY"])

Preempt == Switch(state)

BlockOther(p) ==
    /\ p \notin {INITPID, cpu} /\ state[p] # "EXITED"
    /\ Stay([state EXCEPT ![p] = "BLOCKED"])

\* A process blocks itself only by giving up the CPU
BlockSelf ==
    /\ cpu \notin {NULL, INITPID}
    /\ Switch([state EXCEPT ![cpu] = "BLOCKED"])

Wake(W) == Stay(Woken(state, W))

\* A process other than init ends, which wakes at most the process in W
End(p, W) ==
    LET st == Woken([state EXCEPT ![p] = "EXITED"], W)
    IN  /\ p # INITPID /\ state[p] # "EXITED"
        /\ \/ Stay(st)
           \/ p = cpu /\ Switch(st)

StatesInit == state = [p \in PIDs |-> "EXITED"] /\ cpu = NULL

StatesNext ==
    \/ Preempt \/ BlockSelf
    \/ \E p \in PIDs : Start(p) \/ BlockOther(p) \/ Wake({p}) \/ End(p, {})
    \/ \E p, w \in PIDs : End(p, {w})

StatesSpec == StatesInit /\ [][StatesNext]_procVars
=============================================================================
