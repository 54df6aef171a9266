----------------------------- MODULE SyncProofs -----------------------------
(***************************************************************************)
(* The two programs that synchronise through semaphores, for any number of *)
(* workers, iterations, writers and readers: the workers of test_sync      *)
(* exclude each other and their additions cancel out, and every letter of  *)
(* mvar is read once.                                                      *)
(***************************************************************************)
EXTENDS Mvar, SemaphoresProofs

USE TablesAssumption DEF INITPID, NULL, NoSem

-----------------------------------------------------------------------------
(***************************************************************************)
(* test_sync.  Main destroys the semaphore, so mutual exclusion needs that *)
(* by then every worker has ended: main has to be woken by no one but the  *)
(* worker it waits for, and an EXITED worker has to be one that ran.       *)
(***************************************************************************)
Testing ==
    /\ pc[Main] \in {"create", "await", "waiting", "reopen", "destroy", "done"}
    /\ \A p \in PIDs \ {Main} : pc[p] \in {"open", "wait", "read", "yield", "write",
                                            "post", "close", "exit", "exited"}

\* A process inside semWait is a worker that waits for the one semaphore
TestWaits == \A p \in PIDs : inWait[p] # NoSem =>
                p \in Workers /\ pc[p] = "read" /\ inWait[p] \in NamedAt(SEM_ID)

MainUnlisted == \A s \in SemIds : Main \notin Range(sems[s].waiting)

\* Where a program has opened the semaphore
HasHandle == {"wait", "read", "yield", "write", "post", "close", "destroy"}

HandlesHeld == \A p \in Workers \cup {Main} : pc[p] \in HasHandle => handle[p][SEM_ID] # NoSem

\* The one unit is in the semaphore or with the worker inside
OneUnit == \A s \in NamedAt(SEM_ID) :
              /\ sems[s].value \in {0, 1}
              /\ \A p \in Workers : Inside(p) => sems[s].value = 0

\* How far the creation and the end of the workers have come
Begun(p) == state[p] = "EXITED" => pc[p] = "exited"

MainKnows ==
    /\ pc[Main] = "create" => \A p \in Workers : p < pid => Begun(p)
    /\ pc[Main] \in {"await", "waiting"} =>
         \A p \in Workers : Begun(p) /\ (p < pid => pc[p] = "exited")
    /\ pc[Main] = "waiting" /\ state[Main] # "BLOCKED" => pc[pid] = "exited"
    /\ pc[Main] \in {"reopen", "destroy", "done"} => \A p \in Workers : pc[p] = "exited"

TestInv ==
    /\ Testing /\ pid \in Workers
    /\ HandlesNamed /\ OnePerName /\ (pc[Main] # "done" => BlankUnused)
    /\ TestWaits /\ MainUnlisted /\ HandlesHeld
    /\ OneUnit /\ MutualExclusion /\ MainKnows

-----------------------------------------------------------------------------
(***************************************************************************)
(* mvar.  One unit circulates: it is in the semaphore "empty", in "full"   *)
(* or with one process, and it says what the variable holds.               *)
(***************************************************************************)
Clients == Writers \cup Readers

Opening == {"open mutex", "open empty", "open full"}
Serving == {"spawn", "leave", "left"}

Sharing ==
    /\ pc[Main] \in Opening \cup Serving
    /\ \A p \in PIDs \ {Main} : pc[p] \in {"empty", "lock", "put", "fill", "unlock", "full",
                                            "await", "acquire", "get", "drain", "release",
                                            "vacate", "none"}

Units(name) == sems[Shared(name)].value

MvarWaits == \A p \in PIDs : inWait[p] # NoSem =>
                /\ p \in Clients
                /\ \/ pc[p] = "lock" /\ inWait[p] = Shared(mvar_empty)
                   \/ pc[p] = "acquire" /\ inWait[p] = Shared(mvar_full)
                   \/ pc[p] \in {"put", "get"} /\ inWait[p] = Shared(mvar_mutex)

\* Who has the unit and finds the variable read out, half written, or with a letter
Vacant(p)   == pc[p] \in {"put", "release", "vacate"} \/ At(p, "lock")
Midway(p)   == pc[p] = "fill"
Lettered(p) == pc[p] \in {"unlock", "full", "get", "drain"} \/ At(p, "acquire")
Holds(p)    == Vacant(p) \/ Midway(p) \/ Lettered(p)

Letter == ~is_empty /\ value \in Writers

Circulation ==
    /\ Units(mvar_empty) \in Nat /\ Units(mvar_full) \in Nat
    /\ Units(mvar_empty) + Units(mvar_full) <= 1
    /\ \A p \in Clients : Holds(p) => Units(mvar_empty) = 0 /\ Units(mvar_full) = 0
    /\ \A p, q \in Clients : Holds(p) /\ Holds(q) => p = q
    /\ Units(mvar_empty) # 0 => is_empty
    /\ Units(mvar_full) # 0 => Letter
    /\ \A p \in Clients : /\ Vacant(p) => is_empty
                          /\ Midway(p) => value \in Writers
                          /\ Lettered(p) => Letter

\* While main opens the semaphores nobody else runs
Preparing ==
    /\ \A p \in Clients : state[p] = "EXITED" /\ ~Holds(p)
    /\ \A p \in PIDs : inWait[p] = NoSem
    /\ NamedAt(mvar_full) = {} /\ is_empty
    /\ IF pc[Main] = "open full" THEN Shared(mvar_empty) # NoSem /\ Units(mvar_empty) = 1
                                 ELSE NamedAt(mvar_empty) = {}
    /\ pc[Main] # "open mutex" => Shared(mvar_mutex) # NoSem

MvarInv ==
    /\ Sharing /\ pid \in Clients
    /\ NameInv /\ MvarWaits
    /\ pc[Main] \in Opening => Preparing
    /\ pc[Main] \in Serving =>
         /\ \A n \in {mvar_mutex, mvar_empty, mvar_full} : Shared(n) # NoSem
         /\ Circulation

Typed   == SemTypeOK /\ DOMAIN pc = PIDs

SyncInv == Typed /\ (TestInv \/ MvarInv)

-----------------------------------------------------------------------------
\* Who is who.
LEMMA Roles ==
    /\ Main \in PIDs /\ Main < MAX_PROCESSES /\ Main # INITPID
    /\ \A p \in Workers : p \in PIDs /\ p # Main /\ p < MAX_PROCESSES
    /\ First \in Workers /\ First \in Clients
    /\ \A p \in Clients : p \in PIDs /\ p # Main
    /\ SEM_ID \in Names /\ mvar_mutex \in Names /\ mvar_empty \in Names /\ mvar_full \in Names
    /\ ShortNames
<1>1. /\ Main \in PIDs /\ Main < MAX_PROCESSES /\ Main # INITPID
      /\ \A p \in Workers : p \in PIDs /\ p # Main /\ p < MAX_PROCESSES
      /\ First \in Workers
  BY TestAssumption DEF Main, First, Workers, PIDs
<1>2. First \in Clients /\ \A p \in Clients : p \in PIDs /\ p # Main
  <2>1. /\ writer_count \in Nat /\ writer_count >= 1 /\ reader_count \in Nat
        /\ 3 + writer_count + reader_count - 1 <= MAX_PROCESSES
    BY MvarAssumption DEF First, PIDs
  <2> QED
    BY <2>1 DEF Main, First, Clients, Writers, Readers, PIDs
<1>3. mvar_mutex \in Names /\ mvar_empty \in Names /\ mvar_full \in Names
  BY MvarAssumption
<1>4. SEM_ID \in Names
  BY <1>3 DEF SEM_ID
<1>5. ShortNames
  BY TestAssumption DEF ShortNames
<1> QED
  BY <1>1, <1>2, <1>3, <1>4, <1>5

\* A step of a program changes the place of that program only.
LEMMA Moves ==
    ASSUME Typed, NEW p \in PIDs, NEW at, Goto(p, at)
    PROVE  /\ DOMAIN pc' = PIDs
           /\ pc'[p] = at
           /\ \A q \in PIDs : q # p => pc'[q] = pc[q]
  BY DEF Typed, Goto

\* What main knows of its workers stays true while main does not move, whatever
\* the workers do, provided who ends has come to its end and main is woken by none
\* but the worker it waits for.
LEMMA MainStillKnows ==
    ASSUME TestInv,
           pc'[Main] = pc[Main], pid' = pid,
           \A p \in Workers : pc[p] = "exited" => pc'[p] = "exited",
           \A p \in Workers : state'[p] = "EXITED" => state[p] = "EXITED" \/ pc'[p] = "exited",
           state[Main] = "BLOCKED" => state'[Main] = "BLOCKED" \/ pc'[pid] = "exited"
    PROVE  MainKnows'
  BY DEF TestInv, MainKnows, Begun

\* What the semaphore is about in test_sync
UnitInv == /\ HandlesNamed /\ OnePerName /\ (pc[Main] # "done" => BlankUnused)
           /\ TestWaits /\ MainUnlisted /\ HandlesHeld
           /\ OneUnit /\ MutualExclusion

\* A step that touches no semaphore and lets nobody into the critical section.
LEMMA UnitStays ==
    ASSUME TestInv, UNCHANGED <<sems, inWait, handle>>,
           \A p \in Workers : Inside(p)' => Inside(p),
           \A p \in PIDs : inWait[p] # NoSem => pc'[p] = pc[p],
           \A p \in Workers \cup {Main} : pc'[p] \in HasHandle => pc[p] \in HasHandle,
           pc'[Main] # "done" => pc[Main] # "done"
    PROVE  UnitInv'
<1>1. NamedAt(SEM_ID)' = NamedAt(SEM_ID) /\ \A n \in Names : NamedAt(n)' = NamedAt(n)
  BY DEF NamedAt
<1>2. HandlesNamed' /\ OnePerName' /\ (pc'[Main] # "done" => BlankUnused')
  BY <1>1 DEF TestInv, HandlesNamed, OnePerName, BlankUnused
<1>3. TestWaits' /\ MainUnlisted' /\ HandlesHeld'
  BY <1>1 DEF TestInv, TestWaits, MainUnlisted, HandlesHeld
<1>4. OneUnit' /\ MutualExclusion'
  BY <1>1 DEF TestInv, OneUnit, MutualExclusion
<1> QED
  BY <1>2, <1>3, <1>4 DEF UnitInv

\* The invariant is what the semaphore and what main are about.
LEMMA TestParts ==
    ASSUME Testing', pid' \in Workers, UnitInv', MainKnows'
    PROVE  TestInv'
  BY DEF TestInv, UnitInv


\* slowInc between semWait and semPost: who is inside stays inside, alone.
LEMMA SlowIncKeeps ==
    ASSUME Typed, TestInv, NEW p \in Workers,
           SlowIncRead(p) \/ SlowIncYield(p) \/ SlowIncWrite(p)
    PROVE  Typed' /\ TestInv'
<1>1. p \in PIDs /\ p # Main /\ Main \in PIDs
  BY Roles
<1>2. PICK at \in {"yield", "write", "post"} : Goto(p, at)
  BY DEF SlowIncRead, SlowIncYield, SlowIncWrite
<1>3. /\ DOMAIN pc' = PIDs /\ pc'[p] = at /\ \A q \in PIDs : q # p => pc'[q] = pc[q]
  BY <1>1, <1>2, Moves
<1>4. /\ pc[p] \in {"read", "yield", "write"} /\ inWait[p] = NoSem
      /\ UNCHANGED <<sems, inWait, handle, pid>>
  BY DEF SlowIncRead, SlowIncYield, SlowIncWrite, On, vars, semVars
<1>5. ProcTypeOK' /\ NobodyEnds /\ (state[Main] = "BLOCKED" => state'[Main] = "BLOCKED")
  <2>1. CASE SlowIncYield(p)
    BY <1>1, <2>1, SwitchEffect DEF SlowIncYield, Preempt, Typed, SemTypeOK, ProcTypeOK, NobodyEnds
  <2>2. CASE SlowIncRead(p) \/ SlowIncWrite(p)
    BY <2>2 DEF SlowIncRead, SlowIncWrite, vars, Typed, SemTypeOK, ProcTypeOK, NobodyEnds
  <2> QED
    BY <2>1, <2>2
<1>6. Typed'
  BY <1>3, <1>4, <1>5 DEF Typed, SemTypeOK, ProcTypeOK
<1>7. Testing' /\ pid' \in Workers
  BY <1>1, <1>3, <1>4 DEF TestInv, Testing
<1>8. MainKnows'
  BY <1>1, <1>3, <1>4, <1>5, Roles, MainStillKnows DEF NobodyEnds
<1>9. UnitInv'
  <2>1. \A q \in Workers : Inside(q)' => Inside(q)
    BY <1>1, <1>3, <1>4, Roles DEF Inside
  <2> QED
    BY <1>1, <1>3, <1>4, <2>1, Roles, UnitStays DEF HasHandle
<1> QED
  BY <1>6, <1>7, <1>8, <1>9, TestParts

\* The exit of a worker: main is woken by the one it waits for.
LEMMA WorkerExitKeeps ==
    ASSUME Typed, TestInv, NEW p \in Workers, WorkerExit(p)
    PROVE  Typed' /\ TestInv'
<1>1. p \in PIDs /\ p # Main /\ Main \in PIDs
  BY Roles
<1>2. /\ DOMAIN pc' = PIDs /\ pc'[p] = "exited" /\ \A q \in PIDs : q # p => pc'[q] = pc[q]
  BY <1>1, Moves DEF WorkerExit
<1>3. /\ pc[p] = "exit" /\ inWait[p] = NoSem
      /\ UNCHANGED <<sems, inWait, handle, pid>>
  BY DEF WorkerExit, On, semVars
<1>4. PICK W : End(p, W) /\ (Main \in W => pid = p)
  BY <1>1 DEF WorkerExit
<1>5. /\ ProcTypeOK'
      /\ state[Main] = "BLOCKED" => state'[Main] = "BLOCKED" \/ pid = p
      /\ \A q \in PIDs : state'[q] = "EXITED" => state[q] = "EXITED" \/ q = p
  <2>1. ProcTypeOK
    BY DEF Typed, SemTypeOK, ProcTypeOK
  <2>2. /\ ProcTypeOK'
        /\ \A q \in PIDs : state'[q] = "BLOCKED" <=> state[q] = "BLOCKED" /\ q # p /\ q \notin W
        /\ \A q \in PIDs : state'[q] = "EXITED" => state[q] = "EXITED" \/ q = p
    BY <1>1, <1>4, <2>1, EndEffect
  <2> QED
    BY <1>1, <1>4, <2>2
<1>6. Typed'
  BY <1>2, <1>3, <1>5 DEF Typed, SemTypeOK, ProcTypeOK
<1>7. Testing' /\ pid' \in Workers
  BY <1>1, <1>2, <1>3 DEF TestInv, Testing
<1>8. MainKnows'
  BY <1>1, <1>2, <1>3, <1>5, Roles, MainStillKnows
<1>9. UnitInv'
  <2>1. \A q \in Workers : Inside(q)' => Inside(q)
    BY <1>1, <1>2, <1>3, Roles DEF Inside
  <2> QED
    BY <1>1, <1>2, <1>3, <2>1, Roles, UnitStays DEF HasHandle
<1> QED
  BY <1>6, <1>7, <1>8, <1>9, TestParts

\* A tick moves nobody.
LEMMA TickKeepsTest ==
    ASSUME Typed, TestInv, Tick, UNCHANGED testVars
    PROVE  Typed' /\ TestInv'
<1>1. Main \in PIDs
  BY Roles
<1>2. UNCHANGED <<sems, inWait, handle, pid, pc>>
  BY DEF Tick, semVars, testVars
<1>3. ProcTypeOK' /\ NobodyEnds /\ (state[Main] = "BLOCKED" => state'[Main] = "BLOCKED")
  BY <1>1, SwitchEffect DEF Tick, Preempt, Typed, SemTypeOK, ProcTypeOK, NobodyEnds
<1>4. Typed'
  BY <1>2, <1>3 DEF Typed, SemTypeOK, ProcTypeOK
<1>5. Testing' /\ pid' \in Workers
  BY <1>2 DEF TestInv, Testing
<1>6. MainKnows'
  BY <1>2, <1>3, Roles, MainStillKnows DEF NobodyEnds
<1>7. UnitInv'
  BY <1>2, UnitStays DEF Inside
<1> QED
  BY <1>4, <1>5, <1>6, <1>7, TestParts

\* A turn of semWait's loop for a worker: it comes in only when the semaphore has
\* the unit, and then nobody is inside.
LEMMA TakeKeepsTest ==
    ASSUME Typed, TestInv, NEW p \in Workers, p = cpu, NEW s \in NamedAt(SEM_ID), TakeOrBlock(s),
           DOMAIN pc' = PIDs, pc[p] \in {"wait", "read"}, pc'[p] = "read",
           \A q \in PIDs : q # p => pc'[q] = pc[q],
           pid' = pid
    PROVE  Typed' /\ TestInv'
<1>1. p \in PIDs /\ p # Main /\ Main \in PIDs
  BY Roles
<1>2. s \in SemIds /\ sems[s].used /\ SemTypeOK /\ sems[s] \in Sem /\ s # NoSem
  BY DEF NamedAt, Typed, SemTypeOK, SemIds
<1>3. /\ SemTypeOK' /\ NobodyEnds /\ handle' = handle
      /\ \/ /\ sems[s].value # 0
            /\ sems' = [sems EXCEPT ![s].value = sems[s].value - 1]
            /\ inWait' = [inWait EXCEPT ![cpu] = NoSem]
            /\ state' = state
         \/ /\ sems[s].value = 0
            /\ sems' = [sems EXCEPT ![s].waiting = Append(sems[s].waiting, cpu)]
            /\ inWait' = [inWait EXCEPT ![cpu] = s]
            /\ \A q \in PIDs : state'[q] = "BLOCKED" <=> q = cpu \/ state[q] = "BLOCKED"
  BY <1>2, TakeEffect
<1>4. Typed'
  BY <1>3 DEF Typed
<1>5. Testing' /\ pid' \in Workers
  BY <1>1 DEF TestInv, Testing
<1>6. MainKnows'
  BY <1>1, <1>3, Roles, MainStillKnows DEF NobodyEnds
<1>7. /\ \A t \in SemIds : sems'[t].used = sems[t].used /\ sems'[t].name = sems[t].name
      /\ \A t \in SemIds : t # s => sems'[t] = sems[t]
      /\ sems'[s].value = 0 /\ sems[s].value <= 1
      /\ \A q \in PIDs : q # p => inWait'[q] = inWait[q]
      /\ inWait'[p] \in {NoSem, s}
  <2>1. sems[s].value \in {0, 1}
    BY <1>2 DEF TestInv, OneUnit
  <2>2. CASE sems[s].value # 0
    <3>1. sems' = [sems EXCEPT ![s].value = sems[s].value - 1] /\ inWait' = [inWait EXCEPT ![cpu] = NoSem]
      BY <1>3, <2>2
    <3> QED
      BY <1>1, <1>2, <2>1, <2>2, <3>1 DEF SemTypeOK, Sem
  <2>3. CASE sems[s].value = 0
    <3>1. /\ sems' = [sems EXCEPT ![s].waiting = Append(sems[s].waiting, cpu)]
          /\ inWait' = [inWait EXCEPT ![cpu] = s]
      BY <1>3, <2>3
    <3> QED
      BY <1>1, <1>2, <2>1, <2>3, <3>1 DEF SemTypeOK, Sem
  <2> QED
    BY <2>2, <2>3
<1>8. HandlesNamed' /\ OnePerName' /\ (pc'[Main] # "done" => BlankUnused')
  <2>1. \A n \in Names : NamedAt(n)' = NamedAt(n)
    BY <1>7 DEF NamedAt
  <2> QED
    BY <1>1, <1>3, <1>7, <2>1 DEF TestInv, HandlesNamed, OnePerName, BlankUnused
<1>9. NamedAt(SEM_ID)' = NamedAt(SEM_ID)
  BY <1>7 DEF NamedAt
<1>10. TestWaits'
  BY <1>7, <1>9 DEF TestInv, TestWaits
<1>11. MainUnlisted'
  <2>1. CASE sems[s].value # 0
    <3>1. \A t \in SemIds : sems'[t].waiting = sems[t].waiting
      <4>1. sems' = [sems EXCEPT ![s].value = sems[s].value - 1]
        BY <1>3, <2>1
      <4> QED
        BY <1>2, <4>1 DEF SemTypeOK, Sem
    <3> QED
      BY <3>1 DEF TestInv, MainUnlisted
  <2>2. CASE sems[s].value = 0
    <3>1. sems'[s].waiting = Append(sems[s].waiting, p) /\ sems[s].waiting \in Seq(PIDs)
      BY <1>2, <1>3, <2>2 DEF SemTypeOK, Sem
    <3>2. Range(sems'[s].waiting) = Range(sems[s].waiting) \cup {p}
      BY <1>1, <3>1, RangeOfAppend
    <3> QED
      BY <1>1, <1>7, <3>2 DEF TestInv, MainUnlisted
  <2> QED
    BY <2>1, <2>2
<1>12. HandlesHeld'
  BY <1>1, <1>3, Roles DEF TestInv, HandlesHeld, HasHandle
<1>13. \A t \in NamedAt(SEM_ID) : t = s
  BY <1>2 DEF TestInv, OnePerName, NamedAt
<1>14. OneUnit'
  BY <1>2, <1>7, <1>9, <1>13 DEF OneUnit
<1>15. MutualExclusion'
  <2>1. \A q \in Workers : q # p => (Inside(q)' <=> Inside(q))
    BY <1>7, Roles DEF Inside
  <2>2. CASE sems[s].value = 0
    <3>1. ~Inside(p)'
      BY <1>1, <1>2, <1>3, <2>2 DEF Inside, SemTypeOK
    <3> QED
      BY <2>1, <3>1 DEF TestInv, MutualExclusion
  <2>3. CASE sems[s].value # 0
    BY <2>1, <2>3 DEF TestInv, OneUnit, MutualExclusion
  <2> QED
    BY <2>2, <2>3
<1> QED
  BY <1>4, <1>5, <1>6, <1>8, <1>10, <1>11, <1>12, <1>14, <1>15, TestParts DEF UnitInv


\* semPost of the worker inside puts the unit back as the worker goes out.
LEMMA PostKeepsTest ==
    ASSUME Typed, TestInv, NEW p \in Workers, WorkerPost(p)
    PROVE  Typed' /\ TestInv'
<1>1. p \in PIDs /\ p # Main /\ Main \in PIDs /\ SEM_ID \in Names
  BY Roles
<1>2. /\ pc[p] = "post" /\ inWait[p] = NoSem /\ Inside(p) /\ pid' = pid
      /\ PostSem(handle[p][SEM_ID])
      /\ \E at \in {"wait", "close"} : Goto(p, at)
  BY DEF WorkerPost, On, Inside
<1>3. PICK s \in NamedAt(SEM_ID) : s = handle[p][SEM_ID]
  BY <1>1, <1>2 DEF TestInv, HandlesHeld, HandlesNamed, HasHandle
<1>4. s \in SemIds /\ sems[s].used /\ SemTypeOK /\ sems[s] \in Sem
  BY DEF NamedAt, Typed, SemTypeOK
<1>5. /\ SemTypeOK' /\ NobodyEnds /\ UNCHANGED <<inWait, handle>>
      /\ sems' = [sems EXCEPT ![s].value = sems[s].value + 1, ![s].waiting = << >>]
      /\ \A q \in PIDs : state'[q] = "BLOCKED"
                          <=> state[q] = "BLOCKED" /\ q \notin Range(sems[s].waiting)
  BY <1>2, <1>3, <1>4, PostEffect
<1>6. /\ DOMAIN pc' = PIDs /\ pc'[p] \in {"wait", "close"}
      /\ \A q \in PIDs : q # p => pc'[q] = pc[q]
  BY <1>1, <1>2, Moves
<1>7. Typed'
  BY <1>5, <1>6 DEF Typed
<1>8. Testing' /\ pid' \in Workers
  BY <1>1, <1>2, <1>6 DEF TestInv, Testing
<1>9. state[Main] = "BLOCKED" => state'[Main] = "BLOCKED"
  BY <1>1, <1>4, <1>5 DEF TestInv, MainUnlisted
<1>10. MainKnows'
  BY <1>1, <1>2, <1>5, <1>6, <1>9, Roles, MainStillKnows DEF NobodyEnds
<1>11. sems[s].value = 0
  BY <1>2 DEF TestInv, OneUnit
<1>12. /\ \A t \in SemIds : sems'[t].used = sems[t].used /\ sems'[t].name = sems[t].name
       /\ \A t \in SemIds : t # s => sems'[t] = sems[t]
       /\ sems'[s].value = 1 /\ sems'[s].waiting = << >>
  BY <1>4, <1>5, <1>11 DEF SemTypeOK, Sem
<1>13. NamedAt(SEM_ID)' = NamedAt(SEM_ID) /\ \A n \in Names : NamedAt(n)' = NamedAt(n)
  BY <1>12 DEF NamedAt
<1>14. HandlesNamed' /\ OnePerName' /\ (pc'[Main] # "done" => BlankUnused')
  <2>1. HandlesNamed'
    BY <1>5, <1>13 DEF TestInv, HandlesNamed
  <2>2. OnePerName'
    BY <1>12 DEF TestInv, OnePerName
  <2>3. pc'[Main] # "done" => BlankUnused'
    BY <1>1, <1>6, <1>12 DEF TestInv, BlankUnused
  <2> QED
    BY <2>1, <2>2, <2>3
<1>15. TestWaits'
  BY <1>2, <1>5, <1>6, <1>13 DEF TestInv, TestWaits
<1>16. MainUnlisted'
  BY <1>12 DEF TestInv, MainUnlisted, Range
<1>17. HandlesHeld'
  BY <1>1, <1>2, <1>5, <1>6, Roles DEF TestInv, HandlesHeld, HasHandle
<1>18. \A q \in Workers : ~Inside(q)'
  BY <1>2, <1>5, <1>6, Roles DEF Inside, TestInv, MutualExclusion
<1>19. \A t \in NamedAt(SEM_ID) : t = s
  BY <1>4 DEF TestInv, OnePerName, NamedAt
<1>20. OneUnit' /\ MutualExclusion'
  BY <1>4, <1>12, <1>13, <1>18, <1>19 DEF OneUnit, MutualExclusion
<1> QED
  BY <1>7, <1>8, <1>10, <1>14, <1>15, <1>16, <1>17, <1>20, TestParts DEF UnitInv

\* semOpen by a worker or by main: the semaphore is created with one unit only
\* while nobody has opened it, so while nobody is inside.
LEMMA OpenKeepsUnit ==
    ASSUME Typed, TestInv, NEW p \in Workers \cup {Main}, p = cpu, inWait[p] = NoSem,
           pc[p] \in {"open", "reopen"}, pc'[p] \in {"wait", "destroy"}, DOMAIN pc' = PIDs,
           \A q \in PIDs : q # p => pc'[q] = pc[q],
           OpenSem(SEM_ID, 1)
    PROVE  Typed' /\ UnitInv'
<1>1. p \in PIDs /\ p < MAX_PROCESSES /\ Main \in PIDs /\ SEM_ID \in Names
  BY Roles
<1>2. SemTypeOK' /\ UNCHANGED <<state, cpu, inWait>>
  BY <1>1, OpenEffect DEF Typed
<1>3. pc[Main] # "done" /\ NameInv
  BY DEF TestInv, NameInv, MainKnows
<1>4. PICK s \in SemIds : OpenedAt(s, SEM_ID, 1)
  BY <1>1, <1>3, OpenSlot, Roles DEF Typed, NameInv
<1>5. NameInv'
  BY <1>1, <1>3, <1>4, OpenKeepsNames DEF Typed
<1>6. s \in NamedAt(SEM_ID)' /\ \A t \in NamedAt(SEM_ID)' : t = s
  <2>1. s \in NamedAt(SEM_ID)'
    BY <1>4 DEF OpenedAt, NamedAt
  <2> QED
    BY <1>5, <2>1 DEF NameInv, OnePerName, NamedAt
<1>7. NamedAt(SEM_ID) \subseteq {s}
  BY <1>3, <1>4 DEF OpenedAt, NameInv, OnePerName, NamedAt
<1>8. /\ handle' = [handle EXCEPT ![cpu][SEM_ID] = s]
      /\ \A t \in SemIds : t # s => sems'[t] = sems[t]
      /\ s # NoSem
  BY <1>4 DEF OpenedAt, SemIds
<1>9. TestWaits'
  BY <1>2, <1>6, <1>7 DEF TestInv, TestWaits
<1>10. MainUnlisted'
  <2>1. sems'[s].waiting \in {sems[s].waiting, << >>}
    BY <1>4 DEF OpenedAt
  <2>2. Range(<< >>) = {}
    BY DEF Range
  <2> QED
    BY <1>8, <2>1, <2>2 DEF TestInv, MainUnlisted
<1>11. HandlesHeld'
  BY <1>1, <1>8, Roles DEF TestInv, HandlesHeld, Typed, SemTypeOK, HasHandle
<1>12. \A q \in Workers : Inside(q)' <=> Inside(q)
  BY <1>2, Roles DEF Inside
<1>13. MutualExclusion'
  BY <1>12 DEF TestInv, MutualExclusion
<1>14. OneUnit'
  <2>1. CASE s \in NamedAt(SEM_ID) /\ sems'[s].value = sems[s].value
    BY <1>6, <1>12, <2>1 DEF TestInv, OneUnit
  <2>2. CASE NamedAt(SEM_ID) = {} /\ sems'[s].value = 1
    <3>1. \A q \in Workers : ~Inside(q)
      BY <1>1, <2>2, Roles DEF TestInv, HandlesHeld, HandlesNamed, HasHandle, Inside
    <3> QED
      BY <1>6, <1>12, <2>2, <3>1 DEF OneUnit
  <2> QED
    BY <1>4, <2>1, <2>2 DEF OpenedAt, NamedAt
<1> QED
  BY <1>2, <1>5, <1>9, <1>10, <1>11, <1>13, <1>14 DEF Typed, UnitInv, NameInv


\* semOpen by a worker.
LEMMA WorkerOpenKeeps ==
    ASSUME Typed, TestInv, NEW p \in Workers, WorkerOpen(p)
    PROVE  Typed' /\ TestInv'
<1>1. p \in PIDs /\ p # Main /\ Main \in PIDs /\ SEM_ID \in Names
  BY Roles
<1>2. /\ pc[p] = "open" /\ inWait[p] = NoSem /\ p = cpu /\ pid' = pid
      /\ OpenSem(SEM_ID, 1) /\ Goto(p, "wait")
  BY DEF WorkerOpen, On
<1>3. DOMAIN pc' = PIDs /\ pc'[p] = "wait" /\ \A q \in PIDs : q # p => pc'[q] = pc[q]
  BY <1>1, <1>2, Moves
<1>4. Typed' /\ UnitInv'
  BY <1>2, <1>3, OpenKeepsUnit
<1>5. state' = state
  BY <1>2 DEF OpenSem, procVars
<1>6. Testing' /\ pid' \in Workers
  BY <1>1, <1>2, <1>3 DEF TestInv, Testing
<1>7. MainKnows'
  BY <1>1, <1>2, <1>3, <1>5, Roles, MainStillKnows
<1> QED
  BY <1>4, <1>6, <1>7, TestParts

\* semClose by a worker changes a flag, and no name: no worker has the last PID.
LEMMA WorkerCloseKeeps ==
    ASSUME Typed, TestInv, NEW p \in Workers, WorkerClose(p)
    PROVE  Typed' /\ TestInv'
<1>1. p \in PIDs /\ p # Main /\ Main \in PIDs /\ SEM_ID \in Names /\ p < MAX_PROCESSES
  BY Roles
<1>2. /\ pc[p] = "close" /\ inWait[p] = NoSem /\ p = cpu /\ pid' = pid
      /\ CloseSem(handle[p][SEM_ID]) /\ Goto(p, "exit")
  BY DEF WorkerClose, On
<1>3. DOMAIN pc' = PIDs /\ pc'[p] = "exit" /\ \A q \in PIDs : q # p => pc'[q] = pc[q]
  BY <1>1, <1>2, Moves
<1>4. PICK s \in NamedAt(SEM_ID) : s = handle[p][SEM_ID]
  BY <1>1, <1>2 DEF TestInv, HandlesHeld, HandlesNamed, HasHandle
<1>5. s \in SemIds /\ sems[s] \in Sem /\ SemTypeOK
  BY DEF NamedAt, Typed, SemTypeOK
<1>6. /\ SemTypeOK' /\ UNCHANGED <<state, inWait, handle>>
      /\ \A t \in SemIds : /\ sems'[t].used = sems[t].used
                            /\ sems'[t].value = sems[t].value
                            /\ sems'[t].waiting = sems[t].waiting
  BY <1>2, <1>4, <1>5, CloseEffect
<1>7. \A t \in SemIds : sems'[t].name = sems[t].name
  <2>1. Flagged(sems[s], p, FALSE).name = sems[s].name
    BY <1>1, <1>5, FlagKeepsName
  <2>2. sems' = [sems EXCEPT ![s] = Flagged(sems[s], p, FALSE)]
    BY <1>2, <1>4 DEF CloseSem
  <2> QED
    BY <1>5, <2>1, <2>2 DEF SemTypeOK
<1>8. Typed' /\ Testing' /\ pid' \in Workers
  BY <1>1, <1>2, <1>3, <1>6 DEF Typed, TestInv, Testing
<1>9. MainKnows'
  BY <1>1, <1>2, <1>3, <1>6, Roles, MainStillKnows
<1>10. NamedAt(SEM_ID)' = NamedAt(SEM_ID) /\ \A n \in Names : NamedAt(n)' = NamedAt(n)
  BY <1>6, <1>7 DEF NamedAt
<1>11. HandlesNamed' /\ OnePerName' /\ (pc'[Main] # "done" => BlankUnused')
  BY <1>1, <1>3, <1>6, <1>7, <1>10 DEF TestInv, HandlesNamed, OnePerName, BlankUnused
<1>12. TestWaits' /\ MainUnlisted' /\ HandlesHeld'
  BY <1>1, <1>2, <1>3, <1>6, <1>10, Roles
  DEF TestInv, TestWaits, MainUnlisted, HandlesHeld, HasHandle
<1>13. \A q \in Workers : Inside(q)' => Inside(q)
  BY <1>3, <1>6, Roles DEF Inside
<1>14. OneUnit' /\ MutualExclusion'
  <2>1. NamedAt(SEM_ID) \subseteq SemIds
    BY DEF NamedAt
  <2> QED
    BY <1>6, <1>10, <1>13, <2>1 DEF TestInv, OneUnit, MutualExclusion
<1> QED
  BY <1>8, <1>9, <1>11, <1>12, <1>14, TestParts DEF UnitInv

\* Main goes on to the next worker once the one it waited for has ended.
LEMMA NextAwaited ==
    ASSUME Typed, TestInv, pc[Main] \in {"await", "waiting"}, pc[pid] = "exited",
           inWait[Main] = NoSem, NextWorker("await", "reopen"),
           UNCHANGED <<state, cpu, sems, inWait, handle>>
    PROVE  Typed' /\ TestInv'
<1>1. Main \in PIDs /\ \A p \in Workers : p \in PIDs /\ p # Main
  BY Roles
<1>2. PICK at \in {"await", "reopen"} :
        /\ Goto(Main, at) /\ pid' \in Workers
        /\ at = "await" => pid' = pid + 1
        /\ at = "reopen" => pid + 1 \notin Workers
  BY Roles DEF NextWorker
<1>3. DOMAIN pc' = PIDs /\ pc'[Main] = at /\ \A q \in PIDs : q # Main => pc'[q] = pc[q]
  BY <1>1, <1>2, Moves
<1>4. Typed' /\ Testing'
  BY <1>3 DEF Typed, SemTypeOK, TestInv, Testing
<1>5. MainKnows'
  <2>1. pid \in Workers /\ \A p \in Workers : Begun(p) /\ (p < pid => pc[p] = "exited")
    BY DEF TestInv, MainKnows
  <2>2. \A p \in Workers : pc'[p] = pc[p] /\ p \in Nat
    BY <1>1, <1>3 DEF PIDs
  <2>3. CASE at = "await"
    <3>1. \A p \in Workers : p < pid' => p < pid \/ p = pid
      BY <1>2, <2>1, <2>2, <2>3
    <3> QED
      BY <1>3, <2>1, <2>2, <2>3, <3>1 DEF MainKnows, Begun
  <2>4. CASE at = "reopen"
    <3>1. \A p \in Workers : p < pid \/ p = pid
      BY <1>2, <2>1, <2>4, TestAssumption DEF Workers, First
    <3> QED
      BY <1>3, <2>1, <2>2, <2>4, <3>1 DEF MainKnows
  <2> QED
    BY <2>3, <2>4
<1>6. UnitInv'
  <2>1. \A q \in Workers : Inside(q)' => Inside(q)
    BY <1>1, <1>3 DEF Inside
  <2> QED
    BY <1>1, <1>3, <2>1, UnitStays DEF HasHandle
<1> QED
  BY <1>2, <1>4, <1>5, <1>6, TestParts

\* wait of main: the worker has ended, or main sleeps until it does.
LEMMA MainWaitKeeps ==
    ASSUME Typed, TestInv, MainWait \/ MainWaitReturn
    PROVE  Typed' /\ TestInv'
<1>1. /\ Main \in PIDs /\ Main # INITPID /\ \A p \in Workers : p \in PIDs /\ p # Main
      /\ pid \in Workers
  BY Roles DEF TestInv
<1>2. inWait[Main] = NoSem /\ cpu = Main
  BY DEF MainWait, MainWaitReturn, On
<1>3. CASE MainWait /\ state[pid] = "EXITED"
  <2>1. pc[Main] = "await" /\ pc[pid] = "exited"
    BY <1>1, <1>3 DEF MainWait, On, TestInv, MainKnows, Begun
  <2> QED
    BY <1>2, <1>3, <2>1, NextAwaited DEF MainWait, procVars, semVars
<1>4. CASE MainWaitReturn
  <2>1. pc[Main] = "waiting" /\ pc[pid] = "exited"
    BY <1>4 DEF MainWaitReturn, On, TestInv, MainKnows
  <2> QED
    BY <1>2, <1>4, <2>1, NextAwaited DEF MainWaitReturn, vars
<1>5. CASE MainWait /\ state[pid] # "EXITED"
  <2>1. /\ BlockSelf /\ Goto(Main, "waiting") /\ pc[Main] = "await"
        /\ UNCHANGED <<pid, sems, inWait, handle>>
    BY <1>5 DEF MainWait, On, semVars
  <2>2. DOMAIN pc' = PIDs /\ pc'[Main] = "waiting" /\ \A q \in PIDs : q # Main => pc'[q] = pc[q]
    BY <1>1, <2>1, Moves
  <2>3. ProcTypeOK' /\ NobodyEnds /\ state'[Main] = "BLOCKED"
    BY <1>1, <1>2, <2>1, BlockSelfEffect DEF Typed, SemTypeOK, ProcTypeOK
  <2>4. Typed' /\ Testing' /\ pid' \in Workers
    BY <1>1, <2>1, <2>2, <2>3 DEF Typed, SemTypeOK, ProcTypeOK, TestInv, Testing
  <2>5. MainKnows'
    BY <1>1, <2>1, <2>2, <2>3 DEF TestInv, MainKnows, Begun, NobodyEnds
  <2>6. UnitInv'
    <3>1. \A q \in Workers : Inside(q)' => Inside(q)
      BY <1>1, <2>1, <2>2 DEF Inside
    <3> QED
      BY <1>1, <1>2, <2>1, <2>2, <3>1, UnitStays DEF HasHandle
  <2> QED
    BY <2>4, <2>5, <2>6, TestParts
<1> QED
  BY <1>3, <1>4, <1>5


\* The creation of a worker: none is counted as ended before it has begun.
LEMMA MainCreateKeeps ==
    ASSUME Typed, TestInv, MainCreate
    PROVE  Typed' /\ TestInv'
<1>1. Main \in PIDs /\ (\A p \in Workers : p \in PIDs /\ p # Main) /\ pid \in Workers
  BY Roles DEF TestInv
<1>2. /\ pc[Main] = "create" /\ inWait[Main] = NoSem /\ Start(pid)
      /\ UNCHANGED <<sems, inWait, handle>>
  BY DEF MainCreate, On, semVars
<1>3. PICK at \in {"create", "await"} :
        /\ Goto(Main, at) /\ pid' \in Workers
        /\ at = "create" => pid' = pid + 1
        /\ at = "await" => pid + 1 \notin Workers /\ pid' = First
  BY Roles DEF MainCreate, NextWorker
<1>4. DOMAIN pc' = PIDs /\ pc'[Main] = at /\ \A q \in PIDs : q # Main => pc'[q] = pc[q]
  BY <1>1, <1>3, Moves
<1>5. /\ ProcTypeOK' /\ state'[pid] = "READY"
      /\ \A q \in PIDs : q # pid => state'[q] = state[q]
  BY <1>1, <1>2 DEF Start, Stay, Typed, SemTypeOK, ProcTypeOK, States
<1>6. Typed' /\ Testing'
  BY <1>2, <1>4, <1>5 DEF Typed, SemTypeOK, ProcTypeOK, TestInv, Testing
<1>7. MainKnows'
  <2>1. \A p \in Workers : p < pid => Begun(p)
    BY <1>2 DEF TestInv, MainKnows
  <2>2. \A p \in Workers : pc'[p] = pc[p] /\ p \in Nat
    BY <1>1, <1>4 DEF PIDs
  <2>3. \A p \in Workers : p < pid \/ p = pid => Begun(p)'
    BY <1>1, <1>5, <2>1, <2>2 DEF Begun
  <2>4. CASE at = "create"
    <3>1. \A p \in Workers : p < pid' => p < pid \/ p = pid
      BY <1>1, <1>3, <2>2, <2>4
    <3> QED
      BY <1>4, <2>3, <2>4, <3>1 DEF MainKnows
  <2>5. CASE at = "await"
    <3>1. \A p \in Workers : (p < pid \/ p = pid) /\ ~ (p < pid')
      BY <1>1, <1>3, <2>5, TestAssumption DEF Workers, First
    <3> QED
      BY <1>4, <2>3, <2>5, <3>1 DEF MainKnows
  <2> QED
    BY <2>4, <2>5
<1>8. UnitInv'
  <2>1. \A q \in Workers : Inside(q)' => Inside(q)
    BY <1>1, <1>2, <1>4 DEF Inside
  <2> QED
    BY <1>1, <1>2, <1>4, <2>1, UnitStays DEF HasHandle
<1> QED
  BY <1>3, <1>6, <1>7, <1>8, TestParts

\* Main opens the semaphore again, to destroy it.
LEMMA MainReopenKeeps ==
    ASSUME Typed, TestInv, MainReopen
    PROVE  Typed' /\ TestInv'
<1>1. Main \in PIDs /\ \A p \in Workers : p \in PIDs /\ p # Main
  BY Roles
<1>2. /\ pc[Main] = "reopen" /\ inWait[Main] = NoSem /\ cpu = Main /\ pid' = pid
      /\ OpenSem(SEM_ID, 1) /\ Goto(Main, "destroy")
  BY DEF MainReopen, On
<1>3. DOMAIN pc' = PIDs /\ pc'[Main] = "destroy" /\ \A q \in PIDs : q # Main => pc'[q] = pc[q]
  BY <1>1, <1>2, Moves
<1>4. Typed' /\ UnitInv'
  BY <1>2, <1>3, OpenKeepsUnit
<1>5. Testing' /\ pid' \in Workers
  BY <1>2, <1>3 DEF TestInv, Testing
<1>6. MainKnows'
  BY <1>1, <1>2, <1>3 DEF TestInv, MainKnows
<1> QED
  BY <1>4, <1>5, <1>6, TestParts

\* Main destroys the semaphore when every worker has ended.
LEMMA MainDestroyKeeps ==
    ASSUME Typed, TestInv, MainDestroy
    PROVE  Typed' /\ TestInv'
<1>1. Main \in PIDs /\ SEM_ID \in Names /\ \A p \in Workers : p \in PIDs /\ p # Main
  BY Roles
<1>2. /\ pc[Main] = "destroy" /\ pid' = pid
      /\ DestroySem(handle[Main][SEM_ID]) /\ Goto(Main, "done")
  BY DEF MainDestroy, On
<1>3. DOMAIN pc' = PIDs /\ pc'[Main] = "done" /\ \A q \in PIDs : q # Main => pc'[q] = pc[q]
  BY <1>1, <1>2, Moves
<1>4. PICK s \in SemIds : s = handle[Main][SEM_ID]
  BY <1>1, <1>2 DEF TestInv, HandlesHeld, HasHandle, Typed, SemTypeOK
<1>5. SemTypeOK'
  BY <1>2, <1>4, DestroyType DEF Typed
<1>6. Typed' /\ Testing' /\ pid' \in Workers
  BY <1>2, <1>3, <1>5 DEF Typed, TestInv, Testing
<1>7. \A p \in Workers : pc[p] = "exited" /\ pc'[p] = "exited"
  BY <1>1, <1>2, <1>3 DEF TestInv, MainKnows
<1>8. MainKnows'
  BY <1>3, <1>7 DEF MainKnows
<1>9. /\ sems' = [sems EXCEPT ![s].used = FALSE, ![s].waiting = << >>]
      /\ inWait' = inWait
      /\ handle' = [p \in PIDs |-> [n \in Names |->
                      IF handle[p][n] = s THEN NoSem ELSE handle[p][n]]]
  BY <1>2, <1>4 DEF DestroySem
<1>10. /\ \A t \in SemIds : t # s => sems'[t] = sems[t]
       /\ ~sems'[s].used /\ sems'[s].waiting = << >>
  BY <1>4, <1>9 DEF Typed, SemTypeOK, Sem
<1>11. \A n \in Names : NamedAt(n)' = NamedAt(n) \ {s}
  BY <1>10 DEF NamedAt
<1>12. HandlesNamed' /\ OnePerName'
  <2>1. HandlesNamed'
    BY <1>9, <1>11 DEF TestInv, HandlesNamed
  <2> QED
    BY <1>10, <2>1 DEF TestInv, OnePerName
<1>13. TestWaits' /\ HandlesHeld'
  BY <1>3, <1>7, <1>9 DEF TestInv, TestWaits, HandlesHeld, HasHandle
<1>14. MainUnlisted'
  BY <1>10 DEF TestInv, MainUnlisted, Range
<1>15. OneUnit' /\ MutualExclusion'
  <2>1. \A p \in Workers : ~Inside(p)'
    BY <1>7 DEF Inside
  <2>2. \A t \in NamedAt(SEM_ID)' : t \in NamedAt(SEM_ID) /\ sems'[t] = sems[t]
    BY <1>1, <1>10, <1>11 DEF NamedAt
  <2> QED
    BY <2>1, <2>2 DEF TestInv, OneUnit, MutualExclusion
<1> QED
  BY <1>3, <1>6, <1>8, <1>12, <1>13, <1>14, <1>15, TestParts DEF UnitInv

\* Every step of test_sync keeps its invariant.
LEMMA TestStep ==
    ASSUME Typed, TestInv, SyncNext
    PROVE  Typed' /\ TestInv'
<1>1. ~MvarStep
  <2>1. ~mvar_wrapper
    BY DEF mvar_wrapper, Opens, Spawn, Leave, On, TestInv, Testing
  <2>2. \A p \in Writers : ~mvar_writer(p)
    BY Roles DEF mvar_writer, Waits, Posts, Write, Fill, On, TestInv, Testing, Clients
  <2>3. \A p \in Readers : ~mvar_reader(p)
    BY Roles DEF mvar_reader, Waits, Posts, Read, Drain, On, TestInv, Testing, Clients
  <2> QED
    BY <2>1, <2>2, <2>3 DEF MvarStep
<1>2. ASSUME NEW p \in Workers, WorkerStep(p)
      PROVE  Typed' /\ TestInv'
  <2>1. CASE WorkerWait(p)
    <3>1. p \in PIDs /\ p # Main /\ SEM_ID \in Names
      BY Roles
    <3>2. /\ p = cpu /\ pc[p] = "wait" /\ pid' = pid
          /\ WaitSem(handle[p][SEM_ID]) /\ Goto(p, "read")
      BY <2>1 DEF WorkerWait, On
    <3>3. DOMAIN pc' = PIDs /\ pc'[p] = "read" /\ \A q \in PIDs : q # p => pc'[q] = pc[q]
      BY <3>1, <3>2, Moves
    <3>4. PICK s \in NamedAt(SEM_ID) : s = handle[p][SEM_ID]
      BY <3>1, <3>2 DEF TestInv, HandlesHeld, HandlesNamed, HasHandle
    <3> QED
      BY <3>2, <3>3, <3>4, TakeKeepsTest DEF WaitSem
  <2> QED
    BY <1>2, <2>1, WorkerOpenKeeps, PostKeepsTest, WorkerCloseKeeps, WorkerExitKeeps, SlowIncKeeps
    DEF WorkerStep
<1>3. CASE MainStep
  BY <1>3, MainCreateKeeps, MainWaitKeeps, MainReopenKeeps, MainDestroyKeeps DEF MainStep
<1>4. CASE SemResume /\ UNCHANGED testVars
  <2>1. cpu \in PIDs /\ inWait[cpu] # NoSem /\ TakeOrBlock(inWait[cpu]) /\ UNCHANGED <<pc, pid>>
    BY <1>4 DEF SemResume, testVars, Typed, SemTypeOK
  <2>2. PICK p \in Workers, s \in NamedAt(SEM_ID) : p = cpu /\ s = inWait[cpu] /\ pc[p] = "read"
    BY <2>1 DEF TestInv, TestWaits
  <2>3. DOMAIN pc' = PIDs /\ pc'[p] = "read"
    BY <2>1, <2>2 DEF Typed
  <2> QED
    BY <2>1, <2>2, <2>3, TakeKeepsTest
<1>5. CASE Tick /\ UNCHANGED testVars
  BY <1>5, TickKeepsTest
<1> QED
  BY <1>1, <1>2, <1>3, <1>4, <1>5 DEF SyncNext, SyncStep, ProgramStep


\* What a turn of semWait's loop leaves: a unit less, or the process in the wait.
TakenOrListed(s) ==
    /\ \A t \in SemIds : /\ sems'[t].used = sems[t].used /\ sems'[t].name = sems[t].name
                         /\ t # s => sems'[t].value = sems[t].value
    /\ \A q \in PIDs : q # cpu => inWait'[q] = inWait[q]
    /\ \/ sems[s].value # 0 /\ sems'[s].value = sems[s].value - 1 /\ inWait'[cpu] = NoSem
       \/ sems[s].value = 0 /\ sems'[s].value = 0 /\ inWait'[cpu] = s

\* A turn of semWait's loop on a semaphore in use, in these terms.
LEMMA TakeOutcome ==
    ASSUME SemTypeOK, NEW s \in SemIds, sems[s].used, TakeOrBlock(s)
    PROVE  /\ SemTypeOK' /\ NobodyEnds /\ handle' = handle
           /\ TakenOrListed(s)
<1>1. sems[s] \in Sem /\ cpu \in PIDs
  BY DEF SemTypeOK
<1>2. SemTypeOK' /\ NobodyEnds /\ handle' = handle
  BY TakeEffect
<1>3. CASE sems[s].value # 0
  <2>1. /\ sems' = [sems EXCEPT ![s].value = sems[s].value - 1]
        /\ inWait' = [inWait EXCEPT ![cpu] = NoSem]
    BY <1>3, TakeEffect
  <2> QED
    BY <1>1, <1>2, <1>3, <2>1 DEF TakenOrListed, SemTypeOK, Sem
<1>4. CASE sems[s].value = 0
  <2>1. /\ sems' = [sems EXCEPT ![s].waiting = Append(sems[s].waiting, cpu)]
        /\ inWait' = [inWait EXCEPT ![cpu] = s]
    BY <1>4, TakeEffect
  <2> QED
    BY <1>1, <1>2, <1>4, <2>1 DEF TakenOrListed, SemTypeOK, Sem
<1> QED
  BY <1>3, <1>4, <1>2


-----------------------------------------------------------------------------
Trio == {mvar_mutex, mvar_empty, mvar_full}

\* What a process does not do to the others
OthersAlike(p) ==
    \A q \in PIDs : q # p => pc'[q] = pc[q] /\ inWait'[q] = inWait[q]

\* The three semaphores of mvar are in use and apart.
LEMMA SharedSlots ==
    ASSUME Typed, MvarInv, pc[Main] \in Serving
    PROVE  /\ \A n \in Trio : /\ Shared(n) \in SemIds /\ sems[Shared(n)].used
                              /\ sems[Shared(n)] \in Sem
           /\ Units(mvar_empty) \in Nat /\ Units(mvar_full) \in Nat
           /\ \A m, n \in Trio : m # n => Shared(m) # Shared(n)
<1>1. Main \in PIDs /\ Trio \subseteq Names
  BY Roles DEF Trio
<1>2. \A n \in Trio : Shared(n) \in NamedAt(n)
  BY <1>1 DEF MvarInv, NameInv, HandlesNamed, Shared, Trio
<1>3. \A n \in Trio : Shared(n) \in SemIds /\ sems[Shared(n)].used /\ String(sems[Shared(n)].name) = n
  BY <1>2 DEF NamedAt
<1>4. \A n \in Trio : sems[Shared(n)] \in Sem
  BY <1>3 DEF Typed, SemTypeOK
<1>5. Units(mvar_empty) \in Nat /\ Units(mvar_full) \in Nat
  BY DEF MvarInv, Circulation
<1> QED
  BY <1>3, <1>4, <1>5

\* While clients run, the invariant is about places, names, waits and the unit.
LEMMA ServingParts ==
    ASSUME MvarInv, pc[Main] \in Serving, pc'[Main] \in Serving, Sharing', pid' \in Clients,
           handle' = handle, Trio \subseteq Names,
           \A s \in SemIds : sems'[s].used = sems[s].used /\ sems'[s].name = sems[s].name,
           MvarWaits', Circulation'
    PROVE  MvarInv'
<1>1. NameInv'
  BY NamesUndisturbed DEF MvarInv
<1>2. \A n \in Trio : Shared(n)' # NoSem
  BY DEF MvarInv, Shared, Trio
<1>3. pc'[Main] \notin Opening
  BY DEF Serving, Opening
<1> QED
  BY <1>1, <1>2, <1>3 DEF MvarInv, Trio

\* A client that keeps, or has not, the unit while the semaphores and the variable
\* say what they said.
LEMMA UnitUntouched ==
    ASSUME Circulation, NEW p \in Clients, OthersAlike(p),
           UNCHANGED <<value, is_empty>>,
           Units(mvar_empty)' = Units(mvar_empty), Units(mvar_full)' = Units(mvar_full),
           Vacant(p)' => Vacant(p), Midway(p)' => Midway(p), Lettered(p)' => Lettered(p)
    PROVE  Circulation'
<1>1. \A q \in Clients : /\ Vacant(q)' => Vacant(q)
                         /\ Midway(q)' => Midway(q)
                         /\ Lettered(q)' => Lettered(q)
                         /\ Holds(q)' => Holds(q)
  BY Roles DEF OthersAlike, Vacant, Midway, Lettered, Holds, At
<1>2. Letter' = Letter
  BY DEF Letter, Writers
<1> QED
  BY <1>1, <1>2 DEF Circulation

\* A turn of semWait's loop on the mutex of mvar.
LEMMA TakeMutexKeeps ==
    ASSUME Typed, MvarInv, pc[Main] \in Serving, NEW p \in Clients, p = cpu,
           TakeOrBlock(Shared(mvar_mutex)), DOMAIN pc' = PIDs,
           \A q \in PIDs : q # p => pc'[q] = pc[q],
           UNCHANGED <<pid, value, is_empty>>,
           \/ pc'[p] = "put" /\ Vacant(p)
           \/ pc'[p] = "get" /\ Lettered(p)
    PROVE  Typed' /\ MvarInv'
<1>1. p \in PIDs /\ p # Main /\ Main \in PIDs /\ Trio \subseteq Names
  BY Roles DEF Trio
<1>2. mvar_mutex \in Trio /\ mvar_empty \in Trio /\ mvar_full \in Trio
      /\ mvar_mutex # mvar_empty /\ mvar_mutex # mvar_full /\ mvar_empty # mvar_full
  BY MvarAssumption DEF Trio
<1>3. PICK s \in SemIds : s = Shared(mvar_mutex) /\ sems[s].used /\ sems[s] \in Sem
  BY <1>2, SharedSlots
<1>4. Shared(mvar_empty) \in SemIds \ {s} /\ Shared(mvar_full) \in SemIds \ {s}
  BY <1>2, <1>3, SharedSlots
<1>5. SemTypeOK' /\ handle' = handle /\ TakenOrListed(s)
  BY <1>3, TakeOutcome DEF Typed
<1>6. Typed' /\ Sharing' /\ pid' \in Clients
  BY <1>1, <1>5 DEF Typed, MvarInv, Sharing
<1>7. OthersAlike(p)
  BY <1>5 DEF OthersAlike, TakenOrListed
<1>8. UNCHANGED <<Shared(mvar_empty), Shared(mvar_full), Shared(mvar_mutex)>>
  BY <1>5 DEF Shared
<1>9. MvarWaits'
  BY <1>1, <1>3, <1>5, <1>7, <1>8 DEF TakenOrListed, OthersAlike, MvarInv, MvarWaits
<1>10. Circulation'
  <2>1. Units(mvar_empty)' = Units(mvar_empty) /\ Units(mvar_full)' = Units(mvar_full)
    BY <1>4, <1>5, <1>8 DEF Units, TakenOrListed
  <2>2. /\ Vacant(p)' => Vacant(p)
        /\ Midway(p)' => Midway(p)
        /\ Lettered(p)' => Lettered(p)
    BY DEF Vacant, Midway, Lettered, At
  <2> QED
    BY <1>7, <2>1, <2>2, UnitUntouched DEF MvarInv
<1> QED
  BY <1>1, <1>5, <1>6, <1>9, <1>10, ServingParts DEF TakenOrListed


\* What semPost leaves: a unit more.
PostedTo(s) ==
    /\ \A t \in SemIds : /\ sems'[t].used = sems[t].used /\ sems'[t].name = sems[t].name
                         /\ t # s => sems'[t].value = sems[t].value
    /\ sems'[s].value = sems[s].value + 1

\* semPost in these terms.
LEMMA PostOutcome ==
    ASSUME SemTypeOK, NEW s \in SemIds, PostSem(s)
    PROVE  SemTypeOK' /\ NobodyEnds /\ UNCHANGED <<inWait, handle>> /\ PostedTo(s)
<1>1. sems[s] \in Sem
  BY DEF SemTypeOK
<1>2. /\ SemTypeOK' /\ NobodyEnds /\ UNCHANGED <<inWait, handle>>
      /\ sems' = [sems EXCEPT ![s].value = sems[s].value + 1, ![s].waiting = << >>]
  BY PostEffect
<1>3. PostedTo(s)
  BY <1>1, <1>2 DEF PostedTo, SemTypeOK, Sem
<1> QED
  BY <1>2, <1>3


\* A turn of semWait's loop on "empty" or "full": the unit goes to the process, and
\* with it what the variable holds.
LEMMA TakeUnitKeeps ==
    ASSUME Typed, MvarInv, pc[Main] \in Serving, NEW p \in Clients, p = cpu,
           NEW n \in {mvar_empty, mvar_full},
           TakeOrBlock(Shared(n)), DOMAIN pc' = PIDs,
           \A q \in PIDs : q # p => pc'[q] = pc[q],
           UNCHANGED <<pid, value, is_empty>>,
           ~Holds(p), pc'[p] = IF n = mvar_empty THEN "lock" ELSE "acquire"
    PROVE  Typed' /\ MvarInv'
<1>1. p \in PIDs /\ p # Main /\ Main \in PIDs /\ Trio \subseteq Names
  BY Roles DEF Trio
<1>2. mvar_empty \in Trio /\ mvar_full \in Trio /\ mvar_empty # mvar_full /\ n \in Trio
  BY MvarAssumption DEF Trio
<1>3. PICK s \in SemIds : s = Shared(n) /\ sems[s].used /\ sems[s] \in Sem
  BY <1>2, SharedSlots
<1>4. /\ Shared(mvar_empty) \in SemIds /\ Shared(mvar_full) \in SemIds
      /\ Shared(mvar_empty) # Shared(mvar_full)
      /\ Units(mvar_empty) \in Nat /\ Units(mvar_full) \in Nat
  BY <1>2, SharedSlots
<1>5. SemTypeOK' /\ handle' = handle /\ TakenOrListed(s)
  BY <1>3, TakeOutcome DEF Typed
<1>6. Typed' /\ Sharing' /\ pid' \in Clients
  BY <1>1, <1>5 DEF Typed, MvarInv, Sharing
<1>7. OthersAlike(p)
  BY <1>5 DEF OthersAlike, TakenOrListed
<1>8. UNCHANGED <<Shared(mvar_empty), Shared(mvar_full), Shared(mvar_mutex)>>
  BY <1>5 DEF Shared
<1>9. MvarWaits'
  BY <1>1, <1>2, <1>3, <1>5, <1>7, <1>8 DEF TakenOrListed, OthersAlike, MvarInv, MvarWaits
<1>10. Circulation /\ s # NoSem
  BY DEF MvarInv, SemIds
<1>11. Circulation'
  <2>1. CASE sems[s].value = 0
    <3>1. Units(mvar_empty)' = Units(mvar_empty) /\ Units(mvar_full)' = Units(mvar_full)
      BY <1>3, <1>4, <1>5, <1>8, <2>1 DEF Units, TakenOrListed
    <3>2. ~Vacant(p)' /\ ~Midway(p)' /\ ~Lettered(p)'
      BY <1>5, <1>10, <2>1 DEF Vacant, Midway, Lettered, At, TakenOrListed
    <3> QED
      BY <1>7, <1>10, <3>1, <3>2, UnitUntouched
  <2>2. CASE sems[s].value # 0
    <3>1. /\ Units(mvar_empty)' = 0 /\ Units(mvar_full)' = 0
          /\ Units(n) # 0 /\ \A q \in Clients : ~Holds(q)
      BY <1>2, <1>3, <1>4, <1>5, <1>8, <1>10, <2>2 DEF Units, TakenOrListed, Circulation
    <3>2. \A q \in Clients : Holds(q)' => q = p
      BY <1>7, <3>1, Roles DEF OthersAlike, Holds, Vacant, Midway, Lettered, At
    <3>3. /\ ~Midway(p)'
          /\ Vacant(p)' => n = mvar_empty
          /\ Lettered(p)' => n = mvar_full
      BY <1>2 DEF Vacant, Midway, Lettered, At
    <3>4. Vacant(p)' => is_empty'
      BY <1>10, <3>1, <3>3 DEF Circulation
    <3>5. Lettered(p)' => Letter'
      BY <1>10, <3>1, <3>3 DEF Circulation, Letter, Writers
    <3>6. \A q \in Clients : /\ Vacant(q)' => is_empty'
                             /\ Midway(q)' => value' \in Writers
                             /\ Lettered(q)' => Letter'
      BY <3>2, <3>3, <3>4, <3>5 DEF Holds
    <3> QED
      BY <3>1, <3>2, <3>6 DEF Circulation, Writers
  <2> QED
    BY <2>1, <2>2
<1> QED
  BY <1>1, <1>5, <1>6, <1>9, <1>11, ServingParts DEF TakenOrListed

\* semPost of the mutex by the process that has the unit.
LEMMA PostMutexKeeps ==
    ASSUME Typed, MvarInv, pc[Main] \in Serving, NEW p \in Clients, inWait[p] = NoSem,
           PostSem(Shared(mvar_mutex)), DOMAIN pc' = PIDs,
           \A q \in PIDs : q # p => pc'[q] = pc[q],
           UNCHANGED <<pid, value, is_empty>>,
           \/ pc[p] = "unlock" /\ pc'[p] = "full"
           \/ pc[p] = "release" /\ pc'[p] = "vacate"
    PROVE  Typed' /\ MvarInv'
<1>1. p \in PIDs /\ p # Main /\ Main \in PIDs /\ Trio \subseteq Names
  BY Roles DEF Trio
<1>2. mvar_mutex \in Trio /\ mvar_empty \in Trio /\ mvar_full \in Trio
      /\ mvar_mutex # mvar_empty /\ mvar_mutex # mvar_full
  BY MvarAssumption DEF Trio
<1>3. PICK s \in SemIds : s = Shared(mvar_mutex) /\ sems[s] \in Sem
  BY <1>2, SharedSlots
<1>4. Shared(mvar_empty) \in SemIds \ {s} /\ Shared(mvar_full) \in SemIds \ {s}
  BY <1>2, <1>3, SharedSlots
<1>5. SemTypeOK' /\ UNCHANGED <<inWait, handle>> /\ PostedTo(s)
  BY <1>3, PostOutcome DEF Typed
<1>6. Typed' /\ Sharing' /\ pid' \in Clients
  BY <1>1, <1>5 DEF Typed, MvarInv, Sharing
<1>7. OthersAlike(p)
  BY <1>5 DEF OthersAlike
<1>8. UNCHANGED <<Shared(mvar_empty), Shared(mvar_full), Shared(mvar_mutex)>>
  BY <1>5 DEF Shared
<1>9. MvarWaits'
  BY <1>1, <1>5, <1>7, <1>8 DEF OthersAlike, MvarInv, MvarWaits
<1>10. Circulation'
  <2>1. Units(mvar_empty)' = Units(mvar_empty) /\ Units(mvar_full)' = Units(mvar_full)
    BY <1>4, <1>5, <1>8 DEF Units, PostedTo
  <2>2. /\ Vacant(p)' => Vacant(p)
        /\ Midway(p)' => Midway(p)
        /\ Lettered(p)' => Lettered(p)
    BY DEF Vacant, Midway, Lettered, At
  <2> QED
    BY <1>7, <2>1, <2>2, UnitUntouched DEF MvarInv
<1> QED
  BY <1>1, <1>5, <1>6, <1>9, <1>10, ServingParts DEF PostedTo

\* semPost of "full" by a writer and of "empty" by a reader: the unit goes back, to
\* the side that the variable is ready for.
LEMMA PostUnitKeeps ==
    ASSUME Typed, MvarInv, pc[Main] \in Serving, NEW p \in Clients, inWait[p] = NoSem,
           NEW n, PostSem(Shared(n)), DOMAIN pc' = PIDs,
           \A q \in PIDs : q # p => pc'[q] = pc[q],
           UNCHANGED <<pid, value, is_empty>>,
           \/ pc[p] = "full" /\ pc'[p] = "empty" /\ n = mvar_full
           \/ pc[p] = "vacate" /\ pc'[p] = "await" /\ n = mvar_empty
    PROVE  Typed' /\ MvarInv'
<1>1. p \in PIDs /\ p # Main /\ Main \in PIDs /\ Trio \subseteq Names
  BY Roles DEF Trio
<1>2. mvar_empty \in Trio /\ mvar_full \in Trio /\ mvar_empty # mvar_full /\ n \in Trio
  BY MvarAssumption DEF Trio
<1>3. PICK s \in SemIds : s = Shared(n) /\ sems[s] \in Sem
  BY <1>2, SharedSlots
<1>4. /\ Shared(mvar_empty) \in SemIds /\ Shared(mvar_full) \in SemIds
      /\ Shared(mvar_empty) # Shared(mvar_full)
  BY <1>2, SharedSlots
<1>5. SemTypeOK' /\ UNCHANGED <<inWait, handle>> /\ PostedTo(s)
  BY <1>3, PostOutcome DEF Typed
<1>6. Typed' /\ Sharing' /\ pid' \in Clients
  BY <1>1, <1>5 DEF Typed, MvarInv, Sharing
<1>7. OthersAlike(p)
  BY <1>5 DEF OthersAlike
<1>8. UNCHANGED <<Shared(mvar_empty), Shared(mvar_full), Shared(mvar_mutex)>>
  BY <1>5 DEF Shared
<1>9. MvarWaits'
  BY <1>1, <1>5, <1>7, <1>8 DEF OthersAlike, MvarInv, MvarWaits
<1>10. Circulation /\ Holds(p)
  BY DEF MvarInv, Holds, Vacant, Lettered
<1>11. Circulation'
  <2>1. /\ Units(mvar_empty)' = IF n = mvar_empty THEN 1 ELSE 0
        /\ Units(mvar_full)' = IF n = mvar_full THEN 1 ELSE 0
    <3>1. Units(mvar_empty) = 0 /\ Units(mvar_full) = 0
      BY <1>10 DEF Circulation
    <3> QED
      BY <1>2, <1>3, <1>4, <1>5, <1>8, <3>1 DEF Units, PostedTo
  <2>2. \A q \in Clients : ~Holds(q)'
    <3>1. ~Holds(p)'
      BY DEF Holds, Vacant, Midway, Lettered, At
    <3>2. \A q \in Clients : q # p => ~Holds(q)
      BY <1>10 DEF Circulation
    <3> QED
      BY <1>7, <3>1, <3>2, Roles DEF OthersAlike, Holds, Vacant, Midway, Lettered, At
  <2>3. IF n = mvar_full THEN Letter' ELSE is_empty'
    BY <1>2, <1>10 DEF Circulation, Letter, Vacant, Lettered, Writers
  <2> QED
    BY <1>2, <2>1, <2>2, <2>3 DEF Circulation, Holds
<1> QED
  BY <1>1, <1>5, <1>6, <1>9, <1>11, ServingParts DEF PostedTo


\* The process that has the unit writes or reads the variable and its flag.
LEMMA VariableKeeps ==
    ASSUME Typed, MvarInv, pc[Main] \in Serving, NEW p \in Clients,
           \/ p \in Writers /\ (Write(p) \/ Fill(p))
           \/ Read(p) \/ Drain(p)
    PROVE  Typed' /\ MvarInv'
<1>1. p \in PIDs /\ p # Main /\ Main \in PIDs /\ Trio \subseteq Names
  BY Roles DEF Trio
<1>2. /\ inWait[p] = NoSem /\ UNCHANGED <<state, cpu, sems, inWait, handle, pid>>
      /\ \/ /\ pc[p] = "put" /\ Goto(p, "fill") /\ p \in Writers
            /\ value' = p /\ is_empty' = is_empty
         \/ pc[p] = "fill" /\ Goto(p, "unlock") /\ value' = value /\ is_empty' = FALSE
         \/ pc[p] = "get" /\ Goto(p, "drain") /\ UNCHANGED <<value, is_empty>>
         \/ pc[p] = "drain" /\ Goto(p, "release") /\ value' = value /\ is_empty' = TRUE
  BY DEF Write, Fill, Read, Drain, On, vars, mvarVars
<1>3. /\ DOMAIN pc' = PIDs /\ pc'[p] \in {"fill", "unlock", "drain", "release"}
      /\ \A q \in PIDs : q # p => pc'[q] = pc[q]
      /\ \/ /\ pc[p] = "put" /\ pc'[p] = "fill" /\ p \in Writers
            /\ value' = p /\ is_empty' = is_empty
         \/ pc[p] = "fill" /\ pc'[p] = "unlock" /\ value' = value /\ is_empty' = FALSE
         \/ pc[p] = "get" /\ pc'[p] = "drain" /\ UNCHANGED <<value, is_empty>>
         \/ pc[p] = "drain" /\ pc'[p] = "release" /\ value' = value /\ is_empty' = TRUE
  BY <1>1, <1>2, Moves
<1>4. Typed' /\ Sharing' /\ pid' \in Clients
  BY <1>1, <1>2, <1>3 DEF Typed, SemTypeOK, MvarInv, Sharing
<1>5. MvarWaits'
  BY <1>1, <1>2, <1>3 DEF MvarInv, MvarWaits, Shared
<1>6. Circulation /\ Holds(p)
  BY <1>3 DEF MvarInv, Holds, Vacant, Midway, Lettered
<1>7. Circulation'
  <2>1. UNCHANGED <<Units(mvar_empty), Units(mvar_full)>>
    BY <1>2 DEF Units, Shared
  <2>2. Units(mvar_empty) = 0 /\ Units(mvar_full) = 0 /\ \A q \in Clients : Holds(q) => q = p
    BY <1>6 DEF Circulation
  <2>3. \A q \in Clients : Holds(q)' => q = p
    BY <1>2, <1>3, <2>2, Roles DEF Holds, Vacant, Midway, Lettered, At
  <2>4. /\ Vacant(p)' => is_empty'
        /\ Midway(p)' => value' \in Writers
        /\ Lettered(p)' => Letter'
    BY <1>3, <1>6 DEF Circulation, Letter, Vacant, Midway, Lettered, At, Writers
  <2>5. \A q \in Clients : /\ Vacant(q)' => is_empty'
                           /\ Midway(q)' => value' \in Writers
                           /\ Lettered(q)' => Letter'
    BY <2>3, <2>4 DEF Holds
  <2> QED
    BY <2>1, <2>2, <2>3, <2>5 DEF Circulation, Writers
<1> QED
  BY <1>1, <1>2, <1>3, <1>4, <1>5, <1>7, ServingParts

\* Main creates a client or ends, or a tick falls, while clients run.
LEMMA QuietKeepsServing ==
    ASSUME Typed, MvarInv, pc[Main] \in Serving, pc'[Main] \in Serving, ProcTypeOK',
           DOMAIN pc' = PIDs, \A q \in PIDs : q # Main => pc'[q] = pc[q],
           pid' \in Clients, UNCHANGED <<sems, inWait, handle, value, is_empty>>
    PROVE  Typed' /\ MvarInv'
<1>1. Main \in PIDs /\ Trio \subseteq Names /\ \A p \in Clients : p \in PIDs /\ p # Main
  BY Roles DEF Trio
<1>2. Typed' /\ Sharing'
  BY DEF Typed, SemTypeOK, ProcTypeOK, MvarInv, Sharing
<1>3. MvarWaits'
  BY <1>1 DEF MvarInv, MvarWaits, Shared
<1>4. Circulation'
  <2>1. \A q \in Clients : /\ Vacant(q)' <=> Vacant(q)
                           /\ Midway(q)' <=> Midway(q)
                           /\ Lettered(q)' <=> Lettered(q)
                           /\ Holds(q)' <=> Holds(q)
    BY <1>1 DEF Vacant, Midway, Lettered, Holds, At
  <2>2. UNCHANGED <<Units(mvar_empty), Units(mvar_full), Letter>>
    BY DEF Units, Shared, Letter, Writers
  <2> QED
    BY <2>1, <2>2 DEF MvarInv, Circulation
<1> QED
  BY <1>1, <1>2, <1>3, <1>4, ServingParts

\* Which semaphore main opens where, and with how many units
OpensNext(n, units) ==
    \/ pc[Main] = "open mutex" /\ pc'[Main] = "open empty" /\ n = mvar_mutex /\ units = 1
    \/ pc[Main] = "open empty" /\ pc'[Main] = "open full" /\ n = mvar_empty /\ units = 1
    \/ pc[Main] = "open full" /\ pc'[Main] = "spawn" /\ n = mvar_full /\ units = 0

\* A step while main still opens semaphores: only main runs.
LEMMA OpenKeepsMvar ==
    ASSUME Typed, MvarInv, pc[Main] \in Opening, cpu = Main, UNCHANGED <<pid, value, is_empty>>,
           DOMAIN pc' = PIDs, \A q \in PIDs : q # Main => pc'[q] = pc[q],
           NEW n \in Names, NEW units \in Nat, OpensNext(n, units), OpenSem(n, units)
    PROVE  Typed' /\ MvarInv'
<1>1. /\ Main \in PIDs /\ Main < MAX_PROCESSES /\ \A p \in Clients : p \in PIDs /\ p # Main
      /\ n \in Names /\ units \in Nat /\ mvar_full \in Names /\ mvar_empty \in Names
      /\ mvar_mutex \in Names
  BY Roles
<1>2. mvar_mutex # mvar_empty /\ mvar_mutex # mvar_full /\ mvar_empty # mvar_full
  BY MvarAssumption
<1>3. SemTypeOK' /\ UNCHANGED <<state, cpu, inWait>> /\ Preparing /\ NameInv
  BY <1>1, OpenEffect DEF Typed, MvarInv
<1>4. PICK s \in SemIds : OpenedAt(s, n, units)
  BY <1>1, <1>3, OpenSlot, Roles DEF Typed, NameInv
<1>5. NameInv'
  BY <1>1, <1>3, <1>4, OpenKeepsNames DEF Typed
<1>6. Typed' /\ Sharing' /\ pid' \in Clients
  BY <1>3 DEF Typed, MvarInv, Sharing, Opening, Serving, OpensNext
<1>7. MvarWaits'
  BY <1>3 DEF Preparing, MvarWaits
<1>8. /\ \A m \in Names : Shared(m)' = IF m = n THEN s ELSE Shared(m)
      /\ s # NoSem /\ sems'[s].used /\ String(sems'[s].name) = n
      /\ \A t \in SemIds : t # s => sems'[t] = sems[t]
  <2>1. /\ handle' = [handle EXCEPT ![Main][n] = s]
        /\ handle \in [PIDs -> [Names -> SemIds \cup {NoSem}]]
        /\ sems'[s].used /\ String(sems'[s].name) = n
        /\ \A t \in SemIds : t # s => sems'[t] = sems[t]
    BY <1>4 DEF OpenedAt, Typed, SemTypeOK
  <2>2. s # NoSem
    BY DEF SemIds
  <2>3. \A m \in Names : handle'[Main][m] = IF m = n THEN s ELSE handle[Main][m]
    BY <1>1, <2>1
  <2> QED
    BY <2>1, <2>2, <2>3 DEF Shared
<1>9. \A p \in Clients : /\ state'[p] = "EXITED" /\ ~Holds(p)'
                         /\ ~Vacant(p)' /\ ~Midway(p)' /\ ~Lettered(p)'
  BY <1>1, <1>3 DEF Preparing, Holds, Vacant, Midway, Lettered, At
<1>10. \A m \in Names : m # n => NamedAt(m)' = NamedAt(m)
  <2> SUFFICES ASSUME NEW m \in Names, m # n PROVE NamedAt(m)' = NamedAt(m)
    OBVIOUS
  <2>1. \A t \in SemIds : t \in NamedAt(m)' <=> t \in NamedAt(m)
    <3> SUFFICES ASSUME NEW t \in SemIds PROVE t \in NamedAt(m)' <=> t \in NamedAt(m)
      OBVIOUS
    <3>1. CASE t = s
      BY <1>4, <1>8, <3>1 DEF OpenedAt, NamedAt
    <3>2. CASE t # s
      BY <1>8, <3>2 DEF NamedAt
    <3> QED
      BY <3>1, <3>2
  <2> QED
    BY <2>1 DEF NamedAt
<1>11. NamedAt(n) = {} => sems'[s].value = units
  BY <1>4 DEF OpenedAt, NamedAt
<1>12. CASE pc[Main] = "open mutex" /\ pc'[Main] = "open empty" /\ n = mvar_mutex
  <2>1. Preparing'
    BY <1>1, <1>2, <1>3, <1>8, <1>9, <1>10, <1>12 DEF Preparing
  <2> QED
    BY <1>5, <1>6, <1>7, <1>12, <2>1 DEF MvarInv, Serving
<1>13. CASE pc[Main] = "open empty" /\ pc'[Main] = "open full" /\ n = mvar_empty /\ units = 1
  <2>1. Units(mvar_empty)' = 1
    <3>1. n = mvar_empty /\ units = 1
      BY <1>13
    <3>2. NamedAt(n) = {}
      BY <1>3, <1>13, <3>1 DEF Preparing
    <3>3. sems'[s].value = 1
      BY <1>11, <3>1, <3>2
    <3> QED
      BY <1>1, <1>8, <3>1, <3>3 DEF Units
  <2>2. Preparing'
    BY <1>1, <1>2, <1>3, <1>8, <1>9, <1>10, <1>13, <2>1 DEF Preparing
  <2> QED
    BY <1>5, <1>6, <1>7, <1>13, <2>2 DEF MvarInv, Serving
<1>14. CASE pc[Main] = "open full" /\ pc'[Main] = "spawn" /\ n = mvar_full /\ units = 0
  <2>1. Units(mvar_full)' = 0
    BY <1>1, <1>3, <1>8, <1>11, <1>14 DEF Preparing, Units
  <2>2. Units(mvar_empty)' = 1
    <3>1. Shared(mvar_empty) \in NamedAt(mvar_empty) /\ Units(mvar_empty) = 1
      BY <1>1, <1>3, <1>14 DEF Preparing, NameInv, HandlesNamed, Shared
    <3>2. Shared(mvar_empty) # s /\ Shared(mvar_empty) \in SemIds
      BY <1>1, <1>2, <1>3, <1>8, <1>10, <1>14, <3>1 DEF NamedAt
    <3> QED
      BY <1>1, <1>2, <1>8, <1>14, <3>1, <3>2 DEF Units
  <2>3. Circulation'
    <3>1. is_empty'
      BY <1>3 DEF Preparing
    <3> QED
      BY <1>9, <2>1, <2>2, <3>1 DEF Circulation
  <2>4. \A m \in {mvar_mutex, mvar_empty, mvar_full} : Shared(m)' # NoSem
    BY <1>1, <1>2, <1>3, <1>8, <1>14 DEF Preparing
  <2> QED
    BY <1>5, <1>6, <1>7, <1>14, <2>3, <2>4 DEF MvarInv, Opening
<1> QED
  BY <1>12, <1>13, <1>14 DEF OpensNext


\* A step of a client keeps the invariant of mvar.
LEMMA ClientKeeps ==
    ASSUME Typed, MvarInv, NEW p \in Clients, (p \in Writers /\ mvar_writer(p)) \/ mvar_reader(p)
    PROVE  Typed' /\ MvarInv'
<1>1. p \in PIDs /\ p # Main
  BY Roles
<1>2. /\ cpu = p /\ state[p] = "RUNNING" /\ inWait[p] = NoSem
  BY DEF mvar_writer, mvar_reader, Waits, Posts, Write, Fill, Read, Drain, On
<1>3. pc[Main] \in Serving
  BY <1>2 DEF MvarInv, Sharing, Preparing
<1>4. ASSUME NEW at, NEW n, NEW next, Waits(p, at, n, next),
             \/ at = "empty" /\ n = mvar_empty /\ next = "lock"
             \/ at = "await" /\ n = mvar_full /\ next = "acquire"
      PROVE  Typed' /\ MvarInv'
  <2>1. /\ pc[p] = at /\ Goto(p, next) /\ TakeOrBlock(Shared(n))
        /\ UNCHANGED <<pid, value, is_empty>>
    BY <1>4 DEF Waits, On, WaitSem, mvarVars
  <2>2. DOMAIN pc' = PIDs /\ pc'[p] = next /\ \A q \in PIDs : q # p => pc'[q] = pc[q]
    BY <1>1, <2>1, Moves
  <2>3. ~Holds(p)
    BY <1>4, <2>1 DEF Holds, Vacant, Midway, Lettered, At
  <2>4. n \in {mvar_empty, mvar_full} /\ next = IF n = mvar_empty THEN "lock" ELSE "acquire"
    BY <1>4, MvarAssumption
  <2> QED
    BY <1>2, <1>3, <2>1, <2>2, <2>3, <2>4, TakeUnitKeeps
<1>5. ASSUME NEW at, NEW next, Waits(p, at, mvar_mutex, next),
             (at = "lock" /\ next = "put") \/ (at = "acquire" /\ next = "get")
      PROVE  Typed' /\ MvarInv'
  <2>1. /\ pc[p] = at /\ Goto(p, next) /\ TakeOrBlock(Shared(mvar_mutex))
        /\ UNCHANGED <<pid, value, is_empty>>
    BY <1>5 DEF Waits, On, WaitSem, mvarVars
  <2>2. DOMAIN pc' = PIDs /\ pc'[p] = next /\ \A q \in PIDs : q # p => pc'[q] = pc[q]
    BY <1>1, <2>1, Moves
  <2>3. (pc'[p] = "put" /\ Vacant(p)) \/ (pc'[p] = "get" /\ Lettered(p))
    BY <1>2, <1>5, <2>1, <2>2 DEF Vacant, Lettered, At
  <2> QED
    BY <1>2, <1>3, <2>1, <2>2, <2>3, TakeMutexKeeps
<1>6. ASSUME NEW at, NEW next, Posts(p, at, mvar_mutex, next),
             (at = "unlock" /\ next = "full") \/ (at = "release" /\ next = "vacate")
      PROVE  Typed' /\ MvarInv'
  <2>1. /\ pc[p] = at /\ Goto(p, next) /\ PostSem(Shared(mvar_mutex))
        /\ UNCHANGED <<pid, value, is_empty>>
    BY <1>6 DEF Posts, On, mvarVars
  <2>2. DOMAIN pc' = PIDs /\ pc'[p] = next /\ \A q \in PIDs : q # p => pc'[q] = pc[q]
    BY <1>1, <2>1, Moves
  <2> QED
    BY <1>2, <1>3, <1>6, <2>1, <2>2, PostMutexKeeps
<1>7. ASSUME NEW at, NEW n, NEW next, Posts(p, at, n, next),
             \/ at = "full" /\ n = mvar_full /\ next = "empty"
             \/ at = "vacate" /\ n = mvar_empty /\ next = "await"
      PROVE  Typed' /\ MvarInv'
  <2>1. /\ pc[p] = at /\ Goto(p, next) /\ PostSem(Shared(n))
        /\ UNCHANGED <<pid, value, is_empty>>
    BY <1>7 DEF Posts, On, mvarVars
  <2>2. DOMAIN pc' = PIDs /\ pc'[p] = next /\ \A q \in PIDs : q # p => pc'[q] = pc[q]
    BY <1>1, <2>1, Moves
  <2> QED
    BY <1>2, <1>3, <1>7, <2>1, <2>2, PostUnitKeeps
<1>8. CASE (p \in Writers /\ (Write(p) \/ Fill(p))) \/ Read(p) \/ Drain(p)
  BY <1>3, <1>8, VariableKeeps
<1> QED
  BY <1>4, <1>5, <1>6, <1>7, <1>8 DEF mvar_writer, mvar_reader

\* A step of main keeps the invariant of mvar.
LEMMA WrapperKeeps ==
    ASSUME Typed, MvarInv, mvar_wrapper
    PROVE  Typed' /\ MvarInv'
<1>1. /\ Main \in PIDs /\ mvar_mutex \in Names /\ mvar_empty \in Names /\ mvar_full \in Names
      /\ \A p \in Clients : p \in PIDs
  BY Roles
<1>2. ProcTypeOK
  BY DEF Typed, SemTypeOK, ProcTypeOK
<1>3. ASSUME NEW at, NEW n \in Names, NEW units \in Nat, NEW next, Opens(at, n, units, next),
             \/ at = "open mutex" /\ next = "open empty" /\ n = mvar_mutex /\ units = 1
             \/ at = "open empty" /\ next = "open full" /\ n = mvar_empty /\ units = 1
             \/ at = "open full" /\ next = "spawn" /\ n = mvar_full /\ units = 0
      PROVE  Typed' /\ MvarInv'
  <2>1. /\ pc[Main] = at /\ cpu = Main /\ Goto(Main, next) /\ OpenSem(n, units)
        /\ UNCHANGED <<pid, value, is_empty>>
    BY <1>3 DEF Opens, On, mvarVars
  <2>2. DOMAIN pc' = PIDs /\ pc'[Main] = next /\ \A q \in PIDs : q # Main => pc'[q] = pc[q]
    BY <1>1, <2>1, Moves
  <2>3. OpensNext(n, units) /\ pc[Main] \in Opening
    BY <1>3, <2>1, <2>2 DEF OpensNext, Opening
  <2> QED
    BY <2>1, <2>2, <2>3, OpenKeepsMvar
<1>4. CASE Spawn
  <2>1. /\ pc[Main] = "spawn" /\ Start(pid) /\ pid \in Clients
        /\ UNCHANGED <<sems, inWait, handle, value, is_empty>>
    BY <1>4 DEF Spawn, On, semVars, mvarVars, MvarInv
  <2>2. PICK at \in {"spawn", "leave"} : Goto(Main, at) /\ pid' \in Clients
    BY <1>4, <2>1 DEF Spawn, Clients
  <2>3. DOMAIN pc' = PIDs /\ pc'[Main] = at /\ \A q \in PIDs : q # Main => pc'[q] = pc[q]
    BY <1>1, <2>2, Moves
  <2>4. ProcTypeOK'
    BY <1>1, <1>2, <2>1 DEF Start, Stay, ProcTypeOK, States
  <2> QED
    BY <2>1, <2>2, <2>3, <2>4, QuietKeepsServing DEF Serving
<1>5. CASE Leave
  <2>1. /\ pc[Main] = "leave" /\ End(Main, {}) /\ Goto(Main, "left")
        /\ UNCHANGED <<sems, inWait, handle, pid, value, is_empty>>
    BY <1>5 DEF Leave, On, semVars, mvarVars
  <2>2. DOMAIN pc' = PIDs /\ pc'[Main] = "left" /\ \A q \in PIDs : q # Main => pc'[q] = pc[q]
    BY <1>1, <2>1, Moves
  <2>3. ProcTypeOK' /\ pid' \in Clients
    BY <1>1, <1>2, <2>1, EndEffect DEF MvarInv
  <2> QED
    BY <2>1, <2>2, <2>3, QuietKeepsServing DEF Serving
<1> QED
  BY <1>1, <1>3, <1>4, <1>5 DEF mvar_wrapper

\* A tick keeps the invariant of mvar.
LEMMA TickKeepsMvar ==
    ASSUME Typed, MvarInv, Tick, UNCHANGED <<testVars, mvarVars>>
    PROVE  Typed' /\ MvarInv'
<1>1. UNCHANGED <<sems, inWait, handle, pid, pc, value, is_empty>>
  BY DEF Tick, semVars, testVars, mvarVars
<1>2. ProcTypeOK' /\ \A p \in PIDs : state'[p] = "EXITED" <=> state[p] = "EXITED"
  BY SwitchEffect DEF Tick, Preempt, Typed, SemTypeOK, ProcTypeOK
<1>3. CASE pc[Main] \in Serving
  BY <1>1, <1>2, <1>3, QuietKeepsServing DEF MvarInv, Typed
<1>4. CASE pc[Main] \in Opening
  <2>1. Typed' /\ Sharing' /\ pid' \in Clients
    BY <1>1, <1>2 DEF Typed, SemTypeOK, ProcTypeOK, MvarInv, Sharing
  <2>2. NameInv' /\ MvarWaits'
    BY <1>1, NamesUndisturbed DEF MvarInv, MvarWaits, Shared
  <2>3. Preparing'
    <3>1. \A p \in Clients : state'[p] = "EXITED" /\ ~Holds(p)'
      BY <1>1, <1>2, <1>4, Roles DEF MvarInv, Preparing, Holds, Vacant, Midway, Lettered, At
    <3>2. \A n \in Names : NamedAt(n)' = NamedAt(n)
      BY <1>1 DEF NamedAt
    <3> QED
      BY <1>1, <1>4, <3>1, <3>2, Roles DEF MvarInv, Preparing, Shared, Units
  <2> QED
    BY <1>1, <1>4, <2>1, <2>2, <2>3 DEF MvarInv, Opening, Serving
<1> QED
  BY <1>3, <1>4 DEF MvarInv, Sharing

\* Every step of mvar keeps its invariant.
LEMMA MvarKeeps ==
    ASSUME Typed, MvarInv, SyncNext
    PROVE  Typed' /\ MvarInv'
<1>1. ~ProgramStep
  <2>1. ~MainStep
    BY DEF MainStep, MainCreate, MainWait, MainWaitReturn, MainReopen, MainDestroy, On,
           MvarInv, Sharing, Opening, Serving
  <2>2. \A p \in Workers : ~WorkerStep(p)
    BY Roles DEF WorkerStep, WorkerOpen, WorkerWait, WorkerPost, WorkerClose, WorkerExit,
                 SlowIncRead, SlowIncYield, SlowIncWrite, On, MvarInv, Sharing
  <2> QED
    BY <2>1, <2>2 DEF ProgramStep
<1>2. CASE MvarStep
  BY <1>2, WrapperKeeps, ClientKeeps DEF MvarStep, Clients
<1>3. CASE SemResume /\ UNCHANGED <<testVars, mvarVars>>
  <2>1. /\ cpu \in PIDs /\ inWait[cpu] # NoSem /\ TakeOrBlock(inWait[cpu])
        /\ UNCHANGED <<pc, pid, value, is_empty>>
    BY <1>3 DEF SemResume, testVars, mvarVars, Typed, SemTypeOK
  <2>2. PICK p \in Clients :
          /\ p = cpu
          /\ \/ pc[p] = "lock" /\ inWait[p] = Shared(mvar_empty)
             \/ pc[p] = "acquire" /\ inWait[p] = Shared(mvar_full)
             \/ pc[p] \in {"put", "get"} /\ inWait[p] = Shared(mvar_mutex)
    BY <2>1 DEF MvarInv, MvarWaits
  <2>3. pc[Main] \in Serving /\ DOMAIN pc' = PIDs
    BY <2>1 DEF MvarInv, Sharing, Preparing, Typed
  <2>4. CASE pc[p] = "lock" /\ inWait[p] = Shared(mvar_empty)
    <3>1. ~Holds(p)
      BY <2>1, <2>2, <2>4 DEF Holds, Vacant, Midway, Lettered, At
    <3> QED
      BY <2>1, <2>2, <2>3, <2>4, <3>1, TakeUnitKeeps
  <2>5. CASE pc[p] = "acquire" /\ inWait[p] = Shared(mvar_full)
    <3>1. ~Holds(p) /\ mvar_full # mvar_empty
      BY <2>1, <2>2, <2>5, MvarAssumption DEF Holds, Vacant, Midway, Lettered, At
    <3> QED
      BY <2>1, <2>2, <2>3, <2>5, <3>1, TakeUnitKeeps
  <2>6. CASE pc[p] \in {"put", "get"} /\ inWait[p] = Shared(mvar_mutex)
    <3>1. (pc'[p] = "put" /\ Vacant(p)) \/ (pc'[p] = "get" /\ Lettered(p))
      BY <2>1, <2>6 DEF Vacant, Lettered
    <3> QED
      BY <2>1, <2>2, <2>3, <2>6, <3>1, TakeMutexKeeps
  <2> QED
    BY <2>2, <2>4, <2>5, <2>6
<1>4. CASE Tick /\ UNCHANGED <<testVars, mvarVars>>
  BY <1>4, TickKeepsMvar
<1> QED
  BY <1>1, <1>2, <1>3, <1>4 DEF SyncNext, SyncStep


-----------------------------------------------------------------------------
\* Either program starts in its invariant.
LEMMA SyncStart == SyncInit => SyncInv
<1> SUFFICES ASSUME SyncInit PROVE SyncInv
  OBVIOUS
<1>1. /\ Started /\ value = NoLetter /\ is_empty = TRUE /\ (TestInit \/ MvarInit)
  BY DEF SyncInit, TestInit, MvarInit
<1>2. /\ Main \in PIDs /\ First \in Workers /\ First \in Clients
      /\ \A p \in Workers : p \in PIDs /\ p # Main /\ p >= First
      /\ \A p \in Clients : p \in PIDs /\ p # Main /\ p # INITPID
      /\ mvar_empty \in Names /\ mvar_full \in Names
  <2>1. \A p \in Workers : p >= First
    BY TestAssumption DEF Workers, First
  <2>2. \A p \in Clients : p # INITPID
    BY MvarAssumption DEF Clients, Writers, Readers, First
  <2> QED
    BY <2>1, <2>2, Roles
<1>3. SemTypeOK
  <2>1. \A st : st = [p \in PIDs |-> CASE p = INITPID -> "READY"
                                       [] p = Main    -> "RUNNING"
                                       [] OTHER       -> "EXITED"]
                => st \in [PIDs -> States]
    BY DEF States
  <2>2. state \in [PIDs -> States] /\ cpu \in PIDs
    BY <1>1, <1>2, <2>1 DEF Started
  <2> QED
    BY <1>1, <2>2, TablesType DEF Started
<1>4. /\ \A s \in SemIds : /\ ~sems[s].used /\ sems[s].name = Blank
                           /\ sems[s].waiting = << >>
      /\ \A p \in PIDs : inWait[p] = NoSem
      /\ \A p \in PIDs, n \in Names : handle[p][n] = NoSem
      /\ pid = First
  BY <1>1 DEF Started, initSemManager, Blank
<1>5. NameInv /\ \A n \in Names : NamedAt(n) = {}
  BY <1>4 DEF NameInv, BlankUnused, HandlesNamed, OnePerName, NamedAt
<1>6. CASE TestInit
  <2>1. pc = [p \in PIDs |-> IF p = Main THEN "create" ELSE "open"]
    BY <1>6 DEF TestInit
  <2>2. Testing /\ pid \in Workers /\ DOMAIN pc = PIDs
    BY <1>2, <1>4, <2>1 DEF Testing
  <2>3. TestWaits /\ MainUnlisted /\ HandlesHeld
    BY <1>2, <1>4, <2>1 DEF TestWaits, MainUnlisted, HandlesHeld, HasHandle, Range
  <2>4. OneUnit /\ MutualExclusion
    BY <1>2, <1>5, <2>1, Roles DEF OneUnit, MutualExclusion, Inside
  <2>5. MainKnows
    BY <1>2, <1>4, <2>1 DEF MainKnows, First, Workers
  <2> QED
    BY <1>3, <1>5, <2>2, <2>3, <2>4, <2>5 DEF SyncInv, Typed, TestInv, NameInv
<1>7. CASE MvarInit
  <2>1. /\ DOMAIN pc = PIDs /\ pc[Main] = "open mutex"
        /\ \A p \in PIDs \ {Main} : pc[p] \in {"empty", "await", "none"}
    <3>1. pc = [p \in PIDs |-> CASE p = Main -> "open mutex"
                                   [] p \in Writers -> "empty"
                                   [] p \in Readers -> "await"
                                   [] OTHER -> "none"]
      BY <1>7 DEF MvarInit
    <3>2. \A p \in Writers : p \notin Readers
      BY MvarAssumption DEF Writers, Readers, First
    <3>3. DOMAIN pc = PIDs /\ pc[Main] = "open mutex"
      BY <1>2, <3>1 DEF Clients
    <3>4. ASSUME NEW p \in PIDs, p # Main PROVE pc[p] \in {"empty", "await", "none"}
      <4>1. CASE p \in Writers
        BY <3>1, <3>2, <3>4, <4>1
      <4>2. CASE p \in Readers
        BY <3>1, <3>2, <3>4, <4>2
      <4>3. CASE p \notin Writers /\ p \notin Readers
        BY <3>1, <3>4, <4>3
      <4> QED
        BY <4>1, <4>2, <4>3
    <3> QED
      BY <3>3, <3>4
  <2>2. Sharing /\ pid \in Clients /\ MvarWaits
    BY <1>2, <1>4, <2>1 DEF Sharing, MvarWaits, Opening
  <2>3. \A p \in Clients : state[p] = "EXITED" /\ ~Holds(p)
    BY <1>1, <1>2, <2>1 DEF Started, Holds, Vacant, Midway, Lettered, At
  <2>4. Preparing
    BY <1>1, <1>2, <1>4, <1>5, <2>1, <2>3 DEF Preparing
  <2> QED
    BY <1>3, <1>5, <2>1, <2>2, <2>4 DEF SyncInv, Typed, MvarInv, Serving
<1> QED
  BY <1>1, <1>6, <1>7

\* Every step of either program keeps the invariant.
LEMMA SyncKeeps == SyncInv /\ [SyncNext]_syncVars => SyncInv'
<1> SUFFICES ASSUME SyncInv, [SyncNext]_syncVars PROVE SyncInv'
  OBVIOUS
<1>1. CASE SyncNext
  BY <1>1, TestStep, MvarKeeps DEF SyncInv
<1>2. CASE UNCHANGED syncVars
  <2>1. UNCHANGED <<state, cpu, sems, inWait, handle, pc, pid, value, is_empty>>
    BY <1>2 DEF syncVars, allVars, vars, testVars, mvarVars
  <2>2. Typed'
    BY <2>1 DEF SyncInv, Typed, SemTypeOK
  <2>3. TestInv => TestInv'
    BY <2>1 DEF TestInv, Testing, HandlesNamed, OnePerName, BlankUnused, NamedAt, TestWaits,
                MainUnlisted, HandlesHeld, OneUnit, MutualExclusion, Inside, MainKnows, Begun
  <2>4. MvarInv => MvarInv'
    <3>1. NameInv => NameInv'
      BY <2>1, NamesUndisturbed
    <3>2. (Sharing => Sharing') /\ (MvarWaits => MvarWaits')
      BY <2>1 DEF Sharing, MvarWaits, Shared
    <3>3. \A p : (Holds(p)' <=> Holds(p)) /\ (Vacant(p)' <=> Vacant(p))
                 /\ (Midway(p)' <=> Midway(p)) /\ (Lettered(p)' <=> Lettered(p))
      BY <2>1 DEF Holds, Vacant, Midway, Lettered, At
    <3>4. \A n : Shared(n)' = Shared(n) /\ Units(n)' = Units(n) /\ NamedAt(n)' = NamedAt(n)
      BY <2>1 DEF Shared, Units, NamedAt
    <3>5. Circulation => Circulation'
      BY <2>1, <3>3, <3>4 DEF Circulation, Letter, Writers
    <3>6. Preparing => Preparing'
      BY <2>1, <3>3, <3>4 DEF Preparing
    <3> QED
      BY <2>1, <3>1, <3>2, <3>4, <3>5, <3>6 DEF MvarInv
  <2> QED
    BY <2>2, <2>3, <2>4 DEF SyncInv
<1> QED
  BY <1>1, <1>2

\* Between semWait and semPost a worker of test_sync is alone, with any number of
\* pairs of workers and of iterations: through the yield in the middle, and however
\* the processes that semPost wakes at once retry.
THEOREM WorkersExcludeEachOther == FairSyncSpec => []MutualExclusion
<1>1. SyncInv => MutualExclusion
  BY Roles DEF SyncInv, TestInv, MvarInv, Sharing, MutualExclusion, Inside
<1> QED
  BY <1>1, SyncStart, SyncKeeps, PTL DEF FairSyncSpec

\* Every letter of mvar is read once, with any number of writers and readers: a
\* writer finds the variable read out, and a reader finds a letter that nobody has
\* read.  The one unit that "empty" and "full" hand to each other sees to it.
THEOREM EveryLetterIsReadOnce == FairSyncSpec => []LettersAreReadOnce
<1>1. SyncInv => LettersAreReadOnce
  <2> SUFFICES ASSUME SyncInv PROVE LettersAreReadOnce
    OBVIOUS
  <2>1. CASE TestInv
    BY <2>1, Roles DEF TestInv, Testing, LettersAreReadOnce, At, Clients
  <2>2. CASE MvarInv /\ pc[Main] \in Opening
    <3>1. \A p \in Clients : ~Holds(p)
      BY <2>2 DEF MvarInv, Preparing
    <3> QED
      BY <3>1 DEF LettersAreReadOnce, At, Holds, Vacant, Lettered, Clients
  <2>3. CASE MvarInv /\ pc[Main] \in Serving
    <3>1. \A p \in Clients : (Vacant(p) => is_empty) /\ (Lettered(p) => Letter)
      BY <2>3 DEF MvarInv, Circulation
    <3> QED
      BY <3>1 DEF LettersAreReadOnce, At, Vacant, Lettered, Clients, Letter
  <2> QED
    BY <2>1, <2>2, <2>3 DEF SyncInv, MvarInv, Sharing
<1> QED
  BY <1>1, SyncStart, SyncKeeps, PTL DEF FairSyncSpec
-----------------------------------------------------------------------------
(***************************************************************************)
(* The shared counter of test_sync.  It always is the sum of what the      *)
(* workers have added, and the copy of the one inside is not stale: at the *)
(* end each pair has added as much as it has taken away.                   *)
(***************************************************************************)
LastWorker == First + 2 * TOTAL_PAIR_PROCESSES - 1

\* How often a worker has written the counter, and what that has added to it
Made(p)  == (Iterations - todo[p]) + (IF pc[p] = "post" THEN 1 ELSE 0)
Share(p) == IF (p - First) % 2 = 0 THEN -Made(p) ELSE Made(p)

\* S[p] is the sum of the shares up to that of p
SumsUp(S) == /\ S \in [(First - 1)..LastWorker -> Int]
             /\ S[First - 1] = 0
             /\ \A p \in Workers : S[p] = S[p - 1] + Share(p)

Progress(p) ==
    /\ IF pc[p] \in {"close", "exit", "exited"} THEN todo[p] = 0 ELSE todo[p] >= 1
    /\ pc[p] \in {"yield", "write"} => aux[p] = global

Totals ==
    /\ todo \in [PIDs -> Int] /\ aux \in [PIDs -> Int] /\ global \in Int
    /\ \A p \in Workers : Progress(p)
    /\ \E S : SumsUp(S) /\ global = S[LastWorker]

\* The bounds of the workers
LEMMA WorkerRange ==
    /\ TOTAL_PAIR_PROCESSES \in Nat /\ TOTAL_PAIR_PROCESSES >= 1 /\ Iterations \in Nat
    /\ Iterations >= 1 /\ First = 3 /\ LastWorker \in Int /\ LastWorker >= First
    /\ Workers = First..LastWorker /\ Workers \subseteq PIDs /\ Workers \subseteq Int
<1>1. /\ TOTAL_PAIR_PROCESSES \in Nat /\ TOTAL_PAIR_PROCESSES >= 1
      /\ Iterations \in Nat /\ Iterations >= 1
  BY TestAssumption
<1>2. First = 3
  BY DEF First
<1>3. LastWorker \in Int /\ LastWorker >= First /\ Workers = First..LastWorker
  BY <1>1, <1>2 DEF LastWorker, Workers
<1>4. Workers \subseteq PIDs
  BY Roles
<1>5. Workers \subseteq Int
  BY <1>2, <1>3
<1> QED
  BY <1>1, <1>2, <1>3, <1>4, <1>5

\* A share is an integer.
LEMMA ShareInt ==
    ASSUME todo \in [PIDs -> Int], NEW p \in Workers
    PROVE  Made(p) \in Int /\ Share(p) \in Int
<1>1. todo[p] \in Int /\ Iterations \in Int
  BY WorkerRange
<1>2. Made(p) \in Int
  BY <1>1 DEF Made
<1> QED
  BY <1>2 DEF Share

\* A step that writes nothing leaves the sum as it is.
LEMMA TotalsStay ==
    ASSUME Totals, global' = global, todo' \in [PIDs -> Int], aux' \in [PIDs -> Int],
           \A p \in Workers : Made(p)' = Made(p) /\ Progress(p)'
    PROVE  Totals'
<1>1. \A p \in Workers : Share(p)' = Share(p)
  BY DEF Share
<1>2. PICK S : SumsUp(S) /\ global = S[LastWorker]
  BY DEF Totals
<1>3. SumsUp(S)' /\ global' = S[LastWorker]
  BY <1>1, <1>2 DEF SumsUp
<1> QED
  BY <1>3 DEF Totals

\* Nor does one that moves a worker outside slowInc only.
LEMMA TotalsMove ==
    ASSUME Totals, TestInv, UNCHANGED <<global, todo, aux>>,
           \A p \in Workers : \/ pc'[p] = pc[p]
                              \/ pc[p] \in {"open", "wait"} /\ pc'[p] \in {"wait", "read"}
                              \/ pc[p] = "yield" /\ pc'[p] = "write"
                              \/ pc[p] \in {"close", "exit"} /\ pc'[p] \in {"exit", "exited"}
    PROVE  Totals'
<1>1. \A p \in Workers : Made(p)' = Made(p)
  BY DEF Made
<1>2. \A p \in Workers : Progress(p)'
  BY DEF Progress, Totals
<1> QED
  BY <1>1, <1>2, TotalsStay DEF Totals

\* The copy slowInc takes is the counter.
LEMMA TotalsRead ==
    ASSUME Typed, TestInv, Totals, NEW p \in Workers, SlowIncRead(p)
    PROVE  Totals'
<1>1. p \in PIDs
  BY WorkerRange
<1>2. /\ pc[p] = "read" /\ pc'[p] = "yield" /\ aux' = [aux EXCEPT ![p] = global]
      /\ \A q \in PIDs : q # p => pc'[q] = pc[q]
      /\ global' = global /\ todo' = todo
  BY <1>1, Moves DEF SlowIncRead, On
<1>3. /\ aux \in [PIDs -> Int] /\ global \in Int /\ todo \in [PIDs -> Int]
      /\ \A q \in Workers : Progress(q)
  BY DEF Totals
<1>4. aux' \in [PIDs -> Int] /\ aux'[p] = global /\ \A q \in PIDs : q # p => aux'[q] = aux[q]
  BY <1>1, <1>2, <1>3
<1>5. ASSUME NEW q \in Workers PROVE Made(q)' = Made(q) /\ Progress(q)'
  <2>1. q \in PIDs
    BY WorkerRange
  <2>2. CASE q = p
    BY <1>2, <1>3, <1>4, <2>2 DEF Made, Progress
  <2>3. CASE q # p
    BY <1>2, <1>3, <1>4, <2>1, <2>3 DEF Made, Progress
  <2> QED
    BY <2>2, <2>3
<1> QED
  BY <1>2, <1>3, <1>4, <1>5, TotalsStay

\* The write adds to the sum what it adds to the counter, since nobody wrote it meanwhile.
LEMMA TotalsWrite ==
    ASSUME Typed, TestInv, Totals, NEW p \in Workers, SlowIncWrite(p)
    PROVE  Totals'
<1>1. p \in PIDs /\ p \in (First - 1)..LastWorker /\ p - 1 \in (First - 1)..LastWorker
  BY WorkerRange
<1>2. /\ pc[p] = "write" /\ pc'[p] = "post" /\ global' = aux[p] + Increment(p)
      /\ \A q \in PIDs : q # p => pc'[q] = pc[q]
      /\ aux' = aux /\ todo' = todo /\ inWait[p] = NoSem
  BY <1>1, Moves DEF SlowIncWrite, On
<1>3. /\ aux \in [PIDs -> Int] /\ global \in Int /\ todo \in [PIDs -> Int]
      /\ \A q \in Workers : Progress(q)
  BY DEF Totals
<1> DEFINE d == Increment(p)
<1>4. d \in Int /\ d = IF (p - First) % 2 = 0 THEN -1 ELSE 1
  BY DEF Increment
<1>5. global' = global + d
  BY <1>2, <1>3 DEF Progress
<1>6. Made(p)' = Made(p) + 1 /\ Made(p) \in Int
  <2>1. todo[p] \in Int /\ Iterations \in Int
    BY <1>1, <1>3, WorkerRange
  <2> QED
    BY <1>2, <2>1 DEF Made
<1>7. Share(p)' = Share(p) + d
  BY <1>4, <1>6 DEF Share
<1>8. \A q \in Workers : q # p => Share(q)' = Share(q)
  BY <1>2, WorkerRange DEF Share, Made
<1> HIDE DEF d
<1>9. PICK S : SumsUp(S) /\ global = S[LastWorker]
  BY DEF Totals
<1> DEFINE new == [i \in (First - 1)..LastWorker |-> IF i >= p THEN S[i] + d ELSE S[i]]
<1>10. SumsUp(new)'
  <2>1. S \in [(First - 1)..LastWorker -> Int] /\ S[First - 1] = 0
        /\ \A q \in Workers : S[q] = S[q - 1] + Share(q)
    BY <1>9 DEF SumsUp
  <2>2. new \in [(First - 1)..LastWorker -> Int]
    BY <1>4, <2>1
  <2>3. new[First - 1] = 0
    BY <2>1, WorkerRange
  <2>4. ASSUME NEW q \in Workers PROVE new[q] = new[q - 1] + Share(q)'
    <3>1. /\ q \in (First - 1)..LastWorker /\ q - 1 \in (First - 1)..LastWorker
          /\ q \in Int /\ p \in Int /\ S[q] \in Int /\ S[q - 1] \in Int /\ Share(q) \in Int
      <4>1. q \in First..LastWorker /\ p \in Int /\ q \in Int /\ First = 3 /\ LastWorker \in Int
        BY WorkerRange
      <4>2. q \in (First - 1)..LastWorker /\ q - 1 \in (First - 1)..LastWorker
        BY <4>1
      <4>3. S[q] \in Int /\ S[q - 1] \in Int
        BY <2>1, <4>2
      <4>4. Share(q) \in Int
        BY <1>3, ShareInt
      <4> QED
        BY <4>1, <4>2, <4>3, <4>4
    <3>2. S[q] = S[q - 1] + Share(q)
      BY <2>1
    <3>3. CASE q = p
      <4>1. new[q] = S[q] + d /\ new[q - 1] = S[q - 1]
        BY <3>1, <3>3
      <4> QED
        BY <1>4, <1>7, <3>1, <3>2, <3>3, <4>1
    <3>4. CASE q < p
      <4>1. new[q] = S[q] /\ new[q - 1] = S[q - 1]
        BY <3>1, <3>4
      <4> QED
        BY <1>8, <3>1, <3>2, <3>4, <4>1
    <3>5. CASE q > p
      <4>1. new[q] = S[q] + d /\ new[q - 1] = S[q - 1] + d
        BY <3>1, <3>5
      <4> QED
        BY <1>4, <1>8, <3>1, <3>2, <3>5, <4>1
    <3> QED
      BY <3>1, <3>3, <3>4, <3>5
  <2> QED
    BY <2>2, <2>3, <2>4 DEF SumsUp
<1>11. global' = new[LastWorker]
  <2>1. LastWorker \in (First - 1)..LastWorker /\ LastWorker >= p
    BY <1>1, WorkerRange
  <2> QED
    BY <1>5, <1>9, <2>1
<1>12. ASSUME NEW q \in Workers PROVE Progress(q)'
  <2>1. q \in PIDs
    BY WorkerRange
  <2>2. CASE q = p
    BY <1>2, <1>3, <2>2 DEF Progress
  <2>3. CASE q # p
    <3>1. pc[q] \notin {"yield", "write"}
      <4>1. pc[q] \in {"yield", "write"} => inWait[q] = NoSem
        BY <2>1 DEF TestInv, TestWaits
      <4> QED
        BY <1>2, <2>3, <4>1 DEF TestInv, MutualExclusion, Inside
    <3> QED
      BY <1>2, <1>3, <2>1, <2>3, <3>1 DEF Progress
  <2> QED
    BY <2>2, <2>3
<1>13. global' \in Int /\ todo' \in [PIDs -> Int] /\ aux' \in [PIDs -> Int]
  BY <1>2, <1>3, <1>4, <1>5
<1> HIDE DEF new
<1> QED
  BY <1>10, <1>11, <1>12, <1>13 DEF Totals

\* The end of an iteration counts what was written in it.
LEMMA TotalsPost ==
    ASSUME Typed, TestInv, Totals, NEW p \in Workers, WorkerPost(p)
    PROVE  Totals'
<1>1. p \in PIDs
  BY WorkerRange
<1>2. /\ pc[p] = "post" /\ pc'[p] = (IF todo[p] > 1 THEN "wait" ELSE "close")
      /\ \A q \in PIDs : q # p => pc'[q] = pc[q]
      /\ global' = global /\ aux' = aux /\ todo' = [todo EXCEPT ![p] = todo[p] - 1]
  BY <1>1, Moves DEF WorkerPost, On
<1>3. /\ aux \in [PIDs -> Int] /\ todo \in [PIDs -> Int] /\ \A q \in Workers : Progress(q)
  BY DEF Totals
<1>4. /\ todo' \in [PIDs -> Int] /\ todo'[p] = todo[p] - 1
      /\ \A q \in PIDs : q # p => todo'[q] = todo[q]
  BY <1>1, <1>2, <1>3
<1>5. ASSUME NEW q \in Workers PROVE Made(q)' = Made(q) /\ Progress(q)'
  <2>1. q \in PIDs /\ todo[q] \in Int /\ Iterations \in Int
    BY <1>3, WorkerRange
  <2>2. CASE q = p
    <3>1. todo[p] >= 1
      BY <1>2, <1>3 DEF Progress
    <3>2. Made(p)' = Made(p)
      BY <1>2, <1>4, <2>1, <2>2 DEF Made
    <3>3. Progress(p)'
      BY <1>2, <1>4, <2>1, <2>2, <3>1 DEF Progress
    <3> QED
      BY <2>2, <3>2, <3>3
  <2>3. CASE q # p
    BY <1>2, <1>3, <1>4, <2>1, <2>3 DEF Made, Progress
  <2> QED
    BY <2>2, <2>3
<1> QED
  BY <1>2, <1>3, <1>4, <1>5, TotalsStay

\* Main touches neither the counter nor a worker.
LEMMA MainMoves ==
    ASSUME Typed, MainStep
    PROVE  UNCHANGED <<global, aux, todo>> /\ \A p \in PIDs : p # Main => pc'[p] = pc[p]
<1>1. \E at : Goto(Main, at)
  BY DEF MainStep, MainCreate, MainWait, MainWaitReturn, MainReopen, MainDestroy, NextWorker
<1>2. \A p \in PIDs : p # Main => pc'[p] = pc[p]
  BY <1>1, Roles, Moves
<1> QED
  BY <1>2 DEF MainStep, MainCreate, MainWait, MainWaitReturn, MainReopen, MainDestroy

\* Every step keeps the sum.
LEMMA TotalsKept ==
    ASSUME Typed, TestInv, Totals, SyncNext
    PROVE  Totals'
<1>1. ~MvarStep
  <2>1. ~mvar_wrapper
    BY DEF mvar_wrapper, Opens, Spawn, Leave, On, TestInv, Testing
  <2>2. \A p \in Writers : ~mvar_writer(p)
    BY Roles DEF mvar_writer, Waits, Posts, Write, Fill, On, TestInv, Testing, Clients
  <2>3. \A p \in Readers : ~mvar_reader(p)
    BY Roles DEF mvar_reader, Waits, Posts, Read, Drain, On, TestInv, Testing, Clients
  <2> QED
    BY <2>1, <2>2, <2>3 DEF MvarStep
<1>2. ASSUME NEW p \in Workers, WorkerStep(p)
      PROVE  Totals'
  <2>1. p \in PIDs
    BY WorkerRange
  <2>2. CASE WorkerOpen(p) \/ WorkerWait(p) \/ WorkerClose(p) \/ WorkerExit(p) \/ SlowIncYield(p)
    <3>1. /\ UNCHANGED <<global, todo, aux>>
          /\ \/ pc[p] \in {"open", "wait"} /\ pc'[p] \in {"wait", "read"}
             \/ pc[p] = "yield" /\ pc'[p] = "write"
             \/ pc[p] \in {"close", "exit"} /\ pc'[p] \in {"exit", "exited"}
          /\ \A q \in PIDs : q # p => pc'[q] = pc[q]
      BY <2>1, <2>2, Moves DEF WorkerOpen, WorkerWait, WorkerClose, WorkerExit, SlowIncYield, On
    <3> QED
      BY <3>1, WorkerRange, TotalsMove
  <2> QED
    BY <1>2, <2>2, TotalsRead, TotalsWrite, TotalsPost DEF WorkerStep
<1>3. CASE MainStep
  <2>1. \A p \in Workers : p \in PIDs /\ p # Main
    BY Roles
  <2> QED
    BY <1>3, <2>1, MainMoves, TotalsMove
<1>4. CASE UNCHANGED testVars
  BY <1>4, TotalsMove DEF testVars
<1> QED
  BY <1>1, <1>2, <1>3, <1>4 DEF SyncNext, SyncStep, ProgramStep

\* When all workers have ended, the shares of each pair cancel out.
LEMMA SharesCancel ==
    ASSUME Totals, \A p \in Workers : pc[p] = "exited"
    PROVE  global = 0
<1>1. PICK S : SumsUp(S) /\ global = S[LastWorker]
  BY DEF Totals
<1>2. \A p \in Workers : Share(p) = IF (p - First) % 2 = 0 THEN -Iterations ELSE Iterations
  <2>1. \A p \in Workers : Made(p) = Iterations
    BY WorkerRange DEF Totals, Progress, Made
  <2> QED
    BY <2>1 DEF Share
<1> DEFINE Bad == {k \in 0..TOTAL_PAIR_PROCESSES : S[First - 1 + 2 * k] # 0}
<1>3. Bad = {}
  <2> SUFFICES ASSUME Bad # {} PROVE FALSE
    OBVIOUS
  <2>1. PICK k \in Bad : \A j \in Bad : k <= j
    <3>1. Bad \subseteq Nat
      OBVIOUS
    <3> HIDE DEF Bad
    <3> QED
      BY <3>1, MinInSet
  <2>2. k \in 0..TOTAL_PAIR_PROCESSES /\ S[First - 1 + 2 * k] # 0
    BY <2>1
  <2>3. k # 0
    BY <1>1, <2>2, WorkerRange DEF SumsUp
  <2> DEFINE a == First + 2 * (k - 1)
  <2>4. k - 1 \in 0..TOTAL_PAIR_PROCESSES /\ k - 1 \notin Bad
    BY <2>1, <2>2, <2>3, WorkerRange
  <2>5. a - 1 = First - 1 + 2 * (k - 1) /\ a + 1 = First - 1 + 2 * k
        /\ a \in Workers /\ a + 1 \in Workers /\ a \in Int
    BY <2>2, <2>3, WorkerRange DEF LastWorker
  <2>6. S[a - 1] = 0
    BY <2>4, <2>5
  <2>7. (a - First) % 2 = 0 /\ (a + 1 - First) % 2 = 1
    BY <2>2, <2>5, WorkerRange
  <2> HIDE DEF a
  <2>8. S[a] = S[a - 1] + Share(a) /\ S[a + 1] = S[a] + Share(a + 1)
    BY <1>1, <2>5 DEF SumsUp
  <2>9. S[a + 1] = 0
    BY <1>2, <2>5, <2>6, <2>7, <2>8, WorkerRange
  <2> QED
    BY <2>2, <2>5, <2>9
<1>4. TOTAL_PAIR_PROCESSES \notin Bad /\ TOTAL_PAIR_PROCESSES \in 0..TOTAL_PAIR_PROCESSES
  <2>1. TOTAL_PAIR_PROCESSES \in 0..TOTAL_PAIR_PROCESSES
    BY WorkerRange
  <2> HIDE DEF Bad
  <2> QED
    BY <1>3, <2>1
<1>5. First - 1 + 2 * TOTAL_PAIR_PROCESSES = LastWorker
  BY WorkerRange DEF LastWorker
<1> QED
  BY <1>1, <1>4, <1>5

\* The sum is empty at the beginning.
LEMMA TotalsBegin == SyncInit => Totals
<1> SUFFICES ASSUME SyncInit PROVE Totals
  OBVIOUS
<1>1. /\ global = 0 /\ aux = [p \in PIDs |-> 0] /\ todo = [p \in PIDs |-> Iterations]
      /\ TestInit \/ MvarInit
  BY DEF SyncInit, TestInit, MvarInit, Started
<1>2. \A p \in Workers : pc[p] \notin {"close", "exit", "exited", "yield", "write", "post"}
  <2>1. CASE TestInit
    BY <2>1, Roles DEF TestInit
  <2>2. CASE MvarInit
    BY <2>2, Roles DEF MvarInit
  <2> QED
    BY <1>1, <2>1, <2>2
<1>3. todo \in [PIDs -> Int] /\ aux \in [PIDs -> Int] /\ global \in Int
  BY <1>1, WorkerRange
<1>4. \A p \in Workers : Progress(p) /\ Share(p) = 0
  BY <1>1, <1>2, WorkerRange DEF Progress, Share, Made
<1> DEFINE S == [i \in (First - 1)..LastWorker |-> 0]
<1>5. SumsUp(S) /\ global = S[LastWorker]
  BY <1>1, <1>4, WorkerRange DEF SumsUp
<1> QED
  BY <1>3, <1>4, <1>5 DEF Totals

\* The test's counter ends at 0, with any number of pairs and of iterations: no addition
\* is lost to another worker's stale copy, and main waits for the last of them.
THEOREM FinalValueAlwaysZero == FairSyncSpec => []FinalValueIsZero
<1> DEFINE Inv == SyncInv /\ (TestInv => Totals)
<1>1. SyncInit => Inv
  BY SyncStart, TotalsBegin
<1>2. Inv /\ [SyncNext]_syncVars => Inv'
  <2> SUFFICES ASSUME Inv, [SyncNext]_syncVars, TestInv'
               PROVE  Totals'
    BY SyncKeeps
  <2>1. CASE TestInv /\ SyncNext
    BY <2>1, TotalsKept DEF SyncInv
  <2>2. CASE TestInv /\ UNCHANGED syncVars
    BY <2>2, TotalsMove DEF syncVars, allVars, testVars
  <2>3. CASE MvarInv /\ SyncNext
    <3>1. MvarInv'
      BY <2>3, MvarKeeps DEF SyncInv
    <3> QED
      BY <3>1 DEF TestInv, Testing, MvarInv, Sharing, Opening, Serving
  <2>4. CASE MvarInv /\ UNCHANGED syncVars
    <3>1. pc' = pc
      BY <2>4 DEF syncVars, allVars, testVars
    <3> QED
      BY <2>4, <3>1 DEF TestInv, Testing, MvarInv, Sharing, Opening, Serving
  <2> QED
    BY <2>1, <2>2, <2>3, <2>4 DEF SyncInv
<1>3. Inv => FinalValueIsZero
  <2> SUFFICES ASSUME Inv, pc[Main] = "done" PROVE global = 0
    BY DEF FinalValueIsZero
  <2>1. TestInv
    BY DEF SyncInv, MvarInv, Sharing, Opening, Serving
  <2>2. \A p \in Workers : pc[p] = "exited"
    BY <2>1 DEF TestInv, MainKnows
  <2> QED
    BY <2>1, <2>2, SharesCancel
<1> HIDE DEF Inv
<1> QED
  BY <1>1, <1>2, <1>3, PTL DEF FairSyncSpec
=============================================================================
