-------------------------- MODULE SemaphoresProofs --------------------------
(***************************************************************************)
(* Type correctness of Semaphores, and that no wake-up is lost, for any    *)
(* number of processes, semaphores, names and values.                      *)
(***************************************************************************)
EXTENDS Semaphores, QueueLemmas

USE TablesAssumption DEF INITPID, NULL, NoSem

ProcTypeOK == state \in [PIDs -> States] /\ cpu \in PIDs

NobodyEnds == \A p \in PIDs : state'[p] = "EXITED" => state[p] = "EXITED"

-----------------------------------------------------------------------------
\* The CPU handed over by a switch goes to a process that was READY, whoever
\* held it is READY if it was RUNNING, and nothing else changes.
LEMMA SwitchEffect ==
    ASSUME NEW st \in [PIDs -> States], cpu \in PIDs, Switch(st)
    PROVE  /\ state' \in [PIDs -> States]
           /\ cpu' \in PIDs
           /\ \A p \in PIDs : state'[p] = "BLOCKED" <=> st[p] = "BLOCKED"
           /\ \A p \in PIDs : state'[p] = "EXITED" <=> st[p] = "EXITED"
<1> DEFINE off == [p \in PIDs |-> IF p = cpu /\ st[p] = "RUNNING" THEN "READY" ELSE st[p]]
<1>1. off \in [PIDs -> States]
  BY DEF States
<1>2. PICK p \in PIDs : off[p] = "READY" /\ state' = [off EXCEPT ![p] = "RUNNING"] /\ cpu' = p
  BY DEF Switch
<1> QED
  BY <1>1, <1>2 DEF States

\* Waking makes READY what is BLOCKED and listed, and keeps the types.
LEMMA WokenEffect ==
    ASSUME NEW st \in [PIDs -> States], NEW W
    PROVE  /\ Woken(st, W) \in [PIDs -> States]
           /\ \A p \in PIDs : Woken(st, W)[p] = "BLOCKED" <=> st[p] = "BLOCKED" /\ p \notin W
           /\ \A p \in PIDs : Woken(st, W)[p] = "EXITED" <=> st[p] = "EXITED"
  BY DEF Woken, States

\* A process that ends is EXITED and wakes no more than W; the other processes keep
\* their states but for the switch that may follow.
LEMMA EndEffect ==
    ASSUME ProcTypeOK, NEW p \in PIDs, NEW W, End(p, W)
    PROVE  /\ ProcTypeOK'
           /\ \A q \in PIDs : state'[q] = "BLOCKED" <=> state[q] = "BLOCKED" /\ q # p /\ q \notin W
           /\ \A q \in PIDs : state'[q] = "EXITED" <=> state[q] = "EXITED" \/ q = p
<1> DEFINE gone == [state EXCEPT ![p] = "EXITED"]
           st   == Woken(gone, W)
<1>1. /\ gone \in [PIDs -> States]
      /\ \A q \in PIDs : gone[q] = "BLOCKED" <=> state[q] = "BLOCKED" /\ q # p
      /\ \A q \in PIDs : gone[q] = "EXITED" <=> state[q] = "EXITED" \/ q = p
  BY DEF ProcTypeOK, States
<1>2. /\ st \in [PIDs -> States]
      /\ \A q \in PIDs : st[q] = "BLOCKED" <=> state[q] = "BLOCKED" /\ q # p /\ q \notin W
      /\ \A q \in PIDs : st[q] = "EXITED" <=> state[q] = "EXITED" \/ q = p
  <2> HIDE DEF gone
  <2> QED BY <1>1, WokenEffect
<1>3. Stay(st) \/ Switch(st)
  BY DEF End
<1> HIDE DEF st
<1>4. CASE Stay(st)
  BY <1>2, <1>4 DEF Stay, ProcTypeOK
<1>5. CASE Switch(st)
  BY <1>2, <1>5, SwitchEffect DEF ProcTypeOK
<1> QED
  BY <1>3, <1>4, <1>5

\* A process that blocks itself is BLOCKED, and nobody else becomes so.
LEMMA BlockSelfEffect ==
    ASSUME ProcTypeOK, BlockSelf
    PROVE  /\ ProcTypeOK'
           /\ \A p \in PIDs : state'[p] = "BLOCKED" <=> p = cpu \/ state[p] = "BLOCKED"
           /\ NobodyEnds
<1> DEFINE st == [state EXCEPT ![cpu] = "BLOCKED"]
<1>1. /\ st \in [PIDs -> States]
      /\ \A p \in PIDs : st[p] = "BLOCKED" <=> p = cpu \/ state[p] = "BLOCKED"
      /\ \A p \in PIDs : st[p] = "EXITED" => state[p] = "EXITED"
  BY DEF ProcTypeOK, States
<1>2. Switch(st)
  BY DEF BlockSelf
<1> HIDE DEF st
<1> QED
  BY <1>1, <1>2, SwitchEffect DEF ProcTypeOK, NobodyEnds

\* Waking leaves exactly the sleepers that are not listed asleep.
LEMMA WakeEffect ==
    ASSUME ProcTypeOK, NEW W, Wake(W)
    PROVE  /\ ProcTypeOK'
           /\ \A p \in PIDs : state'[p] = "BLOCKED" <=> state[p] = "BLOCKED" /\ p \notin W
           /\ NobodyEnds
  BY WokenEffect DEF Wake, Stay, ProcTypeOK, NobodyEnds

-----------------------------------------------------------------------------
\* The slot found for a name is a slot in use.
LEMMA FindEffect ==
    ASSUME NEW name
    PROVE  \/ findSemByName(name) = NoSem
           \/ findSemByName(name) \in SemIds /\ sems[findSemByName(name)].used
<1>1. Named(name) \subseteq Nat
  BY DEF Named, SemIds
<1>2. CASE Named(name) = {}
  BY <1>2 DEF findSemByName
<1>3. CASE Named(name) # {}
  <2>1. findSemByName(name) \in Named(name)
    BY <1>1, <1>3, MinInSet DEF findSemByName
  <2> QED
    BY <2>1 DEF Named
<1> QED
  BY <1>2, <1>3

\* Fields of a semaphore can be replaced one by one.
LEMMA SemFields ==
    ASSUME NEW sem \in Sem
    PROVE  /\ \A u \in BOOLEAN : [sem EXCEPT !.used = u] \in Sem
           /\ \A v \in Int : [sem EXCEPT !.value = v] \in Sem
           /\ \A w \in Seq(PIDs) : [sem EXCEPT !.waiting = w] \in Sem
  BY DEF Sem

\* A flag written for any PID keeps a semaphore well formed and changes only its
\* flags and its name.
LEMMA FlaggedEffect ==
    ASSUME NEW sem \in Sem, NEW p \in PIDs, NEW on \in BOOLEAN
    PROVE  /\ Flagged(sem, p, on) \in Sem
           /\ Flagged(sem, p, on).used = sem.used
           /\ Flagged(sem, p, on).value = sem.value
           /\ Flagged(sem, p, on).waiting = sem.waiting
<1>1. CASE p < MAX_PROCESSES
  <2>1. p \in 0..(MAX_PROCESSES - 1)
    BY <1>1 DEF PIDs
  <2> QED
    BY <1>1, <2>1 DEF Flagged, Sem
<1>2. CASE ~ (p < MAX_PROCESSES)
  <2>1. 1 \in 1..NameLength
    BY NamesAssumption
  <2>2. (IF on THEN ONE ELSE NUL) \in Chars
    BY DEF Chars
  <2> QED
    BY <1>2, <2>1, <2>2 DEF Flagged, Sem
<1> QED
  BY <1>1, <1>2

\* A new semaphore is well formed, in use, and has nobody waiting.
LEMMA CreatedEffect ==
    ASSUME NEW sem \in Sem, NEW p \in PIDs, NEW name \in Names, NEW value \in Int
    PROVE  /\ Created(sem, p, name, value) \in Sem
           /\ Created(sem, p, name, value).used
<1> DEFINE new == [sem EXCEPT !.used = TRUE, !.value = value, !.waiting = << >>,
                              !.name = Written(sem.name, name),
                              !.openedBy = [i \in DOMAIN sem.openedBy |-> FALSE]]
<1>1. Written(sem.name, name) \in [1..NameLength -> Chars]
  <2>1. sem.name \in [1..NameLength -> Chars] /\ name \in Seq(STRING)
    BY NamesAssumption DEF Sem
  <2>2. \A i \in 1..NameLength : i <= Len(name) => name[i] \in Chars
    <3>1. \A i \in 1..NameLength : i <= Len(name) => i \in DOMAIN name
      BY <2>1, NamesAssumption
    <3>2. \A i \in DOMAIN name : name[i] \in Range(name)
      BY DEF Range
    <3> QED
      BY <3>1, <3>2 DEF Chars
  <2> QED
    BY <2>1, <2>2 DEF Written
<1>2. new \in Sem /\ new.used
  <2>1. [i \in DOMAIN sem.openedBy |-> FALSE] \in [0..(MAX_PROCESSES - 1) -> BOOLEAN]
    BY DEF Sem
  <2>2. << >> \in Seq(PIDs)
    OBVIOUS
  <2> QED
    BY <1>1, <2>1, <2>2 DEF Sem
<1> HIDE DEF new
<1>3. Flagged(new, p, TRUE) \in Sem /\ Flagged(new, p, TRUE).used = new.used
  BY <1>2, FlaggedEffect
<1> QED
  BY <1>2, <1>3 DEF Created, new

-----------------------------------------------------------------------------
\* What semOpen does to the tables: nothing but to one slot, which was free or
\* keeps its value and its queue.
LEMMA OpenEffect ==
    ASSUME SemTypeOK, NEW name \in Names, NEW value \in Int, OpenSem(name, value)
    PROVE  /\ SemTypeOK'
           /\ UNCHANGED <<state, cpu, inWait>>
           /\ \A s \in SemIds : sems[s].used => /\ sems'[s].used
                                                /\ sems'[s].value = sems[s].value
                                                /\ sems'[s].waiting = sems[s].waiting
<1> DEFINE found == findSemByName(name)
           slot  == IF found # NoSem THEN found ELSE Min(FreeSems)
<1>1. FreeSems \subseteq Nat
  BY DEF FreeSems, SemIds
<1>2. CASE found # NoSem
  <2>1. found \in SemIds /\ sems[found].used /\ found = slot
    BY <1>2, FindEffect
  <2>2. sems' = [sems EXCEPT ![found] = Flagged(sems[found], cpu, TRUE)]
    BY <1>2 DEF OpenSem
  <2>3. handle' = [handle EXCEPT ![cpu][name] = found]
    BY <1>2 DEF OpenSem
  <2>4. /\ Flagged(sems[found], cpu, TRUE) \in Sem
        /\ Flagged(sems[found], cpu, TRUE).used = sems[found].used
        /\ Flagged(sems[found], cpu, TRUE).value = sems[found].value
        /\ Flagged(sems[found], cpu, TRUE).waiting = sems[found].waiting
    BY <2>1, FlaggedEffect DEF SemTypeOK
  <2> HIDE DEF found
  <2>5. UNCHANGED <<state, cpu, inWait>>
    BY DEF OpenSem, procVars
  <2>6. sems' \in [SemIds -> Sem]
    BY <2>1, <2>2, <2>4 DEF SemTypeOK
  <2>7. handle' \in [PIDs -> [Names -> SemIds \cup {NoSem}]]
    BY <2>1, <2>3 DEF SemTypeOK
  <2>8. \A s \in SemIds : /\ sems'[s].used = sems[s].used
                          /\ sems'[s].value = sems[s].value
                          /\ sems'[s].waiting = sems[s].waiting
    BY <2>1, <2>2, <2>4 DEF SemTypeOK
  <2> QED
    BY <2>5, <2>6, <2>7, <2>8 DEF SemTypeOK
<1>3. CASE found = NoSem
  <2>1. Min(FreeSems) \in FreeSems
    BY <1>1, <1>3, MinInSet DEF OpenSem
  <2>2. PICK f \in SemIds : f = Min(FreeSems) /\ ~sems[f].used
    BY <2>1 DEF FreeSems
  <2>3. sems' = [sems EXCEPT ![f] = Created(sems[f], cpu, name, value)]
    BY <1>3, <2>2 DEF OpenSem
  <2>4. handle' = [handle EXCEPT ![cpu][name] = f]
    BY <1>3, <2>2 DEF OpenSem
  <2>5. Created(sems[f], cpu, name, value) \in Sem
    BY CreatedEffect DEF SemTypeOK
  <2>6. UNCHANGED <<state, cpu, inWait>>
    BY DEF OpenSem, procVars
  <2>7. sems' \in [SemIds -> Sem]
    BY <2>2, <2>3, <2>5 DEF SemTypeOK
  <2>8. handle' \in [PIDs -> [Names -> SemIds \cup {NoSem}]]
    BY <2>2, <2>4 DEF SemTypeOK
  <2>9. \A s \in SemIds : sems[s].used => sems'[s] = sems[s]
    BY <2>2, <2>3 DEF SemTypeOK
  <2> QED
    BY <2>6, <2>7, <2>8, <2>9 DEF SemTypeOK
<1> QED
  BY <1>2, <1>3

\* What one turn of semWait's loop does: a unit is taken from a semaphore that has
\* one, or the process is listed, if the semaphore is in use, and sleeps.
LEMMA TakeEffect ==
    ASSUME SemTypeOK, NEW s \in SemIds, TakeOrBlock(s)
    PROVE  /\ SemTypeOK'
           /\ handle' = handle
           /\ NobodyEnds
           /\ \/ /\ sems[s].value # 0
                 /\ sems' = [sems EXCEPT ![s].value = sems[s].value - 1]
                 /\ inWait' = [inWait EXCEPT ![cpu] = NoSem]
                 /\ UNCHANGED <<state, cpu>>
              \/ /\ sems[s].value = 0
                 /\ sems' = IF sems[s].used
                            THEN [sems EXCEPT ![s].waiting = Append(sems[s].waiting, cpu)]
                            ELSE sems
                 /\ inWait' = [inWait EXCEPT ![cpu] = s]
                 /\ \A p \in PIDs : state'[p] = "BLOCKED" <=> p = cpu \/ state[p] = "BLOCKED"
<1>1. ProcTypeOK /\ sems[s] \in Sem /\ cpu \in PIDs
  BY DEF SemTypeOK, ProcTypeOK
<1>2. CASE sems[s].value # 0
  <2>1. /\ sems' = [sems EXCEPT ![s].value = sems[s].value - 1]
        /\ inWait' = [inWait EXCEPT ![cpu] = NoSem]
        /\ UNCHANGED <<state, cpu, handle>>
    BY <1>2 DEF TakeOrBlock, procVars
  <2>2. [sems[s] EXCEPT !.value = sems[s].value - 1] \in Sem
    <3>1. sems[s].value \in Int
      BY <1>1 DEF Sem
    <3>2. sems[s].value - 1 \in Int
      BY <3>1
    <3> QED
      BY <1>1, <3>2, SemFields
  <2>3. sems' \in [SemIds -> Sem]
    BY <2>1, <2>2 DEF SemTypeOK
  <2> QED
    BY <1>2, <2>1, <2>3 DEF SemTypeOK, NobodyEnds
<1>3. CASE sems[s].value = 0
  <2>1. /\ sems' = IF sems[s].used
                   THEN [sems EXCEPT ![s].waiting = Append(sems[s].waiting, cpu)]
                   ELSE sems
        /\ inWait' = [inWait EXCEPT ![cpu] = s]
        /\ BlockSelf
        /\ handle' = handle
    BY <1>3 DEF TakeOrBlock
  <2>2. [sems[s] EXCEPT !.waiting = Append(sems[s].waiting, cpu)] \in Sem
    <3>1. sems[s].waiting \in Seq(PIDs)
      BY <1>1 DEF Sem
    <3>2. Append(sems[s].waiting, cpu) \in Seq(PIDs)
      BY <1>1, <3>1
    <3> QED
      BY <1>1, <3>2, SemFields
  <2>3. sems' \in [SemIds -> Sem]
    BY <2>1, <2>2 DEF SemTypeOK
  <2>4. /\ ProcTypeOK'
        /\ \A p \in PIDs : state'[p] = "BLOCKED" <=> p = cpu \/ state[p] = "BLOCKED"
        /\ NobodyEnds
    BY <1>1, <2>1, BlockSelfEffect
  <2>5. inWait' \in [PIDs -> SemIds \cup {NoSem}]
    BY <2>1 DEF SemTypeOK
  <2>6. SemTypeOK'
    BY <2>1, <2>3, <2>4, <2>5 DEF SemTypeOK, ProcTypeOK
  <2> QED
    BY <1>3, <2>1, <2>4, <2>6
<1> QED
  BY <1>2, <1>3

\* What semPost does: the value grows and the queue is emptied into READY.
LEMMA PostEffect ==
    ASSUME SemTypeOK, NEW s \in SemIds, PostSem(s)
    PROVE  /\ SemTypeOK'
           /\ sems' = [sems EXCEPT ![s].value = sems[s].value + 1, ![s].waiting = << >>]
           /\ UNCHANGED <<inWait, handle>>
           /\ cpu' = cpu
           /\ NobodyEnds
           /\ \A p \in PIDs : state'[p] = "BLOCKED"
                              <=> state[p] = "BLOCKED" /\ p \notin Range(sems[s].waiting)
<1>1. ProcTypeOK /\ sems[s] \in Sem
  BY DEF SemTypeOK, ProcTypeOK
<1>2. /\ sems' = [sems EXCEPT ![s].value = sems[s].value + 1, ![s].waiting = << >>]
      /\ UNCHANGED <<inWait, handle>>
      /\ Wake(Range(sems[s].waiting))
  BY DEF PostSem
<1>3. [[sems[s] EXCEPT !.value = sems[s].value + 1] EXCEPT !.waiting = << >>] \in Sem
  <2>1. sems[s].value + 1 \in Int /\ << >> \in Seq(PIDs)
    BY <1>1 DEF Sem
  <2>2. [sems[s] EXCEPT !.value = sems[s].value + 1] \in Sem
    BY <1>1, <2>1, SemFields
  <2> QED
    BY <2>1, <2>2, SemFields
<1>4. sems' \in [SemIds -> Sem]
  BY <1>2, <1>3 DEF SemTypeOK
<1>5. /\ ProcTypeOK' /\ NobodyEnds
      /\ \A p \in PIDs : state'[p] = "BLOCKED"
                          <=> state[p] = "BLOCKED" /\ p \notin Range(sems[s].waiting)
  BY <1>1, <1>2, WakeEffect
<1>6. cpu' = cpu
  BY <1>2 DEF Wake, Stay
<1> QED
  BY <1>2, <1>4, <1>5, <1>6 DEF SemTypeOK, ProcTypeOK

\* What semClose does: nothing but to flags and a name.
LEMMA CloseEffect ==
    ASSUME SemTypeOK, NEW s \in SemIds, CloseSem(s)
    PROVE  /\ SemTypeOK'
           /\ UNCHANGED <<state, cpu, inWait, handle>>
           /\ \A t \in SemIds : /\ sems'[t].used = sems[t].used
                                 /\ sems'[t].value = sems[t].value
                                 /\ sems'[t].waiting = sems[t].waiting
<1> DEFINE closed == Flagged(sems[s], cpu, FALSE)
<1>1. /\ closed \in Sem /\ closed.used = sems[s].used
      /\ closed.value = sems[s].value /\ closed.waiting = sems[s].waiting
  BY FlaggedEffect DEF SemTypeOK
<1>2. sems' = [sems EXCEPT ![s] = closed] /\ UNCHANGED <<state, cpu, inWait, handle>>
  BY DEF CloseSem, procVars
<1> HIDE DEF closed
<1>3. sems' \in [SemIds -> Sem]
  BY <1>1, <1>2 DEF SemTypeOK
<1> QED
  BY <1>1, <1>2, <1>3 DEF SemTypeOK

-----------------------------------------------------------------------------
\* initSemManager leaves the tables well formed.
LEMMA TablesType ==
    ASSUME state \in [PIDs -> States], cpu \in PIDs, initSemManager
    PROVE  SemTypeOK
<1> DEFINE none == [used |-> FALSE, value |-> 0, waiting |-> << >>,
                    openedBy |-> [i \in 0..(MAX_PROCESSES - 1) |-> FALSE],
                    name |-> [i \in 1..NameLength |-> NUL]]
<1>1. none \in Sem
  <2>1. << >> \in Seq(PIDs)
    OBVIOUS
  <2>2. [i \in 1..NameLength |-> NUL] \in [1..NameLength -> Chars]
    BY DEF Chars
  <2> QED
    BY <2>1, <2>2 DEF Sem
<1>2. sems = [s \in SemIds |-> none]
  BY DEF initSemManager
<1> HIDE DEF none
<1>3. sems \in [SemIds -> Sem]
  BY <1>1, <1>2
<1>4. /\ inWait \in [PIDs -> SemIds \cup {NoSem}]
      /\ handle \in [PIDs -> [Names -> SemIds \cup {NoSem}]]
  BY DEF initSemManager
<1> QED
  BY <1>3, <1>4 DEF SemTypeOK

\* The system starts with every variable well formed.
LEMMA TypeInit == Init => SemTypeOK
<1> SUFFICES ASSUME Init PROVE SemTypeOK
  OBVIOUS
<1>1. state \in [PIDs -> States] /\ cpu \in PIDs
  BY DEF Init, States, PIDs
<1> QED
  BY <1>1, TablesType DEF Init

\* What semDestroy does: the slot is free, and its queue is emptied into READY.
LEMMA DestroyType ==
    ASSUME SemTypeOK, NEW s \in SemIds, DestroySem(s)
    PROVE  SemTypeOK'
<1>1. ProcTypeOK /\ sems[s] \in Sem
  BY DEF SemTypeOK, ProcTypeOK
<1>2. /\ sems' = [sems EXCEPT ![s].used = FALSE, ![s].waiting = << >>]
      /\ inWait' = inWait
      /\ Wake(Range(sems[s].waiting))
  BY DEF DestroySem
<1>3. ProcTypeOK'
  BY <1>1, <1>2, WakeEffect
<1>4. [[sems[s] EXCEPT !.used = FALSE] EXCEPT !.waiting = << >>] \in Sem
  <2>1. 0 \in Nat /\ << >> \in Seq(PIDs)
    OBVIOUS
  <2>2. [sems[s] EXCEPT !.used = FALSE] \in Sem
    BY <1>1, <2>1, SemFields
  <2> QED
    BY <2>1, <2>2, SemFields
<1>5. sems' \in [SemIds -> Sem]
  BY <1>2, <1>4 DEF SemTypeOK
<1>6. handle' \in [PIDs -> [Names -> SemIds \cup {NoSem}]]
  BY DEF DestroySem, SemTypeOK
<1> QED
  BY <1>2, <1>3, <1>5, <1>6 DEF SemTypeOK, ProcTypeOK

\* What semSetValue does: entries leave the front of the queue.
LEMMA SetValueType ==
    ASSUME SemTypeOK, SemSetValue
    PROVE  SemTypeOK'
<1> DEFINE grown(s, v) == v - sems[s].value
           count(s, v) == IF grown(s, v) <= 0 THEN 0
                          ELSE IF grown(s, v) < Len(sems[s].waiting) THEN grown(s, v)
                          ELSE Len(sems[s].waiting)
<1>1. PICK s \in SemIds, v \in Values :
        /\ sems' = [sems EXCEPT ![s].value = v,
                     ![s].waiting = SubSeq(sems[s].waiting, count(s, v) + 1, Len(sems[s].waiting))]
        /\ Wake(Range(SubSeq(sems[s].waiting, 1, count(s, v))))
  BY DEF SemSetValue
<1> DEFINE w == sems[s].waiting
           n == count(s, v)
<1>2. ProcTypeOK /\ sems[s] \in Sem /\ v \in Int /\ w \in Seq(PIDs) /\ sems[s].value \in Int
  BY ValuesAssumption DEF SemTypeOK, ProcTypeOK, Sem
<1>3. n \in 0..Len(w)
  BY <1>2
<1>4. SubSeq(w, n + 1, Len(w)) \in Seq(PIDs)
  <2> HIDE DEF n, w
  <2> QED BY <1>2, <1>3
<1>5. ProcTypeOK'
  BY <1>1, <1>2, WakeEffect
<1>6. [[sems[s] EXCEPT !.value = v] EXCEPT !.waiting = SubSeq(w, n + 1, Len(w))] \in Sem
  <2> HIDE DEF n, w
  <2>1. [sems[s] EXCEPT !.value = v] \in Sem
    BY <1>2, <1>4, SemFields
  <2> QED
    BY <1>2, <1>4, <2>1, SemFields
<1>7. sems' \in [SemIds -> Sem]
  BY <1>1, <1>6 DEF SemTypeOK
<1> QED
  BY <1>5, <1>7 DEF SemTypeOK, ProcTypeOK, SemSetValue

\* Blocking, waking and ending processes keep the types; so does a tick.
LEMMA ProcessStepType ==
    ASSUME SemTypeOK, Block \/ Unblock \/ Kill \/ StartProcess \/ Tick
    PROVE  SemTypeOK'
<1>1. ProcTypeOK
  BY DEF SemTypeOK, ProcTypeOK
<1>2. ProcTypeOK' /\ sems' = sems
  <2>1. CASE Block
    <3>1. CASE BlockSelf
      BY <1>1, <2>1, <3>1, BlockSelfEffect DEF Block, semVars
    <3>2. CASE \E p \in PIDs : BlockOther(p)
      BY <1>1, <2>1, <3>2 DEF Block, semVars, BlockOther, Stay, ProcTypeOK, States
    <3> QED
      BY <2>1, <3>1, <3>2 DEF Block
  <2>2. CASE Unblock
    BY <1>1, <2>2, WakeEffect DEF Unblock, semVars
  <2>3. CASE Kill
    BY <1>1, <2>3, EndEffect DEF Kill
  <2>4. CASE StartProcess
    BY <1>1, <2>4 DEF StartProcess, Start, Stay, semVars, ProcTypeOK, States
  <2>5. CASE Tick
    BY <1>1, <2>5, SwitchEffect DEF Tick, Preempt, semVars, ProcTypeOK
  <2> QED
    BY <2>1, <2>2, <2>3, <2>4, <2>5
<1>3. /\ inWait' \in [PIDs -> SemIds \cup {NoSem}]
      /\ handle' \in [PIDs -> [Names -> SemIds \cup {NoSem}]]
  <2>1. CASE Kill
    BY <2>1 DEF Kill, SemTypeOK
  <2>2. CASE ~Kill
    BY <2>2 DEF SemTypeOK, Block, Unblock, StartProcess, Tick, semVars
  <2> QED
    BY <2>1, <2>2
<1> QED
  BY <1>2, <1>3 DEF SemTypeOK, ProcTypeOK

\* Every step keeps the tables well formed.
LEMMA TypeStep == SemTypeOK /\ [Next]_vars => SemTypeOK'
<1> SUFFICES ASSUME SemTypeOK, [Next]_vars PROVE SemTypeOK'
  OBVIOUS
<1>1. CASE SemOpen
  BY <1>1, OpenEffect, ValuesAssumption DEF SemOpen
<1>2. CASE SemClose
  BY <1>2, CloseEffect DEF SemClose
<1>3. CASE SemWait
  BY <1>3, TakeEffect DEF SemWait, WaitSem
<1>4. CASE SemResume
  <2>1. inWait[cpu] \in SemIds
    BY <1>4 DEF SemResume, SemTypeOK
  <2> QED
    BY <1>4, <2>1, TakeEffect DEF SemResume
<1>5. CASE SemPost
  BY <1>5, PostEffect DEF SemPost
<1>6. CASE SemDestroy
  BY <1>6, DestroyType DEF SemDestroy
<1>7. CASE SemSetValue
  BY <1>7, SetValueType
<1>8. CASE Block \/ Unblock \/ Kill \/ StartProcess \/ Tick
  BY <1>8, ProcessStepType
<1>9. CASE UNCHANGED vars
  BY <1>9 DEF vars, SemTypeOK
<1> QED
  BY <1>1, <1>2, <1>3, <1>4, <1>5, <1>6, <1>7, <1>8, <1>9 DEF Next

\* Every variable of the semaphore manager keeps its type, whatever operations
\* the programs make: no queue holds anything but PIDs, and a flag written for the
\* last PID damages only a name.
THEOREM SemTypeCorrect == Spec => []SemTypeOK
  BY TypeInit, TypeStep, PTL DEF Spec

\* The semaphores of this step that were in use and counted units still do.
StaysCounted == \A s \in SemIds : sems[s].used /\ sems[s].value >= 0 /\ sems'[s].used
                                    => sems'[s].value >= 0

\* A turn of semWait's loop takes only from a value that is not 0.
LEMMA TakeStaysCounted ==
    ASSUME SemTypeOK, NEW s \in SemIds, TakeOrBlock(s)
    PROVE  StaysCounted
<1>1. sems[s].value \in Int
  BY DEF SemTypeOK, Sem
<1>2. CASE sems[s].value # 0
  <2>1. sems' = [sems EXCEPT ![s].value = sems[s].value - 1]
    BY <1>2, TakeEffect
  <2>2. /\ \A t \in SemIds : t # s => sems'[t] = sems[t]
        /\ sems'[s].value = sems[s].value - 1
    BY <2>1 DEF SemTypeOK, Sem
  <2> QED
    BY <1>1, <1>2, <2>2 DEF StaysCounted
<1>3. CASE sems[s].value = 0
  <2>1. sems' = IF sems[s].used
                THEN [sems EXCEPT ![s].waiting = Append(sems[s].waiting, cpu)]
                ELSE sems
    BY <1>3, TakeEffect
  <2>2. \A t \in SemIds : sems'[t].value = sems[t].value
    BY <2>1 DEF SemTypeOK, Sem
  <2> QED
    BY <2>2 DEF StaysCounted
<1> QED
  BY <1>2, <1>3

\* So does every other step: a post adds to the value, semSetValue refuses to set
\* it below 0, semOpen writes it only to a slot that was free.
LEMMA CountStep ==
    ASSUME SemTypeOK, [Next]_vars
    PROVE  StaysCounted
<1>1. CASE SemOpen
  <2>1. PICK name \in Names, value \in Values : OpenSem(name, value)
    BY <1>1 DEF SemOpen
  <2>2. \A s \in SemIds : sems[s].used => sems'[s].value = sems[s].value
    BY <2>1, OpenEffect, ValuesAssumption
  <2> QED
    BY <2>2 DEF StaysCounted
<1>2. CASE SemClose
  BY <1>2, CloseEffect DEF SemClose, StaysCounted
<1>3. CASE SemWait
  BY <1>3, TakeStaysCounted DEF SemWait, WaitSem
<1>4. CASE SemResume
  <2>1. inWait[cpu] \in SemIds
    BY <1>4 DEF SemResume, SemTypeOK
  <2> QED
    BY <1>4, <2>1, TakeStaysCounted DEF SemResume
<1>5. CASE SemPost
  <2>1. PICK s \in SemIds : PostSem(s)
    BY <1>5 DEF SemPost
  <2>2. sems' = [sems EXCEPT ![s].value = sems[s].value + 1, ![s].waiting = << >>]
    BY <2>1, PostEffect
  <2>3. /\ \A t \in SemIds : t # s => sems'[t] = sems[t]
        /\ sems'[s].value = sems[s].value + 1 /\ sems[s].value \in Int
    BY <2>2 DEF SemTypeOK, Sem
  <2> QED
    BY <2>3 DEF StaysCounted
<1>6. CASE SemDestroy
  <2>1. PICK s \in SemIds : DestroySem(s)
    BY <1>6 DEF SemDestroy
  <2>2. /\ \A t \in SemIds : t # s => sems'[t] = sems[t]
        /\ ~sems'[s].used
    BY <2>1 DEF DestroySem, SemTypeOK, Sem
  <2> QED
    BY <2>2 DEF StaysCounted
<1>7. CASE SemSetValue
  <2>1. PICK s \in SemIds, v \in Values :
          /\ v >= 0
          /\ \E w : sems' = [sems EXCEPT ![s].value = v, ![s].waiting = w]
    BY <1>7 DEF SemSetValue
  <2>2. /\ \A t \in SemIds : t # s => sems'[t] = sems[t]
        /\ sems'[s].value = v
    BY <2>1 DEF SemTypeOK, Sem
  <2> QED
    BY <2>1, <2>2 DEF StaysCounted
<1>8. CASE Block \/ Unblock \/ Kill \/ StartProcess \/ Tick \/ UNCHANGED vars
  BY <1>8 DEF Block, Unblock, Kill, StartProcess, Tick, semVars, vars, StaysCounted
<1> QED
  BY <1>1, <1>2, <1>3, <1>4, <1>5, <1>6, <1>7, <1>8 DEF Next

\* semWait's test "value == 0" is enough: once a semaphore counts units,
\* no step makes its value negative, whoever was woken in whatever order, while a
\* semaphore created with a negative value, which semCreate does not refuse, goes
\* on falling.
THEOREM NoValueFallsBelowZero == Spec => NoneGoesNegative
<1>1. SemTypeOK /\ [Next]_vars => [StaysCounted]_vars
  BY CountStep
<1>2. Spec => []SemTypeOK
  BY SemTypeCorrect
<1>3. Spec => [][StaysCounted]_vars
  BY <1>1, <1>2, PTL DEF Spec
<1> QED
  BY <1>3 DEF NoneGoesNegative, StaysCounted

-----------------------------------------------------------------------------
(***************************************************************************)
(* Who sleeps is listed as long as nobody destroys a semaphore or blocks   *)
(* another process, and no wake-up is lost as long as nobody sets a value  *)
(* either.  NoLostWakeup alone is not inductive: a post wakes the          *)
(* processes that are listed, so a sleeper has to be listed; and a process *)
(* that resumes is listed only while its semaphore is in use.              *)
(***************************************************************************)
Orderly == Workload \cap {"destroy", "block"} = {}
Gentle  == Workload \cap {"destroy", "set", "block"} = {}

WaitsOnUsed == \A p \in PIDs : inWait[p] # NoSem => sems[inWait[p]].used

ListInv == SemTypeOK /\ WaitsOnUsed /\ SleeperIsListed

\* A step that leaves values and queues alone and puts nobody to sleep keeps the
\* sleepers listed and wakes nobody too few: semOpen, semClose, ticks, kills, new
\* processes and stray wake-ups.
LEMMA QuietStep ==
    ASSUME ListInv, SemTypeOK',
           \A p \in PIDs : inWait'[p] \in {inWait[p], NoSem},
           \A p \in PIDs : state'[p] = "BLOCKED" /\ inWait'[p] # NoSem => state[p] = "BLOCKED",
           \A s \in SemIds : sems[s].used => /\ sems'[s].used
                                             /\ sems'[s].value = sems[s].value
                                             /\ sems'[s].waiting = sems[s].waiting
    PROVE  ListInv' /\ (NoLostWakeup => NoLostWakeup')
<1>1. \A p \in PIDs : inWait'[p] # NoSem =>
        /\ inWait'[p] = inWait[p] /\ inWait[p] \in SemIds /\ sems[inWait[p]].used
  BY DEF ListInv, WaitsOnUsed, SemTypeOK
<1>2. WaitsOnUsed'
  BY <1>1 DEF WaitsOnUsed
<1>3. ASSUME NEW p \in PIDs, NEW s \in SemIds, Sleeps(p, s)'
      PROVE  /\ Sleeps(p, s)
             /\ sems'[s].value = sems[s].value
             /\ sems'[s].waiting = sems[s].waiting
  <2>1. s # NoSem
    BY DEF SemIds
  <2> QED
    BY <1>1, <1>3, <2>1 DEF Sleeps
<1>4. SleeperIsListed'
  BY <1>3 DEF SleeperIsListed, ListInv
<1>5. NoLostWakeup => NoLostWakeup'
  BY <1>3 DEF NoLostWakeup
<1> QED
  BY <1>2, <1>4, <1>5 DEF ListInv

\* A turn of semWait's loop: a unit is taken only while nobody sleeps on the
\* semaphore, if no wake-up was lost so far, and who goes to sleep on a semaphore
\* in use is listed.
LEMMA TakeKeepsLists ==
    ASSUME ListInv, NEW s \in SemIds, sems[s].used, TakeOrBlock(s)
    PROVE  ListInv' /\ (NoLostWakeup => NoLostWakeup')
<1>1. /\ SemTypeOK /\ SemTypeOK' /\ sems[s] \in Sem /\ cpu \in PIDs
  BY TakeEffect DEF ListInv, SemTypeOK
<1>2. CASE sems[s].value # 0
  <2>1. /\ sems' = [sems EXCEPT ![s].value = sems[s].value - 1]
        /\ inWait' = [inWait EXCEPT ![cpu] = NoSem]
        /\ UNCHANGED <<state, cpu>>
    BY <1>1, <1>2, TakeEffect
  <2>2. /\ \A t \in SemIds : sems[t].used => sems'[t].used
        /\ \A t \in SemIds : sems'[t].waiting = sems[t].waiting
        /\ \A t \in SemIds : t # s => sems'[t] = sems[t]
    BY <1>1, <2>1 DEF SemTypeOK, Sem
  <2>3. \A p \in PIDs : inWait'[p] # NoSem => inWait'[p] = inWait[p] /\ inWait[p] \in SemIds
    BY <1>1, <2>1 DEF SemTypeOK
  <2>4. WaitsOnUsed'
    BY <2>2, <2>3 DEF WaitsOnUsed, ListInv
  <2>5. ASSUME NEW p \in PIDs, NEW t \in SemIds, Sleeps(p, t)'
        PROVE  Sleeps(p, t)
    <3>1. t # NoSem
      BY DEF SemIds
    <3> QED
      BY <2>1, <2>3, <2>5, <3>1 DEF Sleeps
  <2>6. SleeperIsListed'
    BY <2>2, <2>5 DEF SleeperIsListed, ListInv
  <2>7. NoLostWakeup => NoLostWakeup'
    BY <1>2, <2>2, <2>5 DEF NoLostWakeup
  <2> QED
    BY <1>1, <2>4, <2>6, <2>7 DEF ListInv
<1>3. CASE sems[s].value = 0
  <2>1. /\ sems' = [sems EXCEPT ![s].waiting = Append(sems[s].waiting, cpu)]
        /\ inWait' = [inWait EXCEPT ![cpu] = s]
        /\ \A p \in PIDs : state'[p] = "BLOCKED" <=> p = cpu \/ state[p] = "BLOCKED"
    BY <1>1, <1>3, TakeEffect
  <2>2. /\ \A t \in SemIds : sems[t].used => sems'[t].used
        /\ \A t \in SemIds : t # s => sems'[t] = sems[t]
        /\ sems'[s].value = 0
    BY <1>1, <1>3, <2>1 DEF SemTypeOK, Sem
  <2>3. sems'[s].waiting = Append(sems[s].waiting, cpu) /\ sems[s].waiting \in Seq(PIDs)
    BY <1>1, <2>1 DEF SemTypeOK, Sem
  <2>4. Range(sems'[s].waiting) = Range(sems[s].waiting) \cup {cpu}
    BY <1>1, <2>3, RangeOfAppend
  <2>5. WaitsOnUsed'
    BY <1>1, <2>1, <2>2 DEF WaitsOnUsed, ListInv, SemTypeOK
  <2>6. ASSUME NEW p \in PIDs, NEW t \in SemIds, Sleeps(p, t)'
        PROVE  \/ Sleeps(p, t)
               \/ p = cpu /\ t = s
    BY <1>1, <2>1, <2>6 DEF Sleeps, SemTypeOK
  <2>7. SleeperIsListed'
    BY <2>2, <2>4, <2>6 DEF SleeperIsListed, ListInv
  <2>8. NoLostWakeup => NoLostWakeup'
    BY <2>2, <2>6 DEF NoLostWakeup
  <2> QED
    BY <1>1, <2>5, <2>7, <2>8 DEF ListInv
<1> QED
  BY <1>2, <1>3

\* semPost: every sleeper of the semaphore is listed, so the post that makes the
\* value positive wakes them all.
LEMMA PostKeepsLists ==
    ASSUME ListInv, NEW s \in SemIds, PostSem(s)
    PROVE  ListInv' /\ (NoLostWakeup => NoLostWakeup')
<1>1. /\ SemTypeOK /\ SemTypeOK' /\ sems[s] \in Sem
      /\ sems' = [sems EXCEPT ![s].value = sems[s].value + 1, ![s].waiting = << >>]
      /\ inWait' = inWait
      /\ \A p \in PIDs : state'[p] = "BLOCKED"
                          <=> state[p] = "BLOCKED" /\ p \notin Range(sems[s].waiting)
  BY PostEffect DEF ListInv, SemTypeOK
<1>2. /\ \A t \in SemIds : sems[t].used => sems'[t].used
      /\ \A t \in SemIds : t # s => sems'[t] = sems[t]
  BY <1>1 DEF SemTypeOK, Sem
<1>3. ASSUME NEW p \in PIDs, NEW t \in SemIds, Sleeps(p, t)'
      PROVE  Sleeps(p, t) /\ t # s
  <2>1. Sleeps(p, t) /\ p \notin Range(sems[s].waiting)
    BY <1>1, <1>3 DEF Sleeps
  <2> QED
    BY <2>1 DEF ListInv, SleeperIsListed
<1>4. WaitsOnUsed'
  BY <1>1, <1>2 DEF WaitsOnUsed, ListInv, SemTypeOK
<1>5. SleeperIsListed' /\ (NoLostWakeup => NoLostWakeup')
  BY <1>2, <1>3 DEF SleeperIsListed, NoLostWakeup, ListInv
<1> QED
  BY <1>1, <1>4, <1>5 DEF ListInv

\* semSetValue takes its entries from the front of the queue and wakes them, so
\* who still sleeps is among the entries that stay.
LEMMA SetValueKeepsLists ==
    ASSUME ListInv, SemSetValue
    PROVE  ListInv'
<1> DEFINE grown(s, v) == v - sems[s].value
           count(s, v) == IF grown(s, v) <= 0 THEN 0
                          ELSE IF grown(s, v) < Len(sems[s].waiting) THEN grown(s, v)
                          ELSE Len(sems[s].waiting)
<1>1. PICK s \in SemIds, v \in Values :
        /\ sems' = [sems EXCEPT ![s].value = v,
                     ![s].waiting = SubSeq(sems[s].waiting, count(s, v) + 1, Len(sems[s].waiting))]
        /\ Wake(Range(SubSeq(sems[s].waiting, 1, count(s, v))))
  BY DEF SemSetValue
<1> DEFINE w     == sems[s].waiting
           n     == count(s, v)
           front == SubSeq(w, 1, n)
           rest  == SubSeq(w, n + 1, Len(w))
<1>2. /\ SemTypeOK /\ SemTypeOK' /\ ProcTypeOK /\ sems[s] \in Sem
      /\ v \in Int /\ w \in Seq(PIDs) /\ sems[s].value \in Int
  BY SetValueType, ValuesAssumption DEF ListInv, SemTypeOK, ProcTypeOK, Sem
<1>3. n \in 0..Len(w)
  BY <1>2
<1>4. \A p \in Range(w) : p \in Range(front) \/ p \in Range(rest)
  <2> HIDE DEF n, w
  <2>1. Range(rest) = {w[i] : i \in (n + 1)..Len(w)}
    BY <1>2, <1>3, RangeOfSuffix
  <2>2. Range(front) = {w[i] : i \in 1..n}
    BY <1>2, <1>3, RangeOfPrefix
  <2>3. \A i \in DOMAIN w : i \in 1..n \/ i \in (n + 1)..Len(w)
    BY <1>2, <1>3
  <2> QED
    BY <2>1, <2>2, <2>3 DEF Range
<1>5. \A p \in PIDs : state'[p] = "BLOCKED" => state[p] = "BLOCKED" /\ p \notin Range(front)
  BY <1>1, <1>2, WakeEffect
<1>6. sems' = [sems EXCEPT ![s].value = v, ![s].waiting = rest] /\ inWait' = inWait
  BY <1>1 DEF SemSetValue
<1> HIDE DEF front, rest, n
<1>7. /\ \A t \in SemIds : sems'[t].used = sems[t].used
      /\ \A t \in SemIds : t # s => sems'[t].waiting = sems[t].waiting
      /\ sems'[s].waiting = rest
  BY <1>2, <1>6 DEF SemTypeOK, Sem
<1>8. ASSUME NEW p \in PIDs, NEW t \in SemIds, Sleeps(p, t)'
      PROVE  p \in Range(sems'[t].waiting)
  <2>1. Sleeps(p, t) /\ p \notin Range(front)
    BY <1>5, <1>6, <1>8 DEF Sleeps
  <2>2. p \in Range(sems[t].waiting)
    BY <2>1 DEF ListInv, SleeperIsListed
  <2> QED
    BY <1>4, <1>7, <2>1, <2>2
<1>9. SleeperIsListed' /\ WaitsOnUsed'
  BY <1>2, <1>6, <1>7, <1>8 DEF SleeperIsListed, WaitsOnUsed, ListInv, SemTypeOK
<1> QED
  BY <1>2, <1>9 DEF ListInv

\* Every step of orderly programs keeps the sleepers listed, and if they set no
\* value either, no wake-up is lost.
LEMMA WakeStep ==
    ASSUME Orderly, ListInv, [Next]_vars
    PROVE  ListInv' /\ (Gentle /\ NoLostWakeup => NoLostWakeup')
<1>1. SemTypeOK /\ SemTypeOK' /\ ProcTypeOK
  BY TypeStep DEF ListInv, SemTypeOK, ProcTypeOK
<1>2. CASE SemOpen
  <2>1. PICK name \in Names, value \in Values : OpenSem(name, value)
    BY <1>2 DEF SemOpen
  <2>2. /\ UNCHANGED <<state, cpu, inWait>>
        /\ \A s \in SemIds : sems[s].used => /\ sems'[s].used
                                              /\ sems'[s].value = sems[s].value
                                              /\ sems'[s].waiting = sems[s].waiting
    BY <1>1, <2>1, OpenEffect, ValuesAssumption
  <2> QED
    BY <1>1, <2>2, QuietStep
<1>3. CASE SemClose
  <2>1. PICK s \in SemIds : CloseSem(s)
    BY <1>3 DEF SemClose
  <2>2. /\ UNCHANGED <<state, cpu, inWait>>
        /\ \A t \in SemIds : /\ sems'[t].used = sems[t].used
                              /\ sems'[t].value = sems[t].value
                              /\ sems'[t].waiting = sems[t].waiting
    BY <1>1, <2>1, CloseEffect
  <2> QED
    BY <1>1, <2>2, QuietStep
<1>4. CASE SemWait
  BY <1>4, TakeKeepsLists DEF SemWait, WaitSem
<1>5. CASE SemResume
  <2>1. inWait[cpu] \in SemIds /\ sems[inWait[cpu]].used
    BY <1>1, <1>5 DEF SemResume, SemTypeOK, ListInv, WaitsOnUsed
  <2> QED
    BY <1>5, <2>1, TakeKeepsLists DEF SemResume
<1>6. CASE SemPost
  BY <1>6, PostKeepsLists DEF SemPost
<1>7. CASE SemDestroy \/ Block
  BY <1>7 DEF Orderly, SemDestroy, Block, Calling
<1>8. CASE SemSetValue
  BY <1>8, SetValueKeepsLists DEF Gentle, SemSetValue, Calling
<1>9. CASE Unblock
  <2>1. \A p \in PIDs : state'[p] = "BLOCKED" => state[p] = "BLOCKED"
    BY <1>1, <1>9, WakeEffect DEF Unblock
  <2> QED
    BY <1>1, <1>9, <2>1, QuietStep DEF Unblock, semVars
<1>10. CASE Kill
  <2>1. \A p \in PIDs : state'[p] = "BLOCKED" => state[p] = "BLOCKED"
    BY <1>1, <1>10, EndEffect DEF Kill
  <2>2. /\ \A p \in PIDs : inWait'[p] \in {inWait[p], NoSem}
        /\ sems' = sems
    BY <1>1, <1>10 DEF Kill, SemTypeOK
  <2> QED
    BY <1>1, <2>1, <2>2, QuietStep
<1>11. CASE StartProcess
  <2>1. \A p \in PIDs : state'[p] = "BLOCKED" => state[p] = "BLOCKED"
    BY <1>1, <1>11 DEF StartProcess, Start, Stay, ProcTypeOK
  <2> QED
    BY <1>1, <1>11, <2>1, QuietStep DEF StartProcess, semVars
<1>12. CASE Tick
  <2>1. \A p \in PIDs : state'[p] = "BLOCKED" => state[p] = "BLOCKED"
    BY <1>1, <1>12, SwitchEffect DEF Tick, Preempt, ProcTypeOK
  <2> QED
    BY <1>1, <1>12, <2>1, QuietStep DEF Tick, semVars
<1>13. CASE UNCHANGED vars
  BY <1>1, <1>13, QuietStep DEF vars
<1> QED
  BY <1>2, <1>3, <1>4, <1>5, <1>6, <1>7, <1>8, <1>9, <1>10, <1>11, <1>12, <1>13 DEF Next

\* Nobody waits or sleeps when the system starts.
LEMMA ListInit == Init => ListInv /\ NoLostWakeup
<1> SUFFICES ASSUME Init PROVE ListInv /\ NoLostWakeup
  OBVIOUS
<1>1. SemTypeOK /\ \A p \in PIDs : inWait[p] = NoSem /\ state[p] # "BLOCKED"
  BY TypeInit DEF Init, initSemManager
<1> QED
  BY <1>1 DEF ListInv, WaitsOnUsed, SleeperIsListed, NoLostWakeup, Sleeps

\* A process asleep in semWait is in the queue where whoever posts, or sets the
\* value, looks for it, with any number of processes and semaphores, although
\* killed and otherwise woken processes leave stale entries; programs may do
\* everything but destroy a semaphore or block another process.
THEOREM SleepersStayListed ==
    ASSUME Orderly
    PROVE  Spec => []SleeperIsListed
<1>1. Init => ListInv
  BY ListInit
<1>2. ListInv /\ [Next]_vars => ListInv'
  BY WakeStep
<1>3. ListInv => SleeperIsListed
  BY DEF ListInv
<1> QED
  BY <1>1, <1>2, <1>3, PTL DEF Spec

\* semWait and semPost lose no wake-up, with any number of processes, semaphores
\* and units: nobody sleeps on a semaphore that has units to take, for programs
\* that do not destroy a semaphore, set its value or block another process.
THEOREM WakeupsAreNotLost ==
    ASSUME Gentle
    PROVE  Spec => []NoLostWakeup
<1> DEFINE Inv == ListInv /\ NoLostWakeup
<1>1. Init => Inv
  BY ListInit
<1>2. Inv /\ [Next]_vars => Inv'
  BY WakeStep DEF Gentle, Orderly
<1>3. Inv => NoLostWakeup
  OBVIOUS
<1> QED
  BY <1>1, <1>2, <1>3, PTL DEF Spec


-----------------------------------------------------------------------------
(***************************************************************************)
(* One semaphore per name.  A name is copied without its terminator, over  *)
(* what the slot held: so names shorter than their field, and none shorter *)
(* than another if semaphores are destroyed and their slots used again.    *)
(* The flag of the last PID is the first byte of the name, so no caller    *)
(* has that PID.  What the fields hold is part of the invariant.           *)
(***************************************************************************)
ShortNames == \A n \in Names : Len(n) < NameLength

AlikeNames == \A m, n \in Names : Len(m) = Len(n)

Keeping == /\ MAX_PROCESSES \notin Callers
           /\ ShortNames
           /\ "destroy" \in Workload => AlikeNames

Blank == [i \in 1..NameLength |-> NUL]

\* What a field holds after a name was copied into a blank one
Fields == {Written(Blank, n) : n \in Names}

NamedAt(n) == {s \in SemIds : sems[s].used /\ String(sems[s].name) = n}

\* A free slot can take any name
BlankUnused  == \A s \in SemIds :
                   ~sems[s].used => \/ sems[s].name = Blank
                                    \/ AlikeNames /\ sems[s].name \in Fields

HandlesNamed == \A p \in PIDs, n \in Names :
                   handle[p][n] # NoSem => handle[p][n] \in NamedAt(n)

OnePerName   == /\ \A s \in SemIds : sems[s].used => sems[s].name \in Fields
                /\ \A s, t \in SemIds :
                      /\ sems[s].used /\ sems[t].used
                      /\ String(sems[s].name) = String(sems[t].name)
                      => s = t

NameInv == BlankUnused /\ HandlesNamed /\ OnePerName

\* A name copied into a blank field reads back as that name.
LEMMA NameReadsBack ==
    ASSUME ShortNames, NEW name \in Names
    PROVE  /\ String(Written(Blank, name)) = name
           /\ NUL \in Range(Written(Blank, name))
<1> DEFINE f == Written(Blank, name)
           z == {i \in DOMAIN f : f[i] = NUL}
<1>1. /\ name \in Seq(STRING) /\ NameLength \in Nat /\ Len(name) \in 0..(NameLength - 1)
      /\ NUL \notin Range(name)
  BY NamesAssumption DEF ShortNames
<1>2. /\ DOMAIN f = 1..NameLength
      /\ \A i \in 1..Len(name) : f[i] = name[i]
      /\ \A i \in (Len(name) + 1)..NameLength : f[i] = NUL
  BY <1>1 DEF Written, Blank
<1>3. \A i \in 1..Len(name) : name[i] # NUL
  BY <1>1 DEF Range
<1> HIDE DEF f
<1>4. Len(name) + 1 \in z /\ \A i \in z : Len(name) + 1 <= i /\ i \in Nat
  BY <1>1, <1>2, <1>3
<1>5. Min(z) = Len(name) + 1
  <2> HIDE DEF z
  <2>1. Min(z) \in z /\ \A y \in z : Min(z) <= y
    BY <1>4, MinInSet
  <2> QED
    BY <1>1, <1>4, <2>1
<1>6. String(f) = SubSeq(f, 1, Len(name))
  <2>1. String(f) = SubSeq(f, 1, Min(z) - 1)
    BY DEF String
  <2> HIDE DEF z
  <2>2. Min(z) - 1 = Len(name)
    BY <1>1, <1>5
  <2> QED
    BY <2>1, <2>2
<1>7. f \in Seq({f[i] : i \in 1..NameLength})
  <2>1. f = [i \in 1..NameLength |-> f[i]]
    BY <1>2 DEF f, Written
  <2> QED
    BY <1>1, <2>1
<1>8. /\ DOMAIN SubSeq(f, 1, Len(name)) = 1..Len(name)
      /\ \A i \in 1..Len(name) : SubSeq(f, 1, Len(name))[i] = f[i]
  BY <1>1, <1>2, <1>7
<1>9. SubSeq(f, 1, Len(name)) = name
  BY <1>1, <1>2, <1>7, <1>8
<1>10. NUL \in Range(f)
  BY <1>4 DEF Range
<1> QED
  BY <1>6, <1>9, <1>10 DEF f

\* A name copied over one of the same length leaves nothing of it.
LEMMA WrittenOver ==
    ASSUME NEW m \in Names, NEW n \in Names, Len(m) = Len(n)
    PROVE  Written(Written(Blank, m), n) = Written(Blank, n)
<1>1. Len(m) \in Nat /\ Len(n) \in Nat
  BY NamesAssumption
<1> QED
  BY <1>1 DEF Written, Blank

\* So a name copied into the field of a free slot reads back.
LEMMA FieldOfFree ==
    ASSUME BlankUnused, NEW name \in Names, NEW s \in SemIds, ~sems[s].used
    PROVE  Written(sems[s].name, name) = Written(Blank, name)
<1>1. CASE sems[s].name = Blank
  BY <1>1
<1>2. CASE AlikeNames /\ sems[s].name \in Fields
  <2>1. PICK m \in Names : sems[s].name = Written(Blank, m)
    BY <1>2 DEF Fields
  <2> QED
    BY <1>2, <2>1, WrittenOver DEF AlikeNames
<1> QED
  BY <1>1, <1>2 DEF BlankUnused

\* strcmp finds the terminator in the field of every semaphore in use.
LEMMA NamedIsNamedAt ==
    ASSUME ShortNames, OnePerName, NEW name
    PROVE  Named(name) = NamedAt(name)
<1>1. \A s \in SemIds : sems[s].used => NUL \in Range(sems[s].name)
  BY NameReadsBack DEF OnePerName, Fields
<1> QED
  BY <1>1 DEF Named, NamedAt, Spells

\* A flag written for a PID that has one leaves the name alone.
LEMMA FlagKeepsName ==
    ASSUME NEW sem \in Sem, NEW p \in PIDs, NEW on \in BOOLEAN, p < MAX_PROCESSES
    PROVE  Flagged(sem, p, on).name = sem.name
  BY DEF Flagged, Sem

\* What semOpen leaves in slot s: the semaphore of that name as it was, or a new
\* one of that name where there was none.
OpenedAt(s, name, units) ==
    /\ handle' = [handle EXCEPT ![cpu][name] = s]
    /\ sems'[s].used /\ String(sems'[s].name) = name /\ sems'[s].name \in Fields
    /\ \A t \in SemIds : t # s => sems'[t] = sems[t]
    /\ \/ /\ sems[s].used /\ String(sems[s].name) = name
          /\ sems'[s].value = sems[s].value
          /\ sems'[s].waiting = sems[s].waiting
       \/ /\ ~sems[s].used /\ NamedAt(name) = {}
          /\ sems'[s].value = units
          /\ sems'[s].waiting = << >>

\* semOpen leaves one slot like that.
LEMMA OpenSlot ==
    ASSUME SemTypeOK, ShortNames, BlankUnused, OnePerName, cpu < MAX_PROCESSES,
           NEW name \in Names, NEW units \in Int, OpenSem(name, units)
    PROVE  \E s \in SemIds : OpenedAt(s, name, units)
<1> DEFINE found == findSemByName(name)
<1>1. cpu \in PIDs
  BY DEF SemTypeOK
<1>4. Named(name) = NamedAt(name)
  BY NamedIsNamedAt
<1>2. CASE found # NoSem
  <2>1. found \in Named(name)
    <3>1. Named(name) # {} /\ Named(name) \subseteq Nat
      BY <1>2 DEF findSemByName, Named, SemIds
    <3> QED
      BY <3>1, MinInSet DEF findSemByName
  <2>2. PICK s \in SemIds : /\ s = found /\ sems[s].used
                            /\ String(sems[s].name) = name /\ sems[s].name \in Fields
    BY <1>4, <2>1 DEF NamedAt, OnePerName
  <2>3. /\ sems' = [sems EXCEPT ![s] = Flagged(sems[s], cpu, TRUE)]
        /\ handle' = [handle EXCEPT ![cpu][name] = s]
    BY <1>2, <2>2 DEF OpenSem
  <2>4. /\ Flagged(sems[s], cpu, TRUE).used = sems[s].used
        /\ Flagged(sems[s], cpu, TRUE).value = sems[s].value
        /\ Flagged(sems[s], cpu, TRUE).waiting = sems[s].waiting
        /\ Flagged(sems[s], cpu, TRUE).name = sems[s].name
    BY <1>1, FlaggedEffect, FlagKeepsName DEF SemTypeOK
  <2>5. /\ sems'[s] = Flagged(sems[s], cpu, TRUE)
        /\ \A t \in SemIds : t # s => sems'[t] = sems[t]
    BY <2>3 DEF SemTypeOK
  <2>6. OpenedAt(s, name, units)
    BY <2>2, <2>3, <2>4, <2>5 DEF OpenedAt
  <2> QED
    BY <2>6
<1>3. CASE found = NoSem
  <2>1. Named(name) = {}
    <3>1. Named(name) # {} => Min(Named(name)) \in Named(name)
      BY MinInSet DEF Named, SemIds
    <3> QED
      BY <1>3, <3>1 DEF findSemByName, Named, SemIds
  <2>2. Min(FreeSems) \in FreeSems
    BY <1>3, MinInSet DEF OpenSem, FreeSems, SemIds
  <2>3. PICK s \in SemIds : s = Min(FreeSems) /\ ~sems[s].used
    BY <2>2 DEF FreeSems
  <2>4. /\ sems' = [sems EXCEPT ![s] = Created(sems[s], cpu, name, units)]
        /\ handle' = [handle EXCEPT ![cpu][name] = s]
    BY <1>3, <2>3 DEF OpenSem
  <2>5. /\ sems'[s] = Created(sems[s], cpu, name, units)
        /\ \A t \in SemIds : t # s => sems'[t] = sems[t]
    BY <2>4 DEF SemTypeOK
  <2>6. /\ Created(sems[s], cpu, name, units).used
        /\ Created(sems[s], cpu, name, units).name = Written(sems[s].name, name)
        /\ Created(sems[s], cpu, name, units).value = units
        /\ Created(sems[s], cpu, name, units).waiting = << >>
    BY <1>1 DEF Created, Flagged, SemTypeOK, Sem
  <2>7. String(sems'[s].name) = name /\ sems'[s].name \in Fields
    <3>1. sems'[s].name = Written(Blank, name)
      BY <2>3, <2>5, <2>6, FieldOfFree
    <3> QED
      BY <3>1, NameReadsBack DEF Fields
  <2>8. OpenedAt(s, name, units)
    BY <1>4, <2>1, <2>3, <2>4, <2>5, <2>6, <2>7 DEF OpenedAt
  <2> QED
    BY <2>8
<1> QED
  BY <1>2, <1>3

\* semOpen keeps one semaphore per name and returns the one of that name.
LEMMA OpenKeepsNames ==
    ASSUME SemTypeOK, NameInv, NEW name \in Names, NEW units, NEW s \in SemIds,
           OpenedAt(s, name, units)
    PROVE  NameInv'
<1>1. /\ cpu \in PIDs
      /\ handle' = [handle EXCEPT ![cpu][name] = s]
      /\ handle \in [PIDs -> [Names -> SemIds \cup {NoSem}]]
      /\ sems'[s].used /\ String(sems'[s].name) = name /\ sems'[s].name \in Fields
      /\ \A t \in SemIds : t # s => sems'[t] = sems[t]
  BY DEF OpenedAt, SemTypeOK
<1>2. BlankUnused'
  BY <1>1 DEF BlankUnused, NameInv
<1>3. \A t \in SemIds : sems[t].used /\ String(sems[t].name) = name => t = s
  BY DEF OpenedAt, NamedAt, NameInv, OnePerName
<1>4. OnePerName'
  BY <1>1, <1>3 DEF OnePerName, NameInv
<1>5. \A n \in Names : NamedAt(n) \subseteq NamedAt(n)'
  <2> SUFFICES ASSUME NEW n \in Names, NEW t \in NamedAt(n) PROVE t \in NamedAt(n)'
    OBVIOUS
  <2>1. t \in SemIds /\ sems[t].used /\ String(sems[t].name) = n
    BY DEF NamedAt
  <2>2. CASE t # s
    BY <1>1, <2>1, <2>2 DEF NamedAt
  <2>3. CASE t = s
    <3>1. n = name
      BY <2>1, <2>3 DEF OpenedAt
    <3> QED
      BY <1>1, <2>3, <3>1 DEF NamedAt
  <2> QED
    BY <2>2, <2>3
<1>6. s \in NamedAt(name)'
  BY <1>1 DEF NamedAt
<1>7. HandlesNamed'
  <2> SUFFICES ASSUME NEW p \in PIDs, NEW n \in Names, handle'[p][n] # NoSem
               PROVE  handle'[p][n] \in NamedAt(n)'
    BY DEF HandlesNamed
  <2>1. CASE p = cpu /\ n = name
    BY <1>1, <1>6, <2>1
  <2>2. CASE ~ (p = cpu /\ n = name)
    <3>1. handle'[p][n] = handle[p][n]
      BY <1>1, <2>2
    <3> QED
      BY <1>5, <3>1 DEF HandlesNamed, NameInv
  <2> QED
    BY <2>1, <2>2
<1> QED
  BY <1>2, <1>4, <1>7 DEF NameInv

\* A step that leaves the names alone and hands out no handle keeps the invariant.
LEMMA NamesUndisturbed ==
    ASSUME NameInv,
           \A s \in SemIds : sems'[s].used = sems[s].used /\ sems'[s].name = sems[s].name,
           \A p \in PIDs, n \in Names : handle'[p][n] \in {handle[p][n], NoSem}
    PROVE  NameInv'
<1>1. \A n \in Names : NamedAt(n)' = NamedAt(n)
  BY DEF NamedAt
<1>2. HandlesNamed'
  BY <1>1 DEF HandlesNamed, NameInv
<1>3. BlankUnused' /\ OnePerName'
  BY DEF BlankUnused, OnePerName, NameInv
<1> QED
  BY <1>2, <1>3 DEF NameInv

\* semDestroy frees a slot with its name in it; nobody keeps a handle to it.
LEMMA DestroyKeepsNames ==
    ASSUME SemTypeOK, AlikeNames, NameInv, NEW s \in SemIds, DestroySem(s)
    PROVE  NameInv'
<1>1. /\ \A t \in SemIds : t # s => sems'[t] = sems[t]
      /\ ~sems'[s].used /\ sems'[s].name = sems[s].name /\ sems[s].used
  BY DEF DestroySem, SemTypeOK, Sem
<1>2. handle' = [p \in PIDs |-> [n \in Names |->
                   IF handle[p][n] = s THEN NoSem ELSE handle[p][n]]]
  BY DEF DestroySem
<1>3. \A n \in Names : NamedAt(n)' = NamedAt(n) \ {s}
  BY <1>1 DEF NamedAt
<1>4. HandlesNamed'
  BY <1>2, <1>3 DEF HandlesNamed, NameInv
<1>5. BlankUnused'
  BY <1>1 DEF BlankUnused, OnePerName, NameInv
<1>6. OnePerName'
  BY <1>1 DEF OnePerName, NameInv
<1> QED
  BY <1>4, <1>5, <1>6 DEF NameInv

\* Every step of programs that keep to these rules keeps one semaphore per name.
LEMMA NameStep ==
    ASSUME Keeping, SemTypeOK, NameInv, [Next]_vars
    PROVE  NameInv'
<1>1. cpu \in Callers => cpu < MAX_PROCESSES
  BY ValuesAssumption DEF Keeping, PIDs
<1>2. sems \in [SemIds -> Sem] /\ inWait \in [PIDs -> SemIds \cup {NoSem}] /\ cpu \in PIDs
      /\ handle \in [PIDs -> [Names -> SemIds \cup {NoSem}]]
  BY DEF SemTypeOK
<1>3. CASE SemOpen
  <2>1. PICK name \in Names, units \in Values : OpenSem(name, units)
    BY <1>3 DEF SemOpen
  <2>2. PICK s \in SemIds : OpenedAt(s, name, units)
    BY <1>1, <1>3, <2>1, OpenSlot, ValuesAssumption DEF SemOpen, Calling, NameInv, Keeping
  <2> QED
    BY <2>2, OpenKeepsNames
<1>4. CASE SemClose
  <2>1. PICK s \in SemIds : CloseSem(s)
    BY <1>4 DEF SemClose
  <2>2. /\ Flagged(sems[s], cpu, FALSE).used = sems[s].used
        /\ Flagged(sems[s], cpu, FALSE).name = sems[s].name
    BY <1>1, <1>2, <1>4, FlaggedEffect, FlagKeepsName DEF SemClose, Calling
  <2> QED
    BY <1>2, <2>1, <2>2, NamesUndisturbed DEF CloseSem
<1>5. ASSUME NEW s \in SemIds, TakeOrBlock(s)
      PROVE  NameInv'
  <2>1. sems' = sems \/ \E v : sems' = [sems EXCEPT ![s].value = v]
                     \/ \E w : sems' = [sems EXCEPT ![s].waiting = w]
    BY <1>5 DEF TakeOrBlock
  <2>2. \A t \in SemIds : sems'[t].used = sems[t].used /\ sems'[t].name = sems[t].name
    <3>1. CASE sems' = sems
      BY <3>1
    <3>2. ASSUME NEW v, sems' = [sems EXCEPT ![s].value = v]
          PROVE  \A t \in SemIds : sems'[t].used = sems[t].used /\ sems'[t].name = sems[t].name
      BY <1>2, <3>2 DEF Sem
    <3>3. ASSUME NEW w, sems' = [sems EXCEPT ![s].waiting = w]
          PROVE  \A t \in SemIds : sems'[t].used = sems[t].used /\ sems'[t].name = sems[t].name
      BY <1>2, <3>3 DEF Sem
    <3> QED
      BY <2>1, <3>1, <3>2, <3>3
  <2> QED
    BY <1>5, <2>2, NamesUndisturbed DEF TakeOrBlock
<1>6. CASE SemWait \/ SemResume
  BY <1>2, <1>5, <1>6 DEF SemWait, WaitSem, SemResume
<1>7. CASE SemPost
  BY <1>2, <1>7, NamesUndisturbed DEF SemPost, PostSem, Sem
<1>8. CASE SemDestroy
  <2>1. AlikeNames /\ \E s \in SemIds : DestroySem(s)
    BY <1>8 DEF SemDestroy, Calling, Keeping
  <2> QED
    BY <1>2, <2>1, DestroyKeepsNames
<1>9. CASE SemSetValue
  BY <1>2, <1>9, NamesUndisturbed DEF SemSetValue, Sem
<1>10. CASE Kill
  BY <1>2, <1>10, NamesUndisturbed DEF Kill
<1>11. CASE Block \/ Unblock \/ StartProcess \/ Tick \/ UNCHANGED vars
  BY <1>11, NamesUndisturbed DEF Block, Unblock, StartProcess, Tick, semVars, vars
<1> QED
  BY <1>3, <1>4, <1>6, <1>7, <1>8, <1>9, <1>10, <1>11 DEF Next

\* Programs that open the same name get the same semaphore, with any number of
\* names and slots, although the name is copied without its terminator: for names
\* shorter than their field, one a prefix of another or not, none shorter than
\* another if slots are destroyed and used again, and no caller with the last PID.
\* Each of these conditions is needed: Spells, Written and Flagged say why.
THEOREM NamesMeanOneSemaphore ==
    ASSUME Keeping
    PROVE  Spec => []SameNameSameSem
<1> DEFINE Inv == SemTypeOK /\ NameInv
<1>1. Init => Inv
  <2> SUFFICES ASSUME Init PROVE NameInv
    BY TypeInit
  <2>1. /\ \A s \in SemIds : ~sems[s].used /\ sems[s].name = Blank
        /\ \A p \in PIDs, n \in Names : handle[p][n] = NoSem
    BY DEF Init, initSemManager, Blank
  <2> QED
    BY <2>1 DEF NameInv, BlankUnused, HandlesNamed, OnePerName
<1>2. Inv /\ [Next]_vars => Inv'
  BY TypeStep, NameStep
<1>3. Inv => SameNameSameSem
  BY DEF NameInv, HandlesNamed, OnePerName, SameNameSameSem, NamedAt
<1> QED
  BY <1>1, <1>2, <1>3, PTL DEF Spec
=============================================================================
