-------------------------------- MODULE Mvar --------------------------------
(***************************************************************************)
(* The readers and writers of the mvar command (Userland/Shell/commands.c) *)
(* around one shared variable and three named semaphores, on the kernel    *)
(* that runs test_sync.  A behaviour starts with one of the two programs.  *)
(* Ticks fall between any two steps; the waits between two rounds are      *)
(* left out.                                                               *)
(***************************************************************************)
EXTENDS TestSync

CONSTANTS writer_count, reader_count,               \* arguments of the command
          mvar_mutex, mvar_empty, mvar_full         \* the three names

ASSUME MvarAssumption == /\ writer_count \in 1..26 /\ reader_count \in Nat \ {0}
                         /\ {mvar_mutex, mvar_empty, mvar_full} \subseteq Names
                         /\ mvar_mutex # mvar_empty /\ mvar_mutex # mvar_full
                         /\ mvar_empty # mvar_full
                         /\ First + writer_count + reader_count - 1 \in PIDs

Writers == First..(First + writer_count - 1)
Readers == (First + writer_count)..(First + writer_count + reader_count - 1)

VARIABLES value,        \* the shared variable
          is_empty      \* a flag the programs set and never test

mvarVars == <<value, is_empty>>
syncVars == <<allVars, mvarVars>>

\* The letter of a writer is its PID; no letter was written yet
NoLetter == 0

Rest == <<global, aux, todo>>

\* mvar_shared holds what semOpen returned to mvar_wrapper
Shared(name) == handle[Main][name]

Waits(p, at, name, next) ==
    /\ On(p, at) /\ Goto(p, next)
    /\ WaitSem(Shared(name))
    /\ UNCHANGED <<Rest, pid, mvarVars>>

Posts(p, at, name, next) ==
    /\ On(p, at) /\ Goto(p, next)
    /\ PostSem(Shared(name))
    /\ UNCHANGED <<Rest, pid, mvarVars>>

-----------------------------------------------------------------------------
\* mvar_writer
Write(p) ==
    /\ On(p, "put") /\ Goto(p, "fill")
    /\ value' = p
    /\ UNCHANGED <<vars, Rest, pid, is_empty>>

Fill(p) ==
    /\ On(p, "fill") /\ Goto(p, "unlock")
    /\ is_empty' = FALSE
    /\ UNCHANGED <<vars, Rest, pid, value>>

\* Mutant: the writer waits for the mutex only
mvar_writerHasty(p) ==
    \/ Waits(p, "empty", mvar_mutex, "put")
    \/ Write(p) \/ Fill(p)
    \/ Posts(p, "unlock", mvar_mutex, "full")
    \/ Posts(p, "full", mvar_full, "empty")

mvar_writer(p) ==
    \/ Waits(p, "empty", mvar_empty, "lock")
    \/ Waits(p, "lock", mvar_mutex, "put")
    \/ Write(p) \/ Fill(p)
    \/ Posts(p, "unlock", mvar_mutex, "full")
    \/ Posts(p, "full", mvar_full, "empty")

\* mvar_reader
Read(p) ==
    /\ On(p, "get") /\ Goto(p, "drain")
    /\ value \in Writers
    /\ UNCHANGED <<vars, Rest, pid, mvarVars>>

Drain(p) ==
    /\ On(p, "drain") /\ Goto(p, "release")
    /\ is_empty' = TRUE
    /\ UNCHANGED <<vars, Rest, pid, value>>

\* Mutant: the mutex is taken before the wait for a letter
mvar_readerLocked(p) ==
    \/ Waits(p, "await", mvar_mutex, "acquire")
    \/ Waits(p, "acquire", mvar_full, "get")
    \/ Read(p) \/ Drain(p)
    \/ Posts(p, "release", mvar_mutex, "vacate")
    \/ Posts(p, "vacate", mvar_empty, "await")

mvar_reader(p) ==
    \/ Waits(p, "await", mvar_full, "acquire")
    \/ Waits(p, "acquire", mvar_mutex, "get")
    \/ Read(p) \/ Drain(p)
    \/ Posts(p, "release", mvar_mutex, "vacate")
    \/ Posts(p, "vacate", mvar_empty, "await")

-----------------------------------------------------------------------------
\* mvar_wrapper
Opens(at, name, units, next) ==
    /\ On(Main, at) /\ Goto(Main, next)
    /\ OpenSem(name, units)
    /\ UNCHANGED <<Rest, pid, mvarVars>>

Spawn ==
    /\ On(Main, "spawn")
    /\ Start(pid)
    /\ IF pid + 1 \in Writers \cup Readers THEN pid' = pid + 1 /\ Goto(Main, "spawn")
                                           ELSE Goto(Main, "leave") /\ UNCHANGED pid
    /\ UNCHANGED <<semVars, Rest, mvarVars>>

\* The command ends at once; nobody waits for its processes or destroys the semaphores
Leave ==
    /\ On(Main, "leave") /\ Goto(Main, "left")
    /\ End(Main, {})
    /\ UNCHANGED <<semVars, Rest, pid, mvarVars>>

mvar_wrapper ==
    \/ Opens("open mutex", mvar_mutex, 1, "open empty")
    \/ Opens("open empty", mvar_empty, 1, "open full")
    \/ Opens("open full", mvar_full, 0, "spawn")
    \/ Spawn \/ Leave

MvarStep == \/ mvar_wrapper
            \/ \E p \in Writers : mvar_writer(p)
            \/ \E p \in Readers : mvar_reader(p)

MvarInit == Started /\ pc = [p \in PIDs |-> CASE p = Main      -> "open mutex"
                                              [] p \in Writers -> "empty"
                                              [] p \in Readers -> "await"
                                              [] OTHER         -> "none"]

SyncInit == (TestInit \/ MvarInit) /\ value = NoLetter /\ is_empty = TRUE

SyncStep == MvarStep \/ (ProgramStep /\ UNCHANGED mvarVars)

SyncNext == \/ SyncStep
            \/ (SemResume \/ Tick) /\ UNCHANGED <<testVars, mvarVars>>

(***************************************************************************)
(* The workers of either program have the default priority or the highest, *)
(* their main program is a boost away from them, so none stays READY for   *)
(* ever (AgedProcessesRun of Scheduler).  A turn is long enough for the    *)
(* program on the CPU to make a step, and semWait, woken, goes on with     *)
(* interrupts masked: strong and weak fairness of these steps, with the    *)
(* states that enable them spelled out.                                    *)
(***************************************************************************)
CanStep == cpu # INITPID /\ inWait[cpu] = NoSem /\ pc[cpu] \notin {"exited", "done", "left"}

FairSyncSpec ==
    /\ SyncInit /\ [][SyncNext]_syncVars
    /\ \A p \in PIDs \ {INITPID} : []<>(state[p] # "READY")
    /\ []<>(inWait[cpu] = NoSem) \/ []<><<SemResume>>_syncVars
    /\ []<>CanStep => []<><<SyncStep>>_syncVars

-----------------------------------------------------------------------------
At(p, at) == pc[p] = at /\ inWait[p] = NoSem

\* Every letter is read once: a writer finds the variable read out, a reader finds
\* a letter nobody has read, although two semaphores take turns and a third one is
\* handed over in between.
LettersAreReadOnce ==
    /\ \A p \in Writers : At(p, "put") => is_empty
    /\ \A p \in Readers : At(p, "get") => ~is_empty /\ value \in Writers

\* README.md, "corre indefinidamente": writers and readers, however many, never all
\* wait for each other.
MvarGoesOn == pc[Main] = "left" ~> [](<>is_empty /\ <>~is_empty)
=============================================================================
