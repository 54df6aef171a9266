# TLA+ verification of the TP2 kernel

The repository is a small x86-64 operating system: a monolithic kernel that
multiplexes one CPU among processes by priority, named semaphores, pipes, two
memory managers, a keyboard and a screen driver, and a userland with a shell and
test programs. This directory models its core in TLA+, checks the models with
TLC on small instances and proves part of what is checked with TLAPS for every
value of the constants.

## 1. Inventory

| Component | State | Operations | Hard behaviour |
|---|---|---|---|
| Process table (`Kernel/process/process.c`) | `processes[100]`: state, priority, original priority, ageing counter, foreground flag, stack, `waitPid`, return value, two descriptors | create, kill, wait, change priority, foreground search, exit of an entry point | the exit path runs with interrupts enabled; one `waitPid` per process; slots (PIDs) are reused |
| Scheduler (`Kernel/process/scheduler.c`) | five FIFO queues, `currentProcess`, `quantumsLeft`, the yield flag | schedule, unschedule, ageing pass, context switch, block, unblock, yield | stale and duplicate queue entries, bounded boost, entries that move while the pass runs |
| Queues (`Kernel/queueADT.c`) | linked lists | queue, dequeue, remove, free | nodes come from the heap; allocation failure |
| Interrupts (`Kernel/asm`, `Kernel/idt`, `drivers/time.c`) | tick counter, IDT | timer, keyboard, system calls, forced switch | what is masked and what is not |
| Kernel entry (`Kernel/kernel.c`) | — | init and shell are created, first switch | interrupts are enabled before the processes exist |
| Semaphores (`Kernel/semaphoreManager.c`) | `sems[]`: name, value, waiting queue, opened-by flags, spinlock | open, close, wait, post, destroy, set value | wake-all posts, stale entries, reuse of slots, C strings |
| Descriptors and pipes (`Kernel/fds.c`) | descriptor table, ring buffers, semaphores and EOF flags | create, read, write, close | blocked peers, an end of file that races the last bytes, ends closed by an exit that can be cut off |
| Keyboard (`drivers/keyboard.c`) | character ring, options, Control key | key press, Ctrl-C, Ctrl-D, read, clear | an interrupt handler that edits what a program reads and kills processes |
| Memory (`memory/naiveManager.c`, `memory/buddyManager.c`) | block list; tree of node states | malloc, free, status | splits and merges in any order, headers, a release that is interrupted |
| System calls (`idt/syscallDispatcher.c`) | — | checks in front of the above | — |
| Shell (`Userland/Shell/shell.c`) | line buffer, what it runs | read and parse a line, run a command or a pipeline, kill, block | lines typed while a process runs, processes that end while the shell works |
| Programs (`Userland/Shell/commands.c`, `Userland/tests`) | — | counter, loop, cat, filter, wc, mvar, test_sync, test_mm | synchronisation through semaphores and pipes |
| Video, fonts, exceptions, libc, boot loader, tool chain | — | — | not part of the core logic |

Interaction: system calls, the timer and the keyboard enter the kernel through
interrupt gates (`idtLoader.c`), so a handler runs masked until its `iretq` or
until the switch it forces. The semaphores, the pipes and `waitProcess` block
and wake processes through `blockProcess` and `unblockProcess`. What makes each
part correct: no READY process is forgotten and one process runs; a wait ends
when, and only when, its target does; no wake-up is lost; programs that use a
name mean one semaphore; data in a pipe keeps its order; blocks of memory do not
overlap.

## 2. Modules

| Module | Models |
|---|---|
| `ProcessStates` | abstract specification: four states per process, one CPU, and the moves between the states; which READY process runs next is left open |
| `Scheduler` | process table, scheduler, exit path, boot, timer, Ctrl-C |
| `Semaphores` | semaphore manager and its system calls, over `ProcessStates` |
| `TestSync`, `Mvar` | the programs `test_sync.c` and `mvar`, composed with `Semaphores` |
| `Pipes` | descriptors and pipes as operators on a record of kernel state, over `Semaphores` |
| `Pipelines` | `A \| B` of the shell: the programs on the two ends, their exits, kills and Ctrl-C, composed with `Pipes` |
| `Keyboard` | the keyboard driver, over `Semaphores` |
| `InputQueue` | abstract specification of the keyboard's buffer: a queue edited at its end |
| `Console` | the shell's loop, its commands and its processes at the keyboard |
| `FirstFit`, `Buddy` | the two memory managers as operators on their state |
| `QueueADT` | the linked lists of `queueADT.c` |
| `Allocator` | abstract specification of a memory manager: areas in the pool that never overlap |
| `Heap` | either memory manager under `test_mm`, a queue and a process's stack |
| `MCScheduler`, `MCSemaphores`, `MCMvar`, `MCPipelines`, `MCConsole`, `MCHeap` | instances for TLC |
| `QueueLemmas` | facts about sequences used as queues, and about remainders |
| `SchedulerProofs` | theorems about `Scheduler`: invariants of the queues, the CPU and init |
| `SchedulerRefinement` | `Scheduler` implements `ProcessStates`; slots that are taken again, ageing, waits, the highest priority first |
| `SemaphoresProofs` | theorems about `Semaphores`: types, sleepers, wake-ups, names |
| `SyncProofs` | theorems about `TestSync` and `Mvar` |
| `PipelinesProofs` | theorems about `Pipelines`: order of bytes, units, end of file |
| `ConsoleProofs` | theorems about `Keyboard` and `Console`: the ring implements `InputQueue`, readers, type-ahead |
| `HeapProofs` | theorems about `Heap` with the first-fit manager: it implements `Allocator`, nothing leaks, free blocks merge, status; the queues in it are FIFO |

`ProcessStates` is what ties the modules together: `Scheduler` implements it, and the
semaphores, the pipes and the keyboard are built on its moves, so that what holds of
them holds for every schedule the scheduler produces, and for more.

### Scheduler

The variables are the kernel's: the table `processes`, `priorityQueues`,
`currentProcess` and `quantumsLeft`. `frame` says where in kernel code a process
was switched out, `waitTarget` holds the argument of the `waitProcess` it is
inside of, `boot` is the position of `main`. `awaited` and `stranded` are history
variables: no guard reads them. `awaited` says of a wait whether its caller's PID is still
in the target, was overwritten by a later caller's, or the target has ended.

Pure operators on a record of table and queues carry the helpers of the code
(`Schedule`, `UnscheduleProcess`, `UnblockProcess`, `AgedPCB`, `AgeQueue`,
`ApplyAging`, `Killed`), so that an action composes them in the order of the
handler. `SwitchContext` is the whole of `switchContext`: quantum, preemption
with restored priority, ageing pass, and the dispatch loop that drops BLOCKED
and EXITED entries.

System calls are one action each, because their gate masks interrupts. Three paths
are cut into steps:

* `waitProcess` stops at the switch inside `blockProcess` (`Wait`) and goes on when
  the process is dispatched again, still masked (`WaitReturn`, whose switch only uses
  up a quantum);
* `processLoader` calls `kill` outside any gate, with interrupts enabled:
  `ReturnFromEntry` and the `Exit...` actions are its writes one by one, with one step
  per queue in `unscheduleProcess`, and a tick may fall between any two;
* `main` enables interrupts before it creates init and the shell (kernel.c:87). It has no
  PCB, so a tick, once somebody is queued, takes the CPU from it for ever. `createProcess`
  is cut there between the PCB (`BootInit`, `BootShell`) and its queue entry
  (`BootQueueInit`, `BootQueueShell`): a tick in between leaves the shell READY in no
  queue.

A process that such a path has made READY and not yet queued is in `stranded`:
`ReadyIsQueued` and `HighestPriorityFirst` except it, and nothing else. It stays there
for good if the path was cut off, or until an unblock, a kill or a nice touches it.

On the last two paths one call of `queueADT` is one step. A tick inside
`removeFromQueue`, between the unlinking of the last node of a queue and the move of
`last` (queueADT.c:104), appends the process it interrupts to the unlinked node. That
process is the one that is exiting: it is READY, in no queue, and its exit is never
finished. `ReadyIsQueued` and `HighestPriorityFirst` are claimed with those calls whole.

What is abstracted: names, arguments and stack contents (a stack is there or
not); memory is granted, so creation fails only for want of a slot; the yield flag
has no variable, since each place that sets it forces a switch that clears it;
`quantumsLeft = 0` written for a process that leaves the CPU is overwritten by the
dispatch of the next one. The ageing counter stops at `AgingCap`, beyond which
the boost is the same. At its first call `switchContext` does not look at the
state of the process it takes; every queued process is READY then, so `Dispatch`
serves for that call too. Descriptors closed by `kill` belong to the pipes, whose
sleepers are here processes that some program blocked.

### ProcessStates and Semaphores

`Scheduler` is shown to implement `ProcessStates` (`ImplementsProcessStates`), so
what holds of the semaphores over `ProcessStates` holds for every schedule the
scheduler produces and for more. Each semaphore call is one action; `semWait` is
cut where it blocks (`SemWait`, then `SemResume`, the next turn of its loop). The
spinlock is taken and released inside masked calls, so no state between actions
holds it. Names are sequences of characters in a field of fixed length, because
what `memcpy` leaves behind in the field matters: `Written` copies the characters
and no terminator, `String` reads up to the first NUL. `Flagged` writes `openedBy`
at the index of the PID, which for the last PID is the first byte of the name. A name as
long as its field leaves no NUL in it; `Spells` then goes on comparing in the first byte of
the next semaphore's value, or in whatever follows the table (`NulAfterTable`). Initial
values are any integers, because `sys_sem_open` passes on what it is given: a semaphore
created with a negative value never blocks anybody and goes on falling, for `semWait` tests
for 0 only.
`handle` records what each program got from its last open of each name.

### TestSync and Mvar

Main creates two pairs of workers, waits for them in order, opens the semaphore
again and destroys it. A worker opens the semaphore, and in each iteration waits,
reads the counter, yields, writes it and posts. The exit of a worker wakes main, or
is cut off before it does (run `sched_lost_wait`), so main may be left waiting for
ever; the properties claim the end of the workers and not of main.

`mvar_wrapper` opens three semaphores, creates the writers and the readers and ends.
A writer waits for *empty*, then for the mutex, writes its letter, posts the mutex and
*full*; a reader mirrors it. The two statements that write the variable and its flag
are two steps. Both programs are runs of one instance: a behaviour starts with either.

### Pipes and Pipelines

A `Stream` has the fields of the C structure and two history fields, the number of
bytes written and the bytes read; the n-th byte written is the number n. `createPipe`,
`Read`, `Write` and `closeFD` are operators from a record of kernel state to the next.
A system call applies them as a whole, except that `read` and `write` are cut at each
`semWait` that blocks. `closeFD` is a *sequence* of records, one per write and per
spinlock: the exit of a process runs with interrupts enabled, so it ends after any
prefix (`CutOff`), possibly with a spinlock taken. A process that then wants the lock
spins with interrupts masked for ever (`Spin`, `Hang`): the machine stops, as the real
one would.

`Pipelines` has `execute_pipe` step by step, its failure paths included, and the
programs of `commands.c` reduced to the calls they make on their descriptors:
`Reads`, `Returns` and `Closes` say how they differ. The bytes a program computes are
left out. A writer makes calls of up to `MaxCall` bytes.

### Keyboard and Console

`Keyboard` has the ring with its two positions, the full test with C's remainder
(which for `to_write < to_read` is not positive), and one action per kind of key. A key
is a word, so that a line is short; letters' case is left out. `getKeyboardCharacter`
runs masked, so while nothing can be typed its loop either takes a character
(`TakeChar`) or uses up the semaphore and sleeps (`AwaitKey`). In `InputQueue` a key
enters up to `Burst` characters: the two of Ctrl-D or the spaces of a TAB, whichever
is more.

`Console` is the shell's main loop reading characters until a line end, the parsing of
`&`, `|` and arguments, `execute_command` and `execute_pipe` up to the wait and the
clearing of the input, and the commands `kill` and `block`, which work on a list that may
be stale. Pipes themselves are left to `Pipelines`. A behaviour starts with the shell
asleep in `getchar` and some words typed, anywhere in the ring.

### Heap

`FirstFit` keeps the list of blocks as a sequence in list order, with addresses as
offsets; `Buddy` keeps the array of node states and the order in each header. Sizes are
those of the C structures. `Heap` links one of them and runs `test_mm`, the operations of
a queue and the allocation and release of a stack in any order.

`nodeState` of the buddy manager has entries for the orders from 5 up of a pool of the
largest size (buddyManager.c:33), and `Nodes` is that array. Blocks of order 4 are granted
all the same, for 8 bytes or less, because the test for the smallest block never holds. The
pool of the kernel is of the largest size (kernel.c:35), so that there such a request
reads and writes beyond the array, in the counters that follow it. What happens then is not
modelled: `Defined` leaves those requests out of `HeapSpec`, and with them those above 2 GB,
for which the loop of `size_to_order` never ends. What the runs show of the buddy manager,
they show for calls inside its array, with a pool at the limit as in the kernel.

In `HeapExitSpec` a process ends by returning, with interrupts enabled: it unlinks a
node and frees it (`ExitUnlink`), frees its stack (`ExitStack`), each in the three steps of
`ExitFree`, and, EXITED by then, allocates the node for who waited (`ExitQueue`), which
a tick abandons after the split or after the mark. A split, a merge and the removal from
a list are one step each, although a tick may fall inside of them too. What an abandoned
allocation leaves, two free neighbours apart or a node that nobody holds, is lost for
good. The recursion of the code (`alloc_rec` and `free_rec` over the tree, the loops over blocks
and list nodes) is written as recursive functions, so that the provers can work with the
modules. `RoomAssumption`: the pool is larger than its first header, as
`createMemoryManager` has it. `StatusAddsUp` is one equation per manager (`FirstFitAddsUp`,
`BuddyAddsUp`).

## 3. Runs

Passing runs:

| Run | Question | Bounds |
|---|---|---|
| `sched_lifecycle` | every order of create, block, unblock, wait, kill, Ctrl-C, exit and tick: queues, CPU, init, waits, reuse of slots, refinement | 3 slots (init, shell, one more), 2 levels, at most 2 entries of a process in the queues: a stale one and a live one |
| `sched_priorities` | boosts, and dispatch in priority order with nice on processes in every state | 4 slots, 3 levels, threshold 2, so that entries climb level by level |
| `sched_turns` | no process waits for ever when the boost reaches the top | 4 slots, 3 levels, boost 2; fairness below |
| `sem_wakeups` | no lost wake-up, sleepers are listed, one semaphore per name | 2 semaphores, 2 names, the shorter a prefix of the longer, 2 calling processes, kills with restart |
| `sem_all_calls` | values under every operation, kills and blocks; names when destroyed slots are used again | 2 slots, 2 names of one length, 2 calling processes, initial values -1 and 1, values from -1 to 1 |
| `sync_programs` | test_sync: mutual exclusion, final value 0, termination; mvar: each letter read once, no standstill | the 2 pairs of the program, 1 iteration; 2 writers and 2 readers |
| `pipeline` | order of bytes, units against bytes, end of file, readers that end | a buffer of 2 bytes written one and a half times, calls of up to 2 bytes, one pipe, writers that close or do not close their end, readers and non-readers |
| `heap` | overlaps, leaks, merges, status, FIFO order, for both managers | a pool of 192 bytes, of which the buddy manager uses 128, its limit as in the kernel; three request sizes: below the alignment (for the first-fit manager), exact, and one that nearly fills; requests fail in many states |
| `console` | ring against queue, one reader, type-ahead, complete lines, the way back to the prompt | a ring of 6 cells from three start positions, so that it wraps and fills, lines that ask for each kind of command and one that is too long, 3 more keys, 2 processes |

Three slots suffice for the lifecycle because any process may be awaited, init
included: two processes waiting for one target, a waiter overwritten by another and
a waiter killed and replaced all occur. A quantum of 1
has both a tick that uses it up and a tick that preempts.

Runs that refute what the repository says of itself:

| Run | Says | Does |
|---|---|---|
| `sched_lost_wait` | process.c:94, processLoader unblocks the processes that waited | a tick after EXITED and before the wake-up never returns to the exiting process: the waiter stays BLOCKED |
| `pipe_semaphores` | fds.h:73, createPipe returns a negative value on failure | the semaphores are named by descriptor numbers; a number given back by one end while the other is open still names one, and the next pipe works without it |
| `heap_exit` | naiveManager.c:150, a block is merged with the next one if both are free | the exit of a process frees its stack with interrupts enabled; after a tick between mark and merge the block is in use again, and `mergeWithNext`, which looks at the next block only, makes it larger |

Behaviours that follow from the models and that no run is spent on:

* A second waiter's PID replaces the first one's in `waitPid`, and the first stays BLOCKED
  (process.c:348); `WaitersReleased` fails for this too.
* process.c:326 says wait blocks until the process ends; the PID of a killed waiter stays
  in `waitPid`, the process that gets this PID next is woken by that end, and its own
  wait returns although its target lives.
* kernel.c:110 says that main starts the first process and not the timer; the first tick
  after init is queued starts it, and what main had not done by then, the shell or its
  queue entry, is never done.
* semaphoreManager.h:45 says a semaphore is found by its name. It is not, and whoever opens
  the name next gets a second semaphore, in three cases: a slot whose last name was longer keeps
  its tail (semaphoreManager.c:57, `Written`); the `openedBy` flag of the last PID is the first
  byte of the name (:62, `Flagged`); a name of `S_MAX_NAME_LENGTH` characters is admitted and has no
  NUL (:44), so that the comparison runs into the value of the next semaphore (`Spells`).
* buddyManager.c:32 sizes the node array for "Max 4 MB"; with the 4 MB of kernel.c:35 a block of
  order 4 has its node beyond the array.
* README.md:315 says ageing solves starvation; the boost is capped, and a busy process
  of a level above it starves the others (`sched_turns` is therefore about a boost that
  reaches the top).
* A semaphore created with a negative value lets everybody through and falls on
  (semaphoreManager.c:54, :104); `NoneGoesNegative` is about the others.
* `createPipe` with one slot left keeps it (fds.c:157), and `semDestroy(-1)` releases a
  lock before the table (semaphoreManager.c:152).
* A writer that waits for room is not woken when the reader ends (fds.c:188).
* An exit cut off inside `closeFD` leaves a reader asleep, or a spinlock taken, which
  hangs the machine at the next call on that pipe. `ReadersEnd` is claimed for a write
  end that is marked closed.
* A program that closes its descriptor has the number closed again by its exit; a
  pipeline started in between would lose its end (process.c:401).
* RETURN, another key and BACKSPACE before the reader's turn leave a complete line in the
  ring and the reader asleep, and further RETURNs are ignored (keyboard.c:387).
  `LineIsTaken` leaves such rings out (`erased`).
* `queue` drops its element when no node is granted (queueADT.c:36): for the scheduler
  a READY process in no queue.
* A line of `MAX_BUFFER_SIZE` characters ends one past the shell's buffer (shell.c:477), and
  `block` searches its list for PID 0, which the list does not end with (shell.c:902).
* Killing a process of mvar inside its critical section stops the others; a second
  mvar starts with the semaphores as the first one left them (commands.c:547).

Other disagreements that reading the code for the model brought up, not among the
runs: init shares queue 1 in turn with processes of priority 1 (README.md:311 says
it never runs while another is READY); a boosted process that blocks keeps its
boost (README.md:309 says the priority is restored after its turn; `Preempted` is
the only place that does); a READY process that gets blocked keeps its queue entry
(scheduler.c:198 says it should not be there; the dispatch loop drops it); an exit
preempted after it freed its stack is queued again (process.c:385); an exit
preempted between the two writes of `unblockProcess` leaves the waiter READY in no
queue (`stranded`); `semSetValue` spends wake-ups on entries of ended processes
(semaphoreManager.c:174).

`SameNameSameSem` is claimed for names shorter than their field, of one length where slots are
used again, and without a caller that has the last PID: `sem_wakeups` and `sem_all_calls` keep
to that. The names the programs of the repository use are short; the last PID is reached when
100 processes live at once.

Two things the pipes simplify: in `Pipelines` the exit of a program is not nested under a
Ctrl-C that interrupts it, and `semPost` inside of `closeFD` is one step, although on the exit
path a tick may fall between its value and its wake-ups.

Each property of a passing run has a mutant in `PROJECT.json`: a definition of the
model changed the way a plausible bug would change the code (`...Unqueued`,
`...Skipped`, `...Silent`, `...NoWrap`, ...), under which TLC finds the property violated.

### Fairness

`FairSpec` (scheduler): the timer never stops while interrupts are on; kernel code
once entered runs on, for the CPU is not taken from it except by a tick; main
boots. Nothing is assumed of programs. For the tick the guard is
written in place of ENABLED, for TLC's speed. `FairSyncSpec`,
`FairPipelinesSpec`, `FairConsoleSpec`: no program stays READY for ever, which is what
`sched_turns` shows when the boost reaches the top (the shell starts its programs with
priority 3, the workers of test_sync have 5 and their main is a boost away); a program
on the CPU again and again makes a step (a turn is three ticks long); a woken `semWait`
goes on, being masked. Nothing is assumed of the user, of the body of `loop`, or of a
program that computes between two calls. These are strong fairness conditions written
as `[]<>CanStep => []<><<Step>>_vars`, again for TLC's speed.

## 4. Proofs

The theorems hold for every value of the constants that satisfies the assumptions
stated with them (`ProcessesAssumption`, `TablesAssumption`, ...), which TLC evaluates
in every run of the module. They are listed in `PROJECT.json`.

### Scheduler

`SchedulerProofs`, for any number of slots, levels up to 5, any quantum, threshold,
boost and workload:

* `TypeCorrect`: `Spec => []TypeOK`;
* `ReadyAlwaysQueued`: `Spec => []ReadyIsQueued`, with the exception `stranded` and one call of
  `queueADT` as one step;
* `OneRunning`: `Spec => []RunningIsCurrent`;
* `InitRunnable`: `Spec => []InitAlwaysRunnable`.

None of these is inductive alone. `SchedInv` adds: every process that is queued,
alive or named in a `waitPid` has a priority in range (so `Schedule` never refuses
it); frames of the exit path after the mark belong to EXITED processes; the RUNNING
process is the current one and is not lost by any operator; init is in user code,
not stranded, and before its creation nothing runs. `Sound` states this of a record
of table and queues, and one lemma per operator (`SoundSchedule`, `SoundUnschedule`,
`SoundUnblock`, `SoundKilled`, `SoundSwitch`, ...) shows that it is kept; the lemma
of an action composes them as the action composes the operators. `SoundSwitch` goes
through the ageing pass queue by queue and through the dispatch, where init, being
READY or RUNNING and queued, guarantees that there is someone to run.
`QueueLemmas` has the facts about `Append`, concatenation, suffixes and
`RemoveFirst` that this rests on.

`SchedulerRefinement` goes through the same actions once more with what each does to
the states of the processes (`Conforms`):

* `SchedulerImplementsStates`: `Spec => ImplementsProcessStates`, the refinement of
  `ProcessStates` with the states of the table and the current process. `SwitchHands`
  shows that a context switch hands the CPU to a process that was READY, or leaves it
  where it is; every other operator moves one process along one arrow;
* `EndedStaysEnded`: `Spec => NoResurrection`, an action property: an EXITED slot comes
  back only as a new process, with a stack and in user code;
* `BoostStaysBounded`: `Spec => []BoostBounded`;
* `WaitsStayRegistered`: `Spec => []WaitIsRegistered`, through `WaitInv`, which says it of
  every wait whose target lives, unless a later caller took its place in that target, and not
  only of a sleeping one: a waiter that something
  else woke is in `waitProcess` all the same, and may be blocked there again;
* `HighestRunsFirst`: `Spec => HighestPriorityFirst`, an action property of every switch, with the
  same exception.

For the last one, entries of a process in the wrong queue are the difficulty: `nice` leaves
the queues as they are, a preempted process falls back to its own priority, a process
blocked while READY keeps its entries. `OrderInv` says of each process that the ageing
counter accounts for its priority (`Tight`), or else that no entry of it is above that
priority (`Placed`). The ageing pass, followed queue by queue (`Stage`), leaves such a
process with no entry above its priority and, if it is queued at all, one exactly at it
(`Settled`, lemma `AgingSettles`); the dispatch loop then takes the highest queue with a READY
process. An entry that is too high can stay there only while the priority is not `Tight`, and
a process gets into that state only by losing its counter to a dispatch, after such a pass.
While main boots no pass runs, and everyone is `Settled` anyway.

### Semaphores and the programs on them

`SemaphoresProofs`:

* `NoValueFallsBelowZero`: `Spec => NoneGoesNegative`, an action property, for every operation
  and any initial values. It rests on `SemTypeCorrect` (types) alone: what a value is when
  `semWait` takes a unit is known from its test in the same step, also after a sleep;
* `SleepersStayListed`: if no program destroys a semaphore or blocks another process
  (`Orderly`), every process asleep in `semWait` is in the queue of its semaphore. The
  invariant `ListInv` adds that a process inside `semWait` is inside one in use;
* `WakeupsAreNotLost`: if, besides, no program sets a value (`Gentle`), nobody sleeps on a
  semaphore that has units;
* `NamesMeanOneSemaphore`: under `Keeping` (names shorter than their field, no caller with the
  last PID, and names of one length if semaphores are destroyed) programs that open a
  name share one semaphore. `NameInv` adds that no two slots in use have the same name, that
  what a field holds is what copies of names leave in it, and that a handle is of a slot with
  its name.

The hypotheses are conditions on the workload, and each is needed: a block by another
process makes a woken waiter sleep again, a semaphore destroyed under a sleeper forgets
it, `semSetValue` wakes entries of ended processes; without the conditions of `Keeping` the code
loses names as section 3 says. `sem_wakeups` runs a workload that satisfies all of them.

`SyncProofs`, for any number of pairs, iterations, writers and readers that fit in the
table (`TestAssumption`, `MvarAssumption`; test_sync leaves the last slot free and names are
shorter than their field, for the reasons above, and the three names of mvar are distinct):

* `WorkersExcludeEachOther`: `SyncSpec => []MutualExclusion`;
* `EveryLetterIsReadOnce`: `SyncSpec => []LettersAreReadOnce`;
* `FinalValueAlwaysZero`: `FairSyncSpec => []FinalValueIsZero` (the fairness is not used).

A behaviour is one of test_sync or one of mvar, and so is the inductive invariant
`SyncInv`. Its core is a count written without numbers: a unit of the mutex, or one process
between its wait and its post, and never both (`OneUnit`). For mvar (`Circulation`) one
unit is in *empty*, in *full* or with one process, and where it is says whether the variable
is read out, half written or holds a letter. Around it stand
the facts that the programs hold the semaphores they opened, that the wrapper has
opened all three before it creates a client, and those of `NameInv`, which these programs
keep although main of test_sync destroys its semaphore at the end: everybody else has
ended by then.

`FinalValueAlwaysZero` adds `Totals`: the counter is the sum of what the workers have added,
and the copy of the one between its read and its write is not stale, which is where mutual
exclusion enters. The sum is a function of partial sums that exists in every state, so that
no sum over a set has to be reasoned about; a write changes one share and the partial sums
from there on. When all have ended the shares are `Iterations` and its negative in turn
(`SharesCancel`), which leaves 0.

### Pipelines

`PipelinesProofs`, for any size of the buffer, number of descriptors, programs, calls of any
length and any number of pipelines:

* `UnitsAlwaysMatch`: `[]UnitsMatchData`;
* `AlwaysReadInOrder`: `[]ReadInOrder`;
* `EofAlwaysFinal`: `[]EofIsFinal`;

each of a behaviour of `PipelinesSpec` that satisfies two hypotheses. `OneAtATime` is about the
user: a pipeline is started when the processes of the one before have ended. It is needed,
because a number closed by a program and closed again by its exit takes an end of a
pipeline opened in between (process.c:401). `[]PipeHasSemaphores` is about the names of the
semaphores, and is what `pipe_semaphores` shows to fail when a number was given back while
the other end of its pipe was still in use. The run `pipeline` satisfies both.

The inductive invariant `PipeInv` has three parts. `DataOK` relates a stream to its history and
its semaphores: the buffer holds the bytes written and not yet read at their places modulo
the size, the positions are those counts modulo the size, the units make up the rest, and
streams with an end in use share no semaphore. `HoldersOK` says who has which end: at most
one process per end (`HeldOK`), counted as long as the end is open, which matters because
`closeFD` decrements step by step and may be cut off; what the stages of a program and of
`execute_pipe` know of the ends (`ProgramsOK`, `ShellOK`), among it that a reader past its loop
has read everything and that nobody is left to write. `PipeTypeOK` is the types. One lemma
per operator on a record of kernel state (`createPipe`, `Read`, `Write`, every prefix of
`closeFD`, ...) shows what it does to `DataOK`, and the lemma of an action composes them.
`RemainderIs`, `Division` and `QuotientOfProduct` of `QueueLemmas` are the arithmetic of
positions.

### Keyboard and shell

`ConsoleProofs`, for any size of the ring, tab size, words, lines and number of
processes above two:

* `RingIsAQueue`: `ConsoleSpec => ImplementsInputQueue`. The unread part of the ring is the
  queue. `FilledKeeps` is the heart: n characters entered at the write position, modulo
  the size, leave of the queue what `Kept` leaves, that is all of it, or what is beyond
  the last multiple of the size when the write position went past the read position.
  `KeptTwice` shows that the two characters of Ctrl-D are one such step;
* `KeyboardHasOneReader`: `ConsoleSpec => []OneReader`;
* `NothingTypedAheadIsRead`: `ConsoleSpec => []TypeAheadIsDropped`.

`ConsoleInv` says who can wake the shell and where: an entry of the shell in the queue of the
keyboard's semaphore means that it sleeps in `getchar` (`ShellListed`), a live process
that names it in `waitPid` is the one it waits for (`ShellAwaits`), and a shell past its wait
and awake has outlived that process (`ShellWoken`). With these, a process that reads is the
one the shell runs in the foreground (`UsersRead`), and the ring has no cell typed ahead
unless the shell is in its wait (`AheadInWait`), so that none can get into the line.
Each step is shown to keep `ConsoleInv` and to be a step of the queue, or none.

### Heap

`HeapProofs`, for a pool of any size, any alignment and header, any sizes requested (within
what an address expresses, `HeapAssumption`) and any elements queued, with the first-fit
manager linked (`manager = "naive"`; a kernel is built with one of the two):

* `FirstFitImplements`: `ImplementsAllocator`, the refinement of `Allocator`: every call grants
  an area of the pool apart from all others, headers included, or releases some, or
  changes nothing;
* `NothingLeaks`: `[]HeldIsLive`;
* `AlwaysFullyMerged`: `[]FullyMerged`;
* `StatusAlwaysAddsUp`: `[]StatusAddsUp`;
* `QueueIsFifo`: `QueueKeepsOrder`, an action property.

`HeapInv` has two sides. `PoolOK` is about the blocks: they fill the pool from end to end
(`Tiled`), so that the next block of the list is the physical neighbour, and no two free ones
are adjacent (`MergedBut`, with the places where a split or a mark may leave a pair until the
merge that follows). `HoldersOK` is about the users: what each holds is apart from what the
others hold (`Apart`), and what is in use is what is held and as large as was asked for
(`Backed`); the queue's nodes form a chain without repetition (`Linked`). `TakeEffect` and
`GiveEffect` say what `allocMemory`, with its split, and `freeMemory`, with its two merges, do to
the set of areas in use, and every action is one of these or a sequence of releases
(`FreeQueue`). The list is followed by `Chain`, a sequence of addresses that the tails spell,
of which `queue` appends the last and `removeFromQueue` takes out one.

Recursive functions over the naturals (`Sizes`, `Freed`, `Path`) are handled by least
counterexample (`MinInSet` of `QueueLemmas`) instead of an induction theorem.

### Only model-checked

* The liveness properties (`AgedProcessesRun`, `WorkersFinish`, `MvarGoesOn`, `ReadersEnd`,
  `LineIsTaken`, `ShellComesBack`): fairness and ENABLED are out of the prover's reach.
* The buddy manager: `HeldIsLive`, `FullyMerged`, `StatusAddsUp`, `QueueKeepsOrder` and the
  refinement of `Allocator` are proved for the first-fit manager and only checked for this one, whose
  offsets are powers of two (the provers have no theory of them) and whose search and
  release recurse over states of a whole tree.
* How far `[]PipeHasSemaphores`, a hypothesis of the theorems about pipelines, follows for one
  pipeline at a time: an exit cut off inside `closeFD` leaves semaphores of its pipe behind.

## 5. Plan, and what is not modelled

Every safety property that a passing run checks is a theorem, with the hypotheses stated
above and with the buddy manager excepted. What could follow: the buddy manager, with its
orders as a sequence of sizes each twice the one before, which takes powers of two out of
the proofs; pipelines that run next to each other in the background, for which `HoldersOK`
needs one record per pipeline.

Left out, and why:

* Video, fonts, exceptions, C library: drawing and formatting; no state another
  component reads. The `_sti` in the scroll (video.c:149) would let interrupts into
  system calls that print; the calls that are modelled print nothing while they hold
  shared state, except the handler of Ctrl-C before it kills.
* The shell's commands that only print (`ps`, `mem`, `help`, `man`, `echo`, `font`,
  `clear`); `nice` is an action of `Scheduler`.
* `setEOF`, `getReadPos`, `readFromFDAt` (fds.c) and functions registered for keys
  (keyboard.c:176): no program calls or registers them. `sys_exec` likewise.
* `test_processes`, `test_prio`: their calls are those `Scheduler` offers to any program.
* The tick counter and `sleep`.
* Boot loader and tool chain: third party.
