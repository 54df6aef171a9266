------------------------------ MODULE Keyboard ------------------------------
(***************************************************************************)
(* The keyboard driver of Kernel/drivers/keyboard.c: the interrupt handler *)
(* that edits a ring of characters and posts a semaphore for each, and     *)
(* getKeyboardCharacter, which waits on it for a line.  Both run with      *)
(* interrupts masked.  A key stands for a word, so that a line is a few    *)
(* keys long; case, and with it Shift and Caps Lock, is left out.  No      *)
(* program registers a function for a key.                                 *)
(***************************************************************************)
EXTENDS Semaphores

CONSTANTS
    BUFFER_SIZE,        \* cells of the ring
    TAB_SIZE,           \* characters between two tab stops
    Words               \* printable keys, each a word

ASSUME KeyboardAssumption == BUFFER_SIZE \in Nat \ {0, 1} /\ TAB_SIZE \in Nat \ {0}

C_KEY         == "C"
D_KEY         == "D"
NEW_LINE_CHAR == "NEW_LINE"
EOF           == "EOF"
SPACE         == "SPACE"

Printables == Words \cup {C_KEY, D_KEY}
Characters == Printables \cup {NEW_LINE_CHAR, EOF, SPACE}
Cells      == 0..(BUFFER_SIZE - 1)

keyboard_semaphore == 1

VARIABLES kb,           \* the ring, its positions, MODIFY_BUFFER and the Control key
          erased        \* history: a character was erased since one was entered last

kbVars == <<kb, erased>>

\* A cell, with a history field: entered while the shell waited for a process
Cell == [char : Characters, typedAhead : BOOLEAN]

Ring == [buffer : [Cells -> Cell], to_write : Cells, to_read : Cells,
         modify : BOOLEAN, control : BOOLEAN]

-----------------------------------------------------------------------------
SUB_MOD(a, b) == IF a - b < 0 THEN BUFFER_SIZE - b + a ELSE a - b

\* Mutant: the position wraps one cell too far
INC_MODTooFar(x) == IF x + 1 = BUFFER_SIZE THEN 1 ELSE x + 1

INC_MOD(x) == (x + 1) % BUFFER_SIZE

(***************************************************************************)
(* (to_write - to_read) % BUFFER_SIZE in C: the remainder of a negative    *)
(* number is not positive, so the test holds for one pair of positions.    *)
(***************************************************************************)
BUFFER_IS_FULL(k) == k.to_write - k.to_read = BUFFER_SIZE - 1

Empty(k)    == k.to_write = k.to_read
LastChar(k) == k.buffer[SUB_MOD(k.to_write, 1)].char

\* What is between the positions, oldest first
Unread(k) == [i \in 1..SUB_MOD(k.to_write, k.to_read) |->
                k.buffer[(k.to_read + i - 1) % BUFFER_SIZE].char]

\* getKeyboardCharacter has something to return: AWAIT_RETURN_KEY comes and goes
\* with MODIFY_BUFFER
LineReady(k) == ~Empty(k) /\ (k.modify => LastChar(k) \in {NEW_LINE_CHAR, EOF})

addCharToBuffer(k, char, ahead) ==
    [k EXCEPT !.buffer[k.to_write] = [char |-> char, typedAhead |-> ahead],
              !.to_write = INC_MOD(@)]

\* clearBuffer until nothing is left
Cleared(k) == [k EXCEPT !.to_write = k.to_read]

\* semPost on the keyboard's semaphore, n times
Posted(n) ==
    /\ sems' = [sems EXCEPT ![keyboard_semaphore].value = @ + n,
                            ![keyboard_semaphore].waiting = << >>]
    /\ Wake(Range(sems[keyboard_semaphore].waiting))
    /\ UNCHANGED <<inWait, handle>>

-----------------------------------------------------------------------------
(***************************************************************************)
(* keyboardHandler.  Only a process that is not inside a system call is    *)
(* interrupted; ahead says whether the shell waits for a process.          *)
(***************************************************************************)
Interrupt == inWait[cpu] = NoSem

\* The whole buffer is dropped, and the key, be it the release of Control
BufferFull ==
    /\ Interrupt /\ BUFFER_IS_FULL(kb)
    /\ kb' = [kb EXCEPT !.to_read = 0, !.to_write = 0]
    /\ UNCHANGED <<vars, erased>>

ControlKey(pressed) ==
    /\ Interrupt /\ ~BUFFER_IS_FULL(kb)
    /\ kb' = [kb EXCEPT !.control = pressed]
    /\ UNCHANGED <<vars, erased>>

\* Mutant: a reader is not told of the end of the file
handleCtrlDSilent(ahead) ==
    /\ Interrupt /\ ~BUFFER_IS_FULL(kb) /\ kb.control
    /\ kb' = IF Empty(kb) THEN addCharToBuffer(kb, EOF, ahead)
             ELSE addCharToBuffer(addCharToBuffer(kb, NEW_LINE_CHAR, ahead), EOF, ahead)
    /\ erased' = FALSE
    /\ UNCHANGED vars

handleCtrlD(ahead) ==
    /\ Interrupt /\ ~BUFFER_IS_FULL(kb) /\ kb.control
    /\ IF Empty(kb)
       THEN kb' = addCharToBuffer(kb, EOF, ahead) /\ Posted(1)
       ELSE /\ kb' = addCharToBuffer(addCharToBuffer(kb, NEW_LINE_CHAR, ahead), EOF, ahead)
            /\ Posted(2)
    /\ erased' = FALSE

\* A key that is no shortcut is looked at while a program reads, or was killed reading
Typed(key) ==
    /\ Interrupt /\ ~BUFFER_IS_FULL(kb) /\ kb.modify
    /\ ~(kb.control /\ key \in {C_KEY, D_KEY})

WordKey(key, ahead) ==
    /\ Typed(key)
    /\ kb' = addCharToBuffer(kb, key, ahead)
    /\ erased' = FALSE
    /\ Posted(1)

\* A second RETURN in a row is ignored
ReturnKey(ahead) ==
    /\ Typed("RETURN")
    /\ Empty(kb) \/ LastChar(kb) # NEW_LINE_CHAR
    /\ kb' = addCharToBuffer(kb, NEW_LINE_CHAR, ahead)
    /\ erased' = FALSE
    /\ Posted(1)

\* Spaces up to the tab stop, wherever the cursor is, or until the buffer is full
Spaced(k, n, ahead) ==
    [k EXCEPT !.buffer = [i \in Cells |-> IF SUB_MOD(i, k.to_write) < n
                                          THEN [char |-> SPACE, typedAhead |-> ahead] ELSE @[i]],
              !.to_write = (@ + n) % BUFFER_SIZE]

TabKey(ahead) ==
    /\ Typed("TAB")
    /\ \E n \in 1..TAB_SIZE :
         /\ \A m \in 1..(n - 1) : ~BUFFER_IS_FULL(Spaced(kb, m, ahead))
         /\ kb' = Spaced(kb, n, ahead)
    /\ erased' = FALSE
    /\ Posted(1)

\* The character before the write position goes, a complete line's end too
BackspaceKey ==
    /\ Typed("BACKSPACE")
    /\ ~Empty(kb)
    /\ kb' = [kb EXCEPT !.to_write = SUB_MOD(@, 1)]
    /\ erased' = TRUE
    /\ UNCHANGED vars

-----------------------------------------------------------------------------
(***************************************************************************)
(* getKeyboardCharacter for the process on the CPU.  Nothing is entered    *)
(* while it runs, so with no line ready its loop takes every unit of the   *)
(* semaphore and sleeps.  A process that comes back from semWait looks     *)
(* again once it got a unit.                                               *)
(***************************************************************************)
Again   == inWait[cpu] = keyboard_semaphore
Options == IF Again THEN kb ELSE [kb EXCEPT !.modify = TRUE]
MayTake == LineReady(Options) /\ (Again => sems[keyboard_semaphore].value # 0)

TakeChar ==
    /\ MayTake
    /\ kb' = [kb EXCEPT !.to_read = INC_MOD(@), !.modify = FALSE]
    /\ sems' = IF Again THEN [sems EXCEPT ![keyboard_semaphore].value = @ - 1] ELSE sems
    /\ inWait' = [inWait EXCEPT ![cpu] = NoSem]
    /\ UNCHANGED <<procVars, handle, erased>>

AwaitKey ==
    /\ ~MayTake
    /\ kb' = Options
    /\ sems' = [sems EXCEPT ![keyboard_semaphore].value = 0,
                            ![keyboard_semaphore].waiting = Append(@, cpu)]
    /\ inWait' = [inWait EXCEPT ![cpu] = keyboard_semaphore]
    /\ BlockSelf
    /\ UNCHANGED <<handle, erased>>

\* initKeyboard and a ring in which a reader at position r left the words typed
initKeyboard(typed, r) ==
    /\ kb = [buffer   |-> [i \in Cells |->
                             [char |-> IF SUB_MOD(i, r) < Len(typed) THEN typed[SUB_MOD(i, r) + 1]
                                       ELSE SPACE,
                              typedAhead |-> FALSE]],
             to_write |-> (r + Len(typed)) % BUFFER_SIZE, to_read |-> r,
             modify   |-> TRUE, control |-> FALSE]
    /\ erased = FALSE
=============================================================================
