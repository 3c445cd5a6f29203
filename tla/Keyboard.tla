------------------------------ MODULE Keyboard ------------------------------
(***************************************************************************)
(* The keyboard buffer of src/kernel/drivers/keyboard.c: a ring that the   *)
(* interrupt handler fills and the shell drains.  Nothing locks it: the    *)
(* handler may run between any two steps of keyboard_getchar.              *)
(*                                                                         *)
(* The handler runs with interrupts off, so that storing a character is    *)
(* one step.  keyboard_getchar is two: it reads the slot at buffer_tail,   *)
(* then moves buffer_tail.                                                 *)
(***************************************************************************)
EXTENDS Integers, Sequences

CONSTANTS
    KEYBOARD_BUFFER_SIZE,
    Char                    \* what keymap yields, apart from 0

ASSUME KeyboardAssumption ==
    /\ KEYBOARD_BUFFER_SIZE \in Nat \ {0}
    /\ 0 \notin Char

VARIABLES
    keyboard_buffer,
    buffer_head,        \* where the handler stores next
    buffer_tail,        \* where the shell reads next
    reading,            \* keyboard_getchar has read the slot, tail unmoved
    c,                  \* what it returned last
    lost                \* characters were lost since the shell last looked
                        \* at the buffer (history)

kbd_vars == <<keyboard_buffer, buffer_head, buffer_tail, reading, c, lost>>

Slot == 0 .. KEYBOARD_BUFFER_SIZE - 1

NUL == 0

Advance(i) == (i + 1) % KEYBOARD_BUFFER_SIZE

KeyboardInit ==
    /\ keyboard_buffer = [i \in Slot |-> NUL]
    /\ buffer_head = 0
    /\ buffer_tail = 0
    /\ reading = FALSE
    /\ c = NUL
    /\ lost = FALSE

\* The first slot that is still to be read, and how many there are.
FirstUnread == IF reading THEN Advance(buffer_tail) ELSE buffer_tail

Unread ==
    IF buffer_head >= FirstUnread
    THEN buffer_head - FirstUnread
    ELSE buffer_head - FirstUnread + KEYBOARD_BUFFER_SIZE

keyboard_has_input == buffer_head # buffer_tail

\* The shell calls keyboard_has_input.
LookForInput ==
    /\ lost' = FALSE
    /\ UNCHANGED <<keyboard_buffer, buffer_head, buffer_tail, reading, c>>

\* keyboard_irq_handler's use of the buffer, for a scancode that maps to a
\* character.  There is no test for a full buffer.
StoreChar(ch) ==
    /\ keyboard_buffer' = [keyboard_buffer EXCEPT ![buffer_head] = ch]
    /\ buffer_head' = Advance(buffer_head)
    /\ lost' = (lost \/ Unread = KEYBOARD_BUFFER_SIZE - 1)
    /\ UNCHANGED <<buffer_tail, reading, c>>

\* keyboard_getchar, which tests for input and reads the slot, and then
\* moves buffer_tail; or finds nothing and returns 0.
ReadSlot_AtHead ==
    /\ ~ reading
    /\ keyboard_has_input
    /\ c' = keyboard_buffer[(buffer_head + KEYBOARD_BUFFER_SIZE - 1)
                                % KEYBOARD_BUFFER_SIZE]
    /\ reading' = TRUE
    /\ lost' = FALSE
    /\ UNCHANGED <<keyboard_buffer, buffer_head, buffer_tail>>

ReadSlot ==
    /\ ~ reading
    /\ keyboard_has_input
    /\ c' = keyboard_buffer[buffer_tail]
    /\ reading' = TRUE
    /\ lost' = FALSE
    /\ UNCHANGED <<keyboard_buffer, buffer_head, buffer_tail>>

MoveTail ==
    /\ reading
    /\ buffer_tail' = Advance(buffer_tail)
    /\ reading' = FALSE
    /\ UNCHANGED <<keyboard_buffer, buffer_head, c, lost>>

ReadNothing ==
    /\ ~ reading
    /\ ~ keyboard_has_input
    /\ c' = NUL
    /\ lost' = FALSE
    /\ UNCHANGED <<keyboard_buffer, buffer_head, buffer_tail, reading>>

KeyboardNext ==
    \/ LookForInput \/ ReadSlot \/ MoveTail \/ ReadNothing
    \/ \E ch \in Char : StoreChar(ch)

KeyboardSpec == KeyboardInit /\ [][KeyboardNext]_kbd_vars
-----------------------------------------------------------------------------
KeyboardTypeOK ==
    /\ keyboard_buffer \in [Slot -> Char \cup {NUL}]
    /\ buffer_head \in Slot
    /\ buffer_tail \in Slot
    /\ reading \in BOOLEAN
    /\ c \in Char \cup {NUL}
    /\ lost \in BOOLEAN

UnreadChars ==
    [i \in 1 .. Unread |->
        keyboard_buffer[(FirstUnread + i - 1) % KEYBOARD_BUFFER_SIZE]]

Queue == INSTANCE KeyQueue
    WITH Capacity <- KEYBOARD_BUFFER_SIZE - 1, queue <- UnreadChars, got <- c

(* The ring implements KeyQueue, with the handler interrupting the shell   *)
(* anywhere, inside keyboard_getchar included: first in, first out, each   *)
(* character once, and a 0 only from an empty queue, until one character   *)
(* more than KEYBOARD_BUFFER_SIZE - 1 waits and empties the buffer.        *)
KeyQueueRefinement == Queue!QueueSpec

(* "head == tail means buffer is empty": when keyboard_has_input says that *)
(* there is nothing, the shell has been given every character that came.   *)
(* It does not hold: after KEYBOARD_BUFFER_SIZE characters that nobody     *)
(* read, head is back at tail, and all of them are lost.                   *)
EmptyMeansRead == ~ keyboard_has_input /\ ~ reading => ~ lost
=============================================================================
