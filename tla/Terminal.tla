------------------------------ MODULE Terminal ------------------------------
(***************************************************************************)
(* The screen (video/vga.c), the line that is being typed (core/console.c) *)
(* and the shell's loop around them (shell/shell.c), under src/kernel.     *)
(* Interrupt handlers never touch any of it, so that handling a character  *)
(* is one step.                                                            *)
(*                                                                         *)
(* Colours are left out.  A command other than clear and echo is what it   *)
(* prints, one of Outputs.                                                 *)
(***************************************************************************)
EXTENDS Integers, Sequences, SequencesExt, FiniteSetsExt

CONSTANTS
    VGA_WIDTH, VGA_HEIGHT,
    CONSOLE_BUFFER_SIZE,
    MAX_ARGS,
    Char,               \* characters of the keyboard but Enter and backspace
    SPACE, NL, BS, NUL,
    LOGO,               \* boot_logo
    PROMPT,             \* "kernel> "
    CLEAR, ECHO,        \* the names of those two commands
    Outputs

Cells == VGA_WIDTH * VGA_HEIGHT

\* The prompt is text on one line, and it and the longest line typed after it
\* fit on the screen, wherever in a row the last command's output ended.
ASSUME TerminalAssumption ==
    /\ VGA_WIDTH \in Nat \ {0}
    /\ VGA_HEIGHT \in Nat \ {0}
    /\ CONSOLE_BUFFER_SIZE \in Nat \ {0}
    /\ MAX_ARGS \in Nat \ {0}
    /\ SPACE \in Char
    /\ Char \cap {NL, BS, NUL} = {}
    /\ NL # BS /\ NUL \notin {NL, BS}
    /\ \A str \in {LOGO, PROMPT} \cup Outputs : str \in Seq(Range(str))
    /\ PROMPT # <<>> /\ Range(PROMPT) \cap {NL, BS} = {}
    /\ VGA_WIDTH - 1 + Len(PROMPT) + CONSOLE_BUFFER_SIZE - 1 < Cells

VARIABLES
    screen,         \* [row, column, buffer, cursor: what the hardware shows]
    line_buffer,
    line_length,
    argv            \* what execute_command parsed last

term_vars == <<screen, line_buffer, line_length, argv>>
-----------------------------------------------------------------------------
(* video/vga.c: the screen after each call. *)

Position(s) == s.row * VGA_WIDTH + s.column

vga_update_cursor(s) == [s EXCEPT !.cursor = Position(s)]

vga_scroll_Late(s) ==
    IF s.row <= VGA_HEIGHT THEN s ELSE [s EXCEPT !.row = VGA_HEIGHT - 1]

vga_scroll(s) ==
    IF s.row < VGA_HEIGHT THEN s
    ELSE [s EXCEPT
             !.row = VGA_HEIGHT - 1,
             !.buffer = [i \in 0 .. Cells - 1 |->
                            IF i + VGA_WIDTH < Cells THEN @[i + VGA_WIDTH] ELSE SPACE]]

vga_clear(s) ==
    [s EXCEPT !.row = 0, !.column = 0, !.buffer = [i \in 0 .. Cells - 1 |-> SPACE]]

\* The hardware cursor stays where it was.
NewLine(s) == vga_scroll([s EXCEPT !.column = 0, !.row = @ + 1])

StepBack_InRow(s) ==
    IF s.column > 0 THEN [s EXCEPT !.column = @ - 1] ELSE s

StepBack(s) ==
    IF s.column > 0 THEN [s EXCEPT !.column = @ - 1]
    ELSE IF s.row > 0 THEN [s EXCEPT !.row = @ - 1, !.column = VGA_WIDTH - 1]
    ELSE s

Stored(s, ch) == [s EXCEPT !.buffer[Position(s)] = ch]

StepForward(s) ==
    IF s.column + 1 >= VGA_WIDTH
    THEN [s EXCEPT !.column = 0, !.row = @ + 1]
    ELSE [s EXCEPT !.column = @ + 1]

vga_putchar(s, ch) ==
    CASE ch = NL -> NewLine(s)
      [] ch = BS -> vga_update_cursor(Stored(StepBack(s), SPACE))
      [] OTHER   -> vga_update_cursor(vga_scroll(StepForward(Stored(s, ch))))

vga_print(s, str) ==
    LET Printed[n \in 0 .. Len(str)] ==
            IF n = 0 THEN s ELSE vga_putchar(Printed[n - 1], str[n])
    IN  Printed[Len(str)]
-----------------------------------------------------------------------------
(* core/console.c and the commands. *)

EmptyLine == [i \in 0 .. CONSOLE_BUFFER_SIZE - 1 |-> NUL]

\* The string that starts at p in buf.
StringAt(buf, p) ==
    LET end == Min({q \in DOMAIN buf : q >= p /\ buf[q] = NUL})
    IN  [i \in 1 .. end - p |-> buf[p + i - 1]]

\* One round of the loop of parse_arguments: skip the spaces, note where the
\* word starts, and put a NUL over the space that ends it.
NextWord_Unended(st) ==
    LET start == Min({q \in DOMAIN st.buf : q >= st.at /\ st.buf[q] # SPACE})
        end == Min({q \in DOMAIN st.buf : q >= start /\ st.buf[q] \in {SPACE, NUL}})
    IN  IF st.buf[start] = NUL
        THEN [st EXCEPT !.at = start]
        ELSE [st EXCEPT !.at = end, !.starts = Append(@, start)]

NextWord(st) ==
    LET start == Min({q \in DOMAIN st.buf : q >= st.at /\ st.buf[q] # SPACE})
        end == Min({q \in DOMAIN st.buf : q >= start /\ st.buf[q] \in {SPACE, NUL}})
    IN  IF st.buf[start] = NUL
        THEN [st EXCEPT !.at = start]
        ELSE [at |-> IF st.buf[end] = NUL THEN end ELSE end + 1,
              buf |-> [st.buf EXCEPT ![end] = NUL],
              starts |-> Append(st.starts, start)]

parse_arguments(input) ==
    LET Parsed[n \in 0 .. MAX_ARGS] ==
            IF n = 0 THEN [buf |-> input, at |-> 0, starts |-> <<>>]
            ELSE IF Parsed[n - 1].buf[Parsed[n - 1].at] = NUL THEN Parsed[n - 1]
            ELSE NextWord(Parsed[n - 1])
        last == Parsed[MAX_ARGS]
    IN  [i \in DOMAIN last.starts |-> StringAt(last.buf, last.starts[i])]

\* cmd_echo: the arguments with a space between two of them.
Echoed(args) ==
    LET Upto[n \in 1 .. Len(args)] ==
            IF n = 1 THEN <<>>
            ELSE Upto[n - 1] \o (IF n > 2 THEN <<SPACE>> ELSE <<>>) \o args[n]
    IN  Append(Upto[Len(args)], NL)

\* What execute_command leaves on screen s, for each output a command may have.
execute_command(s, args) ==
    IF args = <<>> THEN {s}
    ELSE IF args[1] = CLEAR THEN {vga_clear(s)}
    ELSE IF args[1] = ECHO THEN {vga_print(s, Echoed(args))}
    ELSE {vga_print(s, out) : out \in Outputs}
-----------------------------------------------------------------------------
(* kernel_boot leaves a cleared screen with the logo, shell_init prompts.  *)
TermInit ==
    /\ screen = vga_print([row |-> 0, column |-> 0, cursor |-> 0,
                           buffer |-> [i \in 0 .. Cells - 1 |-> SPACE]],
                          LOGO \o PROMPT)
    /\ line_buffer = EmptyLine
    /\ line_length = 0
    /\ argv = <<>>

\* console_handle_char of a character, or of the 0 that keyboard_getchar
\* returns when the buffer filled up, and so emptied itself, after
\* shell_update looked ...
HandleChar(ch) ==
    /\ line_length < CONSOLE_BUFFER_SIZE - 1
    /\ line_buffer' = [line_buffer EXCEPT ![line_length] = ch]
    /\ line_length' = line_length + 1
    /\ screen' = vga_putchar(screen, ch)
    /\ UNCHANGED argv

\* ... that does not fit ...
RefuseChar ==
    /\ line_length >= CONSOLE_BUFFER_SIZE - 1
    /\ UNCHANGED term_vars

\* ... and of a backspace.
HandleBackspace ==
    /\ line_length > 0
    /\ line_length' = line_length - 1
    /\ line_buffer' = [line_buffer EXCEPT ![line_length - 1] = NUL]
    /\ screen' = vga_putchar(screen, BS)
    /\ UNCHANGED argv

IgnoreBackspace ==
    /\ line_length = 0
    /\ UNCHANGED term_vars

\* shell_update of Enter.
HandleEnter ==
    LET args == parse_arguments(line_buffer) IN
    /\ argv' = args
    /\ \E s \in execute_command(vga_putchar(screen, NL), args) :
          screen' = vga_print(s, PROMPT)
    /\ line_buffer' = EmptyLine
    /\ line_length' = 0

TermNext ==
    \/ HandleEnter \/ HandleBackspace \/ IgnoreBackspace
    \/ RefuseChar \/ \E ch \in Char \cup {NUL} : HandleChar(ch)

TermSpec == TermInit /\ [][TermNext]_term_vars
-----------------------------------------------------------------------------
TermTypeOK ==
    /\ screen.row \in 0 .. VGA_HEIGHT - 1
    /\ screen.column \in 0 .. VGA_WIDTH - 1
    /\ DOMAIN screen.buffer = 0 .. Cells - 1
    /\ line_length \in 0 .. CONSOLE_BUFFER_SIZE - 1
    /\ line_buffer \in [0 .. CONSOLE_BUFFER_SIZE - 1 -> Char \cup {NUL}]
    /\ Len(argv) <= MAX_ARGS

\* What was typed and not rubbed out.
Line == [i \in 1 .. line_length |-> line_buffer[i - 1]]

(* What the user sees is the line: it and the prompt stand right before    *)
(* the cursor that the hardware shows, after any typing, rubbing out       *)
(* across the edge of a row, scrolling, and output that left the cursor in *)
(* the middle of a row.  Enter runs it up to its first 0, if it has one.   *)
LineOnScreen ==
    LET seen == PROMPT \o Line IN
    /\ screen.cursor = Position(screen)
    /\ screen.cursor >= Len(seen)
    /\ \A i \in DOMAIN seen :
          screen.buffer[screen.cursor - Len(seen) + i - 1] = seen[i]

Editor == INSTANCE LineEditor
    WITH Blank <- SPACE, End <- NUL, Capacity <- CONSOLE_BUFFER_SIZE - 1,
         MaxWords <- MAX_ARGS, text <- Line, words <- argv

(* The console and parse_arguments, which cuts the words out of the line   *)
(* in place, implement LineEditor: no character of an earlier line or one  *)
(* that was rubbed out ever reaches a command, and a command's arguments   *)
(* are the words of the line, as far as the first 0 in it.                 *)
LineEditorRefinement == Editor!EditorSpec
=============================================================================
