----------------------------- MODULE Interrupts -----------------------------
(***************************************************************************)
(* The running kernel: one processor on which the main program (the sleeps *)
(* of kernel_boot, then the loop of kernel_main around shell_update) is    *)
(* interrupted by the timer, the keyboard and other devices.  The          *)
(* components are Pic (controllers), Clock (time.c) and Keyboard           *)
(* (keyboard.c); this module adds the processor, the interrupt entry and   *)
(* isr_handler (boot/isr_stubs.s, isr_common_stub.s, core/idt.c), and the  *)
(* main program.                                                           *)
(*                                                                         *)
(* An interrupt is taken between two instructions of the main program, and *)
(* before the next instruction when one is pending.  Devices are slow      *)
(* next to the processor: between two steps of the main program each       *)
(* source fires at most once (quota).  hlt sleeps until an interrupt is    *)
(* taken; one that is taken just before it does not count.                 *)
(***************************************************************************)
EXTENDS Pic, Clock, Keyboard, FiniteSets

CONSTANTS
    Scancodes,      \* what the keyboard sends
    keymap,         \* scancode -> character, or 0
    Breaks,         \* the scancodes with bit 7 set (key releases)
    NEWLINE,        \* the character that makes the shell run a command
    BootSleeps,     \* ticks of the sleeps of kernel_boot, in order
    CommandSleep    \* ticks of the sleep of shutdown and reboot

ASSUME InterruptsAssumption ==
    /\ {0, 1} \subseteq Lines
    /\ Scancodes \subseteq 0 .. 255
    /\ keymap \in [Scancodes -> Char \cup {NUL}]
    /\ Breaks \subseteq Scancodes
    /\ BootSleeps \in Seq(0 .. TICK_MOD - 1)
    /\ CommandSleep \in 0 .. TICK_MOD - 1

VARIABLES
    iflag,      \* IF: the processor takes interrupts
    handlers,   \* the handlers that run, the innermost last
    pc,         \* where the main program is
    todo,       \* sleeps that kernel_boot still has to do
    port,       \* the scancode in the keyboard controller, or Empty
    quota       \* the sources that may still fire before the next main step

cpu_vars == <<iflag, handlers, pc, todo>>
device_vars == <<port, quota>>
vars == <<pic_vars, clock_vars, kbd_vars, cpu_vars, device_vars>>

TIMER == 0
KEYBOARD == 1
SPURIOUS == 7       \* what the master reports when a request went away
Empty == -1

Sources == Lines \cup {SPURIOUS}

Init ==
    /\ PicInit /\ ClockInit /\ KeyboardInit
    /\ iflag = TRUE             \* kernel_boot has executed sti
    /\ handlers = <<>>
    /\ pc = "boot"
    /\ todo = BootSleeps
    /\ port = Empty
    /\ quota = Sources
-----------------------------------------------------------------------------
(* Devices. *)

Device(l) ==
    /\ l \in quota \cap Lines
    /\ Raise(l)
    /\ quota' = quota \ {l}
    /\ UNCHANGED <<clock_vars, kbd_vars, cpu_vars>>

\* The timer and every device that the kernel has no driver for.
DeviceFires(l) == l # KEYBOARD /\ Device(l) /\ UNCHANGED port

\* The keyboard controller sends the next scancode when the last was read.
KeyPress(s) ==
    /\ port = Empty
    /\ Device(KEYBOARD)
    /\ port' = s
-----------------------------------------------------------------------------
(* Interrupt entry and isr_handler. *)

\* idt_set_gate makes every entry an interrupt gate (0x8E), which clears IF;
\* a trap gate (0x8F) would leave it.
GateIF_Trap == TRUE

GateIF == FALSE

Wake_NoPoll(p) ==
    CASE p = "sleep_halted" -> "sleep"
      [] p = "halted"       -> "hlt"
      [] OTHER              -> p

Wake(p) ==
    CASE p = "sleep_halted" -> "sleep"
      [] p = "halted"       -> "poll"
      [] OTHER              -> p

Enter(l) ==
    /\ iflag
    /\ handlers' = Append(handlers, [line |-> l, at |-> "body"])
    /\ iflag' = GateIF
    /\ pc' = Wake(pc)
    /\ UNCHANGED <<todo, clock_vars, kbd_vars>>

TakeInterrupt(l) ==
    /\ Acknowledge(l)
    /\ Enter(l)
    /\ UNCHANGED device_vars

\* A request that went away before it was acknowledged: the controller
\* reports its last line, and has nothing in service.
TakeSpurious ==
    /\ SPURIOUS \in quota
    /\ Enter(SPURIOUS)
    /\ quota' = quota \ {SPURIOUS}
    /\ UNCHANGED <<port, pic_vars>>

Top == handlers[Len(handlers)]

SetTop(at) ==
    handlers' = [handlers EXCEPT ![Len(handlers)] = [@ EXCEPT !.at = at]]

keyboard_irq_handler_Unread ==
    LET ch == keymap[port] IN
        /\ IF port \notin Breaks /\ ch # NUL
           THEN StoreChar(ch) ELSE UNCHANGED kbd_vars
        /\ port' = IF port \in Breaks THEN port ELSE Empty
        /\ pic_send_eoi(KEYBOARD)

keyboard_irq_handler ==
    LET ch == keymap[port] IN
        /\ IF port \notin Breaks /\ ch # NUL
           THEN StoreChar(ch) ELSE UNCHANGED kbd_vars
        /\ port' = Empty
        /\ pic_send_eoi(KEYBOARD)

\* The switch of isr_handler.
DispatchKeyboard ==
    /\ Top.line = KEYBOARD
    /\ keyboard_irq_handler
    /\ UNCHANGED clock_vars

DispatchTimer ==
    /\ Top.line = TIMER
    /\ timer_tick
    /\ UNCHANGED <<pic_vars, kbd_vars, port>>

DispatchOther ==
    /\ Top.line \notin {TIMER, KEYBOARD}
    /\ UNCHANGED <<pic_vars, clock_vars, kbd_vars, port>>

Dispatch ==
    /\ handlers # <<>> /\ Top.at = "body"
    /\ DispatchKeyboard \/ DispatchTimer \/ DispatchOther
    /\ SetTop("eoi")
    /\ UNCHANGED <<iflag, pc, todo, quota>>

\* The end of isr_handler.
EndOfInterrupt ==
    /\ handlers # <<>> /\ Top.at = "eoi"
    /\ pic_send_eoi(Top.line)
    /\ SetTop("iret")
    /\ UNCHANGED <<iflag, pc, todo, clock_vars, kbd_vars, device_vars>>

\* The end of isr_common_stub: the saved flags had IF set.
Return ==
    /\ handlers # <<>> /\ Top.at = "iret"
    /\ handlers' = SubSeq(handlers, 1, Len(handlers) - 1)
    /\ iflag' = TRUE
    /\ UNCHANGED <<pc, todo, pic_vars, clock_vars, kbd_vars, device_vars>>

Handler == Dispatch \/ EndOfInterrupt \/ Return
-----------------------------------------------------------------------------
(* The main program. *)

\* A step of the main program from p to q.
MainStep(p, q) ==
    /\ pc = p /\ pc' = q
    /\ handlers = <<>>
    /\ ~ (iflag /\ INTR)
    /\ quota' = Sources
    /\ UNCHANGED <<handlers, pic_vars, port>>

BootSleep ==
    /\ todo # <<>>
    /\ MainStep("boot", "sleep")
    /\ BeginSleep(Head(todo))
    /\ todo' = Tail(todo)
    /\ UNCHANGED <<iflag, kbd_vars>>

BootDone ==
    /\ todo = <<>>
    /\ MainStep("boot", "poll")
    /\ UNCHANGED <<iflag, todo, clock_vars, kbd_vars>>

\* The loop of sleep.  The sleeps of kernel_boot return to it, the others to
\* the shell, which has read a newline by then.
SleepAgain ==
    /\ StillWaiting
    /\ MainStep("sleep", "sleep_hlt")
    /\ UNCHANGED <<iflag, todo, clock_vars, kbd_vars>>

AfterSleep == IF c = NEWLINE THEN "poll" ELSE "boot"

SleepReturns ==
    /\ ~ StillWaiting
    /\ MainStep("sleep", AfterSleep)
    /\ EndSleep
    /\ UNCHANGED <<iflag, todo, kbd_vars>>

Halt(p, q) ==
    /\ MainStep(p, q)
    /\ UNCHANGED <<iflag, todo, clock_vars, kbd_vars>>

SleepHalts == Halt("sleep_hlt", "sleep_halted")

\* shell_update and the hlt of kernel_main.
PollInput_NoTest ==
    /\ MainStep("poll", "getchar")
    /\ LookForInput
    /\ UNCHANGED <<iflag, todo, clock_vars>>

PollInput ==
    /\ keyboard_has_input
    /\ MainStep("poll", "getchar")
    /\ LookForInput
    /\ UNCHANGED <<iflag, todo, clock_vars>>

PollEmpty ==
    /\ ~ keyboard_has_input
    /\ MainStep("poll", "hlt")
    /\ LookForInput
    /\ UNCHANGED <<iflag, todo, clock_vars>>

LoopHalts == Halt("hlt", "halted")

\* keyboard_getchar looks for input once more.  When the buffer was filled
\* up and emptied itself in between, it returns 0, which shell_update hands
\* to console_handle_char like any character.
GetcharNothing ==
    /\ MainStep("getchar", "process")
    /\ ReadNothing
    /\ UNCHANGED <<iflag, todo, clock_vars>>

GetcharRead ==
    /\ MainStep("getchar", "getchar")
    /\ ReadSlot
    /\ UNCHANGED <<iflag, todo, clock_vars>>

GetcharMove ==
    /\ MainStep("getchar", "process")
    /\ MoveTail
    /\ UNCHANGED <<iflag, todo, clock_vars>>

\* console_handle_char, or a command that returns at once.
ProcessChar ==
    /\ MainStep("process", "poll")
    /\ UNCHANGED <<iflag, todo, clock_vars, kbd_vars>>

\* shutdown and reboot, on a machine that does neither.
CommandSleeps ==
    /\ c = NEWLINE
    /\ MainStep("process", "sleep")
    /\ BeginSleep(CommandSleep)
    /\ UNCHANGED <<iflag, todo, kbd_vars>>

\* A command that panics, or raises an exception that isr_handler does not
\* recover from.
CommandPanics ==
    /\ c = NEWLINE
    /\ MainStep("process", "panic")
    /\ iflag' = FALSE
    /\ UNCHANGED <<todo, clock_vars, kbd_vars>>

Main ==
    \/ BootSleep \/ BootDone
    \/ SleepAgain \/ SleepReturns \/ SleepHalts
    \/ PollInput \/ PollEmpty \/ LoopHalts
    \/ GetcharNothing \/ GetcharRead \/ GetcharMove
    \/ ProcessChar \/ CommandSleeps \/ CommandPanics

Take == TakeSpurious \/ \E l \in Lines : TakeInterrupt(l)

Next ==
    \/ \E l \in Lines : DeviceFires(l)
    \/ \E s \in Scancodes : KeyPress(s)
    \/ Take \/ Handler \/ Main

\* The processor executes, takes interrupts that are pending, and the timer
\* keeps firing.  Nothing is assumed of the keyboard or the other devices.
Fairness ==
    /\ WF_vars(Main)
    /\ WF_vars(Handler)
    /\ WF_vars(\E l \in Lines : TakeInterrupt(l))
    /\ WF_vars(DeviceFires(TIMER))

Spec == Init /\ [][Next]_vars /\ Fairness
-----------------------------------------------------------------------------
Sleeping == pc \in {"sleep", "sleep_hlt", "sleep_halted"}

(* Handlers do not nest, and the controllers agree with the processor on   *)
(* what is in service: nothing outside a handler or after its last EOI, at *)
(* most its own line before.  So the two EOIs of the keyboard (one in      *)
(* keyboard_irq_handler, one in isr_handler), the one for a spurious       *)
(* interrupt, and the pair for a line of the slave never complete, or      *)
(* leave blocked, the interrupt of another device.                         *)
InServiceMatches ==
    /\ Len(handlers) <= 1
    /\ handlers = <<>> => isr = {}
    /\ handlers # <<>> =>
          /\ Top.at = "body" /\ Top.line \in Lines => isr \in {{}, InService(Top.line)}
          /\ Top.at = "eoi" => isr \subseteq InService(Top.line)
          /\ Top.at = "iret" => isr = {}

(* A scancode is waiting in the controller exactly while its interrupt is  *)
(* requested or its handler has not read it yet: no handler reads an empty *)
(* port, no scancode waits for an interrupt that will not come.            *)
ScancodeHasInterrupt ==
    port # Empty <=>
        \/ KEYBOARD \in irr
        \/ \E i \in DOMAIN handlers :
              handlers[i].line = KEYBOARD /\ handlers[i].at = "body"

(* sleep never returns before the ticks it was asked for have passed, even *)
(* when the tick counter wraps around during the sleep.                    *)
SleepNotEarly ==
    [][pc = "sleep" /\ pc' \notin {"sleep", "sleep_hlt"} => slept >= wait_ticks]_vars

(* A sleep ends: every sleep of the boot and of the commands, although the *)
(* tick it waits for may come just before its hlt.                         *)
SleepEnds == Sleeping ~> ~ Sleeping

(* A character in the buffer is taken out, unless the buffer overflows or  *)
(* the kernel panics: a key that arrives between the last test of          *)
(* keyboard_has_input and the hlt of kernel_main is noticed after the next *)
(* timer interrupt.                                                        *)
InputIsRead == keyboard_has_input ~> (reading \/ ~ keyboard_has_input \/ pc = "panic")

(* shell_update tests keyboard_has_input and keyboard_getchar tests it     *)
(* again, with interrupts between the two: they disagree, and the console  *)
(* is handed a 0 that no key sent, only when characters were lost in       *)
(* between.                                                                *)
NothingMeansLost ==
    pc = "getchar" /\ ~ reading /\ ~ keyboard_has_input => lost

(* Every request is taken, whatever its priority, until the kernel panics: *)
(* no line is left blocked by a missing EOI or starved by a busier one.    *)
RequestsAreTaken ==
    \A l \in Lines : l \in irr ~> (l \notin irr \/ pc = "panic")
=============================================================================
