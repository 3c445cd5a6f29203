------------------------------- MODULE Entry -------------------------------
(***************************************************************************)
(* How the processor gets into isr_handler and back: the frame that it     *)
(* pushes, the stubs of boot/isr_stubs.s, and boot/isr_common_stub.s.  The *)
(* stack is a sequence of 32-bit words, the last one at esp.               *)
(*                                                                         *)
(* core/idt.c holds two versions of isr_handler: lines 66-97 take a        *)
(* pointer to a registers_t, the older lines 190-265 the interrupt number  *)
(* and the error code by value.  REGS_POINTER says which one is linked to  *)
(* the stub.                                                               *)
(***************************************************************************)
EXTENDS Integers, Sequences

CONSTANTS
    REGS_POINTER,   \* the handler takes a registers_t*
    Low             \* what the memory below address 100 may hold

ASSUME EntryAssumption == REGS_POINTER \in BOOLEAN /\ Low \subseteq Int

VARIABLES
    stack, regs, eip, iflag,    \* of the processor; iflag is IF
    low,    \* what a registers_t at an address below 48 holds
    acts    \* the interrupts that are being served, the innermost last:
            \* how far each has come, and (history) what it interrupted

entry_vars == <<stack, regs, eip, iflag, low, acts>>

\* The order in which pusha pushes.
Pushed == <<"eax", "ecx", "edx", "ebx", "esp", "ebp", "esi", "edi">>

Registers == {Pushed[i] : i \in DOMAIN Pushed} \ {"esp"}

\* Words that stand for themselves.
MAGIC == 1000
MBI == 1001
CS == 1002
JUNK == 1003
MAIN == 1004
STUB == 1005
EFLAGS(if) == IF if THEN 1006 ELSE 1007

\* boot.s: no interrupts, and the two arguments of kernel_main.
EntryInit ==
    /\ stack = <<MBI, MAGIC>>
    /\ regs = [r \in Registers |-> CHOOSE i \in 1 .. 8 : Pushed[i] = r]
    /\ eip = MAIN
    /\ iflag = FALSE
    /\ low \in [int_no : Low, err_code : Low]
    /\ acts = <<>>

Top == acts[Len(acts)]

SetTop(at) == acts' = [acts EXCEPT ![Len(acts)].at = at]

\* The word at esp + 4k, and the stack after k words were popped.
Word(s, k) == s[Len(s) - k]

Drop(s, k) == SubSeq(s, 1, Len(s) - k)

\* The processor enters the gate of vector v; code is the error code that
\* it pushes, or <<>>.  The gates are interrupt gates: IF is cleared.
Deliver(v, code) ==
    /\ acts' = Append(acts, [vector |-> v, code |-> code, at |-> "stub",
                             stack |-> stack, regs |-> regs, eip |-> eip, iflag |-> iflag])
    /\ stack' = stack \o <<EFLAGS(iflag), CS, eip>> \o code
    /\ eip' = STUB
    /\ iflag' = FALSE
    /\ UNCHANGED <<regs, low>>

\* The vectors whose stub leaves the error code to the processor.
ISR_ERR_Without14 == {8} \cup (10 .. 13) \cup {17}

ISR_ERR == {8} \cup (10 .. 14) \cup {17}

StubWords(v) == IF v \in ISR_ERR THEN <<v>> ELSE <<0, v>>

pusha(s) == s \o [i \in 1 .. 8 |-> IF Pushed[i] = "esp" THEN Len(s) ELSE regs[Pushed[i]]]

\* The stub of a vector, and isr_common_stub up to its call of isr_handler.
CallHandler ==
    LET s == pusha(stack \o StubWords(Top.vector))
        number == Word(s, 8)
        error == Word(s, 9) IN
    /\ acts # <<>> /\ Top.at = "stub"
    /\ stack' = s \o <<error, number>>
    /\ regs' = [regs EXCEPT !.eax = number, !.ebx = error]
    /\ SetTop("handler")
    /\ UNCHANGED <<eip, iflag, low>>

\* What isr_handler takes for the interrupt: its two arguments, or what it
\* reads at the address that is its first one (the interrupt number) while
\* that memory can be read; Boot's HandlerFaults is the read once it cannot.
interrupt_number == IF REGS_POINTER THEN low.int_no ELSE Word(stack, 0)

error_code == IF REGS_POINTER THEN low.err_code ELSE Word(stack, 1)

InHandler == acts # <<>> /\ Top.at = "handler"

\* isr_handler returns: it keeps ebx, ebp, esi and edi, and may have changed
\* its arguments.
HandlerReturns ==
    /\ regs' = [regs EXCEPT !.eax = JUNK, !.ecx = JUNK, !.edx = JUNK]
    /\ stack' = Drop(stack, 2) \o <<JUNK, JUNK>>
    /\ SetTop("leave")
    /\ UNCHANGED <<eip, iflag, low>>

popa(s) == [r \in Registers |-> Word(s, 8 - CHOOSE i \in 1 .. 8 : Pushed[i] = r)]

\* What isr_common_stub drops after popa: the number and the error code.
DropCode_Number(s) == Drop(s, 1)

DropCode(s) == Drop(s, 2)

\* The end of isr_common_stub.
Leave ==
    LET saved == Drop(stack, 2)
        frame == DropCode(Drop(saved, 8)) IN
    /\ acts # <<>> /\ Top.at = "leave"
    /\ regs' = popa(saved)
    /\ eip' = Word(frame, 0)
    /\ iflag' = (Word(frame, 2) = EFLAGS(TRUE))
    /\ stack' = Drop(frame, 3)
    /\ acts' = SubSeq(acts, 1, Len(acts) - 1)
    /\ UNCHANGED low
-----------------------------------------------------------------------------
(* isr_handler acts on the interrupt that was raised: the number and the   *)
(* error code that it sees are those that the stub and the processor       *)
(* pushed, for vectors with and without an error code, nested or not.      *)
HandlerSeesInterrupt ==
    InHandler =>
        /\ interrupt_number = Top.vector
        /\ error_code = IF Top.code = <<>> THEN 0 ELSE Top.code[1]

(* What was interrupted goes on as if nothing had happened: iretd finds    *)
(* the frame that the processor pushed, and registers, stack and IF are    *)
(* those of before, although isr_handler owns its arguments and three      *)
(* registers.                                                              *)
ContextRestored ==
    [][Len(acts') < Len(acts) =>
          /\ regs' = Top.regs /\ stack' = Top.stack
          /\ eip' = Top.eip /\ iflag' = Top.iflag]_entry_vars
=============================================================================
