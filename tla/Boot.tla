-------------------------------- MODULE Boot --------------------------------
(***************************************************************************)
(* kernel_boot (core/boot.c) with the descriptor tables, the interrupt     *)
(* controller, paging and the first use of the heap, as far as interrupts  *)
(* and exceptions depend on them, and the two panics (core/debug.c).  The  *)
(* interrupts go through Entry; kernel_boot is one step per component that *)
(* it initialises, and any of them may be interrupted once IF is set.      *)
(***************************************************************************)
EXTENDS Entry

CONSTANTS
    Faults,             \* exceptions other than page faults and NMIs: vectors
    WithCode,           \* the exceptions that push an error code
    PMM_FAILS           \* pmm_init may fail

ASSUME BootAssumption ==
    /\ Faults \subseteq 0 .. 31 \ {2, 14}
    /\ 14 \in WithCode /\ WithCode \subseteq Faults \cup {14}
    /\ PMM_FAILS \in BOOLEAN

VARIABLES
    stage,      \* the stages of kernel_boot that are done
    machine,    \* "run", "panic"; "reset" after a triple fault; "wild" after
                \* a write to memory that nobody was given
    gdt, gdtr,  \* the descriptors, and whether the processor uses them
    idt, idtr,  \* the vectors with a gate, and whether the processor uses them
    remapped,   \* pic_remap was called
    paging,     \* CR0.PG
    mapped,     \* the first page of the heap is mapped
    cr2,        \* the last page fault: "heap" (in the window) or "other"
    dots, left, \* of the animation; ticks that the current sleep still waits
    quota       \* interrupt lines that may fire before the next step

table_vars == <<gdt, gdtr, idt, idtr, remapped>>
memory_vars == <<paging, mapped, cr2>>
wait_vars == <<dots, left>>
vars == <<entry_vars, table_vars, memory_vars, wait_vars, stage, machine, quota>>

NMI == 2
PAGE_FAULT == 14
TIMER == 0
Lines == {TIMER, 1}         \* the timer and the keyboard
GDT_ENTRIES == 6

\* The order of kernel_boot.  pit_init, heap_init, fd_init and console_init
\* change nothing that matters here, vfs_init and keyboard_init are empty.
Stages_StiFirst == <<"pmm", "gdt", "tss", "idt", "sti", "pic", "paging", "rootfs",
                     "animation", "sleep1", "sleep2", "shell">>

Stages_NoSti == <<"pmm", "gdt", "tss", "idt", "pic", "paging", "rootfs",
                  "animation", "sleep1", "sleep2", "sti", "shell">>

Stages == <<"pmm", "gdt", "tss", "idt", "pic", "sti", "paging", "rootfs",
            "animation", "sleep1", "sleep2", "shell">>

\* What status_loading_animation has to fill: STATUS_COLUMN less the length
\* of "Booting system".
Columns == 60 - 14

BootInit ==
    /\ EntryInit
    /\ stage = 1 /\ machine = "run"
    /\ gdt = [i \in 0 .. GDT_ENTRIES - 1 |-> "null"] /\ gdtr = FALSE
    /\ idt = {} /\ idtr = FALSE /\ remapped = FALSE
    /\ paging = FALSE /\ mapped = FALSE /\ cr2 = "other"
    /\ dots = Columns /\ left = 0
    /\ quota = Lines
-----------------------------------------------------------------------------
(* The processor. *)

\* An interrupt needs a gate, and the gate's selector (0x08) a code segment;
\* without them the processor resets.
Selects(selector, kind) ==
    gdtr /\ gdt[selector \div 8] = kind

Interrupt(v, code) ==
    IF idtr /\ v \in idt /\ Selects(8, "code")
    THEN Deliver(v, code) /\ UNCHANGED machine
    ELSE machine' = "reset" /\ UNCHANGED entry_vars

Alive == machine \in {"run", "panic"}

\* The vector of an interrupt line: until pic_remap, those of the BIOS.
Vector(l) == IF remapped THEN 32 + l ELSE 8 + l

TakeInterrupt(l) ==
    /\ Alive /\ iflag /\ l \in quota
    /\ Interrupt(Vector(l), <<>>)
    /\ quota' = quota \ {l}
    /\ UNCHANGED <<table_vars, memory_vars, wait_vars, stage>>

\* No second one before an iret: and there is none, because it panics.
NonMaskable ==
    /\ Alive /\ idtr
    /\ \A i \in DOMAIN acts : acts[i].vector # NMI
    /\ Interrupt(NMI, <<>>)
    /\ UNCHANGED <<table_vars, memory_vars, wait_vars, stage, quota>>
-----------------------------------------------------------------------------
(* isr_handler. *)

\* debug_panic and debug_panic_from_exception never return.
Halted == IF acts = <<>> THEN UNCHANGED acts ELSE SetTop("halted")

Panic_Enabled ==
    /\ machine' = "panic"
    /\ Halted
    /\ UNCHANGED <<stack, regs, eip, iflag, low>>

Panic ==
    /\ machine' = "panic"
    /\ iflag' = FALSE
    /\ Halted
    /\ UNCHANGED <<stack, regs, eip, low>>

\* The argument of a handler that takes a registers_t* points into page 0,
\* which paging_init leaves unmapped: reading the number there is a fault.
ReadsPageZero == REGS_POINTER /\ paging

Handler == Alive /\ InHandler /\ ~ ReadsPageZero /\ UNCHANGED <<table_vars, quota, stage>>

InWindow == interrupt_number = PAGE_FAULT /\ cr2 = "heap"

HandlePageFault ==
    /\ Handler /\ InWindow
    /\ mapped' = TRUE
    /\ HandlerReturns
    /\ UNCHANGED <<machine, paging, cr2, wait_vars>>

OutOfMemory ==
    /\ Handler /\ InWindow
    /\ Panic
    /\ UNCHANGED <<memory_vars, wait_vars>>

HandleException ==
    /\ Handler
    /\ interrupt_number < 32 /\ ~ InWindow
    /\ Panic
    /\ UNCHANGED <<memory_vars, wait_vars>>

HandleTimer ==
    /\ Handler
    /\ interrupt_number = 32 + TIMER
    /\ left' = IF left > 0 THEN left - 1 ELSE 0     \* as seen from sleep
    /\ HandlerReturns
    /\ UNCHANGED <<machine, memory_vars, dots>>

\* The keyboard, another line, or no interrupt that isr_handler knows.
HandleOther ==
    /\ Handler
    /\ interrupt_number > 32
    /\ HandlerReturns
    /\ UNCHANGED <<machine, memory_vars, wait_vars>>

\* A fault in the handler: map_page clears a new table that it cannot reach,
\* or the handler reads page 0, and the nested handler does so again.
HandlerFaults ==
    /\ Alive /\ InHandler
    /\ ReadsPageZero \/ InWindow
    /\ Interrupt(PAGE_FAULT, <<IF ReadsPageZero THEN 0 ELSE 2>>)
    /\ cr2' = "other"
    /\ UNCHANGED <<table_vars, paging, mapped, wait_vars, quota, stage>>

Stub ==
    /\ Alive
    /\ CallHandler \/ Leave
    /\ UNCHANGED <<table_vars, memory_vars, wait_vars, stage, machine, quota>>

Service ==
    \/ HandlePageFault \/ OutOfMemory \/ HandleException
    \/ HandleTimer \/ HandleOther \/ HandlerFaults \/ Stub
-----------------------------------------------------------------------------
(* The main program. *)

Main == machine = "run" /\ acts = <<>> /\ quota' = Lines

At(s) == Main /\ left = 0 /\ Stages[stage] = s

Done == stage' = stage + 1

\* An exception of the main program.
Raises(v, addr) ==
    /\ Interrupt(v, IF v \in WithCode THEN <<2>> ELSE <<>>)
    /\ cr2' = addr
    /\ UNCHANGED <<table_vars, paging, mapped, wait_vars, stage>>

BootPmm ==
    /\ At("pmm")
    /\ Done
    /\ UNCHANGED <<entry_vars, table_vars, memory_vars, wait_vars, machine>>

BootPmmFails ==
    /\ At("pmm") /\ PMM_FAILS
    /\ Panic
    /\ UNCHANGED <<table_vars, memory_vars, wait_vars, stage>>

\* gdt_flush also loads the segment registers.
gdt_init ==
    /\ At("gdt")
    /\ gdt' = [gdt EXCEPT ![0] = "null", ![1] = "code", ![2] = "data",
                          ![3] = "user code", ![4] = "user data"]
    /\ gdtr' = TRUE
    /\ Done
    /\ UNCHANGED <<entry_vars, memory_vars, wait_vars, machine, idt, idtr, remapped>>

tss_init ==
    /\ At("tss")
    /\ gdt' = [gdt EXCEPT ![5] = "tss"]
    /\ Done
    /\ UNCHANGED <<entry_vars, memory_vars, wait_vars, machine, gdtr, idt, idtr, remapped>>

Gates == (0 .. 31) \cup {32 + i : i \in 0 .. 15}

idt_init ==
    /\ At("idt")
    /\ idt' = Gates
    /\ idtr' = TRUE
    /\ Done
    /\ UNCHANGED <<entry_vars, memory_vars, wait_vars, machine, gdt, gdtr, remapped>>

pic_remap ==
    /\ At("pic")
    /\ remapped' = TRUE
    /\ Done
    /\ UNCHANGED <<entry_vars, memory_vars, wait_vars, machine, gdt, gdtr, idt, idtr>>

sti ==
    /\ At("sti")
    /\ iflag' = TRUE
    /\ Done
    /\ UNCHANGED <<stack, regs, eip, low, acts, table_vars, memory_vars, wait_vars, machine>>

paging_init ==
    /\ At("paging")
    /\ paging' = TRUE
    /\ Done
    /\ UNCHANGED <<entry_vars, table_vars, wait_vars, machine, mapped, cr2>>

\* The root file system and the mount are the first to use the heap.  The
\* access that faults is repeated; without paging it would not fault, but
\* write to physical memory that nobody was given.
RootFs ==
    /\ At("rootfs")
    /\ mapped
    /\ Done
    /\ UNCHANGED <<entry_vars, table_vars, memory_vars, wait_vars, machine>>

RootFsFaults ==
    /\ At("rootfs") /\ ~ mapped
    /\ IF paging
       THEN Raises(PAGE_FAULT, "heap")
       ELSE /\ machine' = "wild"
            /\ UNCHANGED <<entry_vars, table_vars, memory_vars, wait_vars, stage>>

\* status_loading_animation: a sleep after every dot.
delay == IF 823 \div Columns = 0 THEN 1 ELSE 823 \div Columns

\* sleep counts ticks of 10 ms.
Ticks(ms) == ms \div 10

Animate ==
    /\ At("animation")
    /\ IF dots > 0
       THEN dots' = dots - 1 /\ left' = Ticks(delay) /\ UNCHANGED stage
       ELSE Done /\ UNCHANGED wait_vars
    /\ UNCHANGED <<entry_vars, table_vars, memory_vars, machine>>

Sleep ==
    /\ \/ At("sleep1") /\ left' = Ticks(1700)
       \/ At("sleep2") /\ left' = Ticks(2200)
    /\ Done
    /\ UNCHANGED <<entry_vars, table_vars, memory_vars, machine, dots>>

\* The hlt in the loop of sleep.
Wait ==
    /\ Main /\ left > 0
    /\ UNCHANGED <<entry_vars, table_vars, memory_vars, wait_vars, stage, machine>>

\* shell_update and hlt: with commands that return, use the heap, panic, or
\* raise an exception.
Shell ==
    /\ At("shell")
    /\ UNCHANGED <<entry_vars, table_vars, memory_vars, wait_vars, stage, machine>>

ShellPanics ==
    /\ At("shell")
    /\ Panic
    /\ UNCHANGED <<table_vars, memory_vars, wait_vars, stage>>

ShellFaults ==
    /\ At("shell")
    /\ \/ \E addr \in {"heap", "other"} : Raises(PAGE_FAULT, addr)
       \/ \E v \in Faults : Raises(v, cr2)

Program ==
    \/ BootPmm \/ BootPmmFails \/ gdt_init \/ tss_init \/ idt_init \/ pic_remap
    \/ sti \/ paging_init \/ RootFs \/ RootFsFaults \/ Animate \/ Sleep
    \/ Wait \/ Shell \/ ShellPanics \/ ShellFaults

BootNext == Program \/ Service \/ NonMaskable \/ \E l \in Lines : TakeInterrupt(l)

\* The processor executes, and the timer fires for ever: its line has the
\* highest priority, so that the keyboard cannot keep it from being served.
BootSpec ==
    /\ BootInit /\ [][BootNext]_vars
    /\ WF_vars(Program) /\ WF_vars(Service) /\ SF_vars(TakeInterrupt(TIMER))
-----------------------------------------------------------------------------
(* The machine never resets and never writes to memory that nobody was     *)
(* given: whenever an interrupt can come, its vector has a gate, its gate  *)
(* a code segment, and the controller sends the vectors that the gates are *)
(* for; and the heap is not used before paging.  All of it depends on the  *)
(* order of kernel_boot.  It is a property of the handler that takes its   *)
(* arguments by value: the other one faults on page 0 in itself, again and *)
(* again, and the model's stack has no end to run into.                    *)
NeverResets ==
    /\ machine \notin {"reset", "wild"}
    /\ iflag /\ machine = "run" => \A l \in Lines : Vector(l) \in idt \ (0 .. 31)

(* A panic is the end: no interrupt is served any more but an NMI, and     *)
(* nothing returns to what was running, wherever the panic came from       *)
(* ("Ensure interrupts stay disabled if an NMI wakes the CPU", debug.c).   *)
PanicIsFinal ==
    [][machine = "panic" =>
          /\ machine' = "panic" /\ ~ iflag' /\ stage' = stage
          /\ Len(acts') >= Len(acts)
          /\ Len(acts') > Len(acts) => acts'[Len(acts')].vector = NMI]_vars

(* The boot ends at the shell's prompt or with a panic: its sleeps end.    *)
BootCompletes == <>(Stages[stage] = "shell" \/ machine = "panic")
=============================================================================
