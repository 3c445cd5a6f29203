# SpatulaOS: TLA+ models and proofs

SpatulaOS is a small 32-bit x86 kernel: it boots through Multiboot, sets up
interrupts, physical memory, paging, a heap and a RAM file system, and then
runs a shell on the keyboard and the VGA text screen. This directory models its
core in TLA+, checks the models with TLC and proves some of their properties
with TLAPS. Paths below are relative to `src/kernel` of the repository.

Two files of the commit are the result of an unresolved merge:
`core/idt.c` from line 190 and `core/debug.c` from line 273 on repeat parts of
older versions. For the same reason `boot/isr_common_stub.s` passes the
interrupt number and the error code by value, as the older `isr_handler` (lines
190-265) expects them, while the newer one (lines 66-97) takes a pointer to a
`registers_t`. `Entry` has both: its constant `REGS_POINTER` says which one is
linked to the stub. Everything else follows the complete definitions before
those lines.

## Inventory

| component | state | operations | used by | what is hard |
|---|---|---|---|---|
| physical memory manager (`mm/pmm.c`) | bitmap, `total_frames` | `pmm_init`, `pmm_alloc_frame`, `pmm_free_frame` (no caller) | paging | regions that truncate, overlap or end inside a bitmap word; frame 0 is `NULL` |
| paging (`mm/paging.c`, `page_fault_handler` of `core/idt.c`) | page directory, `page_tables`, the tables | `paging_init`, `map_page`, demand paging | every access to the heap window | two allocations per fault, neither tested everywhere; tables hold old memory; faults inside the handler |
| heap (`mm/heap.c`) | block list, `heap_end`, guard words | `kmalloc`, `kfree`, `heap_validate`, `heap_dump` | RAM file system, shell | long sequences of splits and merges, double frees, sizes near 2^32 |
| interrupt entry (`boot/isr_*.s`, `core/idt.c`) | stack, registers, IF | stubs, `isr_common_stub`, `isr_handler` | all devices and exceptions | exceptions with and without an error code share one exit; nested faults; the stub and the handler must agree on the arguments |
| interrupt controllers (`drivers/pic.c`) | requests, lines in service | `pic_remap`, `pic_send_eoi` | all devices | any interleaving; two EOIs for one key; spurious interrupts; two controllers |
| keyboard (`drivers/keyboard.c`) | ring of 256, head, tail | `keyboard_irq_handler`, `keyboard_has_input`, `keyboard_getchar` | shell | a ring shared with a handler without a lock; overflow |
| time (`core/time.c`) | ticks, seconds | `timer_tick`, `sleep` | boot, shutdown, reboot | `hlt` races with the tick; counters wrap |
| main program (`core/boot.c`, `core/status.c`, `kernel.c`, `arch/x86`) | descriptor tables, how far the boot has come | the stages of `kernel_boot`, then `shell_update` and `hlt` forever | – | interrupts are enabled in the middle of the boot; input that arrives just before `hlt` |
| panics (`core/debug.c`) | – | `debug_panic`, `debug_panic_from_exception` | everything | called from the main program and from handlers; an NMI wakes the `hlt` |
| file system (`fs/vfs`, `fs/ramfs`, `fs/fd`) | nodes, mounts, descriptors | lookup, mount, create, read, write, open, seek, close | shell | files that grow between two words of a write; memory that runs out anywhere; duplicate names; a mount that covers a directory |
| shell (`shell/shell.c`) | working directory, last allocation | 27 commands | user | arguments are cut out of the line in place |
| numbers (`lib/string.c`, `video/vga.c`) | – | `atoi`, `atoi_hex`, `utoa`, `vga_print_dec`, `vga_print_hex` | shell | `int` overflow; addresses above 2^31 are negative on the way |
| console and screen (`core/console.c`, `video/vga.c`) | line buffer, row, column, cells, hardware cursor | `console_handle_char`, `vga_putchar`, `vga_scroll`, `vga_clear` | shell, everything that prints | the line, the screen and the cursor must stay in step across row edges and scrolling |

What makes each correct is stated as the properties below; what is left out is
listed under "Not modelled".

## Modules

    KeyQueue  <- Keyboard --+
                 Clock -----+-- Interrupts -- MCInterrupts
                 Pic -------+
    FrameOwnership <- Paging -- MCPaging       Pmm -- MCPmm
                        |                       |
                        +------- extends -------+
    Entry -- Boot        Heap        Numbers -- MCNumbers
    FileStore <- FileSystem -- MCFileSystem
    LineEditor <- Terminal -- MCTerminal
    proofs: PmmProofs, PagingProofs, KeyboardProofs, InterruptProofs,
            BootProofs, FileSystemProofs, TerminalProofs, HeapProofs

(`A <- B`: B is shown to implement the abstract specification A.)

* **Pmm** keeps the bitmap as the set of frames whose bit is set. `pmm_init` is
  one step for any memory map; what the last bitmap word held before is a
  nondeterministic choice, because the code does not write it. `region_end` is
  truncated as the `uint32_t` it is. `PmmSpec` adds callers that allocate and free.
  `PmmAssumption` excludes maps whose frame numbers do not fit 32 bits. Usable
  means inside a region of type 1: where such a region overlaps a reserved one,
  `pmm_init` does not look at the reserved one, and neither do the properties.
* **Paging** extends Pmm. A page is a pair of indices; `ptes[f]` is what frame f
  holds as a table, old contents included. One action per outcome of a fault:
  `DemandPage` (the table exists, or is made), `OutOfMemory`, `FatalFault`,
  `TableUnreachable` (the clearing loop of `map_page` faults itself). Every fault
  is a supervisor fault on a page that is not present, since the kernel maps
  everything writable and has no user mode. `FrameOwnership` is the abstract view:
  each frame is classified once, and a free one may be given out once.
* **Keyboard** is the ring; a `keyboard_getchar` that finds a character is two
  steps, between which the handler may run, and one that finds none hands over a
  0. **KeyQueue** is what the ring does for the shell: a queue of 255 characters,
  emptied by the 256th, that gives a 0 to whom asks it when it is empty. `lost`
  records an overflow since the shell last looked.
* **Pic** models the two 8259s (external hardware, from how `pic.c` programs and
  uses them), **Clock** is `time.c`, **Interrupts** composes them with the
  processor: devices, interrupt entry and return, `isr_handler`, and the main
  program instruction by instruction where it shares state with handlers.
  An interrupt that is pending is taken before the next instruction. Between two
  steps of the main program each source fires at most once (`quota`): devices
  are slow next to the processor. The keyboard sends a scancode only after the
  last one was read.
* **Entry** is the stack, word by word, from the frame that the processor pushes
  over the stub of the vector and `isr_common_stub` into `isr_handler` and back.
  The handler may change its arguments and the registers that the calling
  convention gives it. `acts` is the stack of interrupts being served, with what
  each of them interrupted (history).
* **Boot** extends Entry by `kernel_boot`, one step per stage, and by what the
  stages change for an interrupt: the GDT, the IDT, the controllers' vectors,
  paging, the first page of the heap. With paging on, the handler that takes a
  pointer faults when it reads its number in page 0, and so does the handler of
  that fault; the stack is unbounded, so the model shows the recursion and not
  where it ends. Any step may be followed by an interrupt
  once IF is set, and by an NMI once there is an IDT; the heap's first use
  faults, a fault may meet no memory or fault again in `map_page`, and commands
  of the shell panic or raise exceptions. What the interrupts do to the devices
  is in Interrupts, and what the stages compute in Pmm, Paging and FileSystem.
* **Numbers** is the conversions with a word of `HEX_DIGITS` digits that wraps
  around, and the commands `alloc`, `free`, `freelast`, `calc`, `inttoascii`,
  `asciitoint` and `cur`, which read or print numbers. `kmalloc` and `kfree` are
  seen from outside here, as what they are asked; Heap has their insides. The
  build has no optimisation, so overflowing `int`s wrap and a quotient that is
  never printed is still computed.
* **Heap** has the window's memory word by word, so that overlapping blocks
  really overwrite each other. The list walks are separate steps. Callers are
  the file system (allocates only) and the shell's `alloc`, `free`, `freelast`
  with addresses that `kmalloc` returned, freed again included; a made-up
  address typed to `free` is not modelled. Nothing is mapped above the window: a
  guard word that `kfree` looks for there is a page fault that stops the kernel
  (`KfreeFaults`).
* **FileSystem** is path resolution, the mount that the boot makes, `ramfs` and
  descriptors under `cd`, `mk`, `mkr`, `write`, `rd`. A write is one step per
  `sys_write`. `kmalloc` may fail at any time; nobody tests it, so the store
  faults on page 0 and the kernel halts. Names longer than their 64 bytes are not
  modelled. **FileStore** is the promise: a write replaces the beginning of a file
  in one step, `rd` shows all of it.
* **Terminal** is `vga.c`, `console.c` and the shell's loop, one step per
  character; a command other than `echo` and `clear` is what it prints, one of a
  few outputs. Colours are left out. **LineEditor** is the promise: the line is
  what was typed and not rubbed out, arguments are its first words (the longest
  runs of characters that are no blank, in order).

History variables (`owned`, `slept`, `uptime`, `wrapped`, `live`, `stale`,
`defects`, `shown`, `noted`, `lost`, and the saved context in `acts`) record what
properties compare; nothing reads them but `live`, `stale`, `owned` and `noted`,
from which callers choose what to free, and `defects`, at which the Heap model
stops.

## Runs

| run | checks | instance |
|---|---|---|
| `pmm` | `OwnedFramesAreSafe`, `NoFrameLost` | six maps: holes, overlaps, a start inside a frame, an end at the address limit and beyond it, partial bitmap words; the bitmap shares a frame with the kernel |
| `paging` | `PagingTypeOK` (with `PmmTypeOK`), `FramesExclusive`, `PanicJustified`, `KernelMapped`, `NoFrameLeaked`, `MappingsStable`, `OwnershipRefinement` | eight machines, from ten free frames to none, one with frames beyond the last whole bitmap word; tables of seven entries; a window of four pages that starts at the second table |
| `irq_devices` | `ScancodeHasInterrupt`, `InServiceMatches`, `NothingMeansLost`, `KeyQueueRefinement` | timer, keyboard and a slave line, spurious interrupts; ring of three, keys that type, keys that do not, releases |
| `irq_sleep` | `UptimeExact`, `SleepNotEarly`, `SleepEnds`, `InputIsRead`, `RequestsAreTaken` | timer, keyboard and a slave line; tick counter modulo 6, seconds modulo 2, sleeps of 1, 3 and 4 ticks; ring of two |
| `heap` | `HeapTypeOK`, `PayloadIntact`, `HeapValidWhileSound`, `FreeChecksExact`, `NoWildAccess`, `CallsReturn` | 140 bytes, requests of 0, 5, 40 and 1023 bytes with 11-bit sizes, four live blocks |
| `heap_cycle` | violation of `HeapAcyclic` | the same, going on after one defect |
| `heap_accepted` | violation of `LiveBlocksAccepted` | the same |
| `filesystem` | `FsTypeOK`, `CoveredUnreachable`, `TreeSound`, `DescriptorsClosed`, `LookupStable`, `FileStoreRefinement` | two files, three children per directory, paths across the mount, texts of one to three bytes |
| `terminal` | `TermTypeOK`, `LineOnScreen`, `LineEditorRefinement` | screen of 3 by 4, lines of six, two arguments, outputs that wrap, scroll and rub out |
| `boot` | `HandlerSeesInterrupt`, `ContextRestored`, `NeverResets`, `PanicIsFinal`, `BootCompletes` | the whole boot with its 46 dots and three kinds of sleep, timer and keyboard, NMI, exceptions with and without an error code, the older `isr_handler` |
| `entry_args` | violation of `HandlerSeesInterrupt` | the newer `isr_handler` |
| `numbers` | `CalcExact`, `AddressesRoundTrip` | words of eight bits; eighteen texts at the limits of `int` and of a word, in both hexadecimal cases, with a prefix, or without digits |

The comment before each property says what it means. The bounds are the
smallest in which the boundary behaviour occurs: a ring that fills and wraps, a
counter that wraps during a sleep, a heap with room for a split and for merges
on both sides, a number one above what a word holds, memory maps that exhaust memory at each of the two allocations
of a fault, a line that is longer than a row and a prompt that starts in the
middle of one. Deadlock is checked except where the kernel may stop (a panic,
a fatal fault, the Heap model's stop at a defect).

Every property has a mutant, an operator such as `Absorbs_InUse` next to the
definition it stands for, that changes the model as a plausible slip in the code
would; TLC then finds the property violated.

### What the violations show

* The newer `isr_handler` takes the interrupt number for a pointer
  (`isr_common_stub.s` line 11, `idt.c` line 67): it reads `int_no` from memory a
  few dozen bytes above address 0, so what was there decides what the interrupt
  was, and once page 0 is unmapped the read faults inside the handler, whose
  nested call reads it again. With the older `isr_handler` the same property holds (`boot`).
* `kfree` moves `heap_end` to a free last block that stays in the list
  (`heap.c` line 247). `heap_validate` then calls a healthy heap broken ("Block
  outside heap range!"), and a later `kmalloc` that appends builds its block over
  that one and links it to itself: two allocations, a free and a larger
  allocation, and the list is a cycle that the next search never leaves.
* `kfree` counts a guard word for each block it merges (line 207), but the first
  block and the first part of a split block have none before the next header:
  the guard word of the merged block lands on the next block's *size* (`next + 4`;
  the magic stays as it is). When the caller of that block, who kept to its
  memory, frees it, `kfree` reads a guard word 0xDEADBEEF bytes away (line 175)
  and the kernel stops with a page fault before any of `kfree`'s messages.

The `heap` run claims its properties up to the first of the two events that break
the list (`defects`: lines 247 and 207) and shows that nothing else goes wrong
before.

### What the properties except

Five properties that pass name an exception, because the code falls short of what
its comments and messages say. The modules state each without the exception too,
in the definition given in parentheses: no run lists it, it does not hold, and
TLC finds the behaviour when it replaces the properties of the run.

* `pmm_init` rounds the start of a usable region down (`pmm.c` line 96, "Free
  usable memory", line 89): the frame in which the region begins is handed out,
  with what lies before the region. `OwnedFramesAreSafe` excepts that frame
  (`CutByRegionStart`) and no other (`OwnedFramesUsable`).
* `first_free_frame` looks at `total_frames / 32` words (`pmm.c` line 30), as
  `pmm_init` fills them (line 85, "Mark all frames used initially"): the frames of
  a partial last word are clear, counted by `pmm_get_free_frames`, and never
  found, so that "Out of physical memory during demand paging" (`idt.c` line 42)
  is said with up to 31 frames free. `PanicJustified` says that there are no others
  (`OutOfMemoryExact`).
* `keyboard.c` line 57 has no test for a full ring, so that "head == tail means
  buffer is empty" (line 69) is not so for the 256th waiting character: all are
  lost (`EmptyMeansRead`). When it happens between the shell's test and
  `keyboard_getchar`, that one returns 0, which the shell hands to the console
  like a character (`GetcharNothing`, `ReadNothing`); it becomes part of the line
  and cuts it (`Terminal`). `NothingMeansLost`: only then.
* `kfree` reads the guard word before it tests the size. So a double free may
  fault although the heap is in order, where the readme (line 44) promises
  "Double-free detection": the old header, inside another block by now, may hold
  a guard word and text behind it. `FreeChecksExact` says that a double free is
  never taken for a legal one, but not that there is a message
  (`DoubleFreeReported`).
* `calc` prints no quotient: the `return` under the division's `else`
  (`shell.c` line 333) ends both branches (`QuotientPrinted`). `CalcExact` asks of a
  division only that it prints no wrong number, which a repaired `calc` satisfies
  as well. It also allows the one quotient that does not fit an `int` to trap;
  `atoi` produces its operands from overlong numbers.

One more observation that no property is about: `last_alloc` outlives a `free` of
the same address, so that `freelast` may free it again (`Heap` has those calls).

## Fairness

Interrupts, Boot and Heap state liveness. Interrupts assumes weak fairness of the
main program and of handlers (the processor executes), of taking a pending
interrupt (the processor does so when IF is set), and of the timer (the PIT runs
at 100 Hz for ever). Nothing is assumed of the keyboard or other devices.
`RequestsAreTaken` needs no strong fairness, because `quota` keeps a line of high
priority from firing again before the main program has moved. Boot leaves out
the controllers, so there the keyboard could keep the timer from being taken at
each moment; it assumes strong fairness of taking the timer's interrupt, which
has the highest priority and fires for ever, beside weak fairness of the main
program and the handlers. Heap assumes that
a call that has begun executes.

## Proofs

| theorem | says |
|---|---|
| `PmmProofs!PmmTypeCorrect`, `PmmInvariant` | the types and `PmmInv`, for every set of memory maps |
| `PmmOwnedSafe`, `PmmNoFrameLost` | `OwnedFramesAreSafe`, `NoFrameLost` |
| `PagingProofs!PagingInvariant`, `MemoryInvariant` | `PagingInv` and `MemoryInv` are invariants of paging |
| `PagingTypeCorrect`, `PagingExclusive`, `PagingKernelMapped`, `PagingStable` | `PagingTypeOK`, `FramesExclusive`, `KernelMapped`, `MappingsStable` |
| `PagingPanicJustified`, `PagingNoLeak` | `PanicJustified`, `NoFrameLeaked` |
| `PagingImplementsOwnership` | paging implements FrameOwnership |
| `KeyboardProofs!KeyboardTypeCorrect`, `RingImplementsQueue` | the ring's types, and that it implements KeyQueue, for every size and alphabet |
| `InterruptProofs!InterruptInvariant`, `ClockInvariant` | `IntrInv` and `ClockInv` are invariants of the running kernel |
| `InterruptsInService`, `ScancodesAnswered` | `InServiceMatches`, `ScancodeHasInterrupt` |
| `UptimeIsExact`, `SleepIsNotEarly` | `UptimeExact`, `SleepNotEarly`, for every frequency and counter width |
| `KernelImplementsQueue` | the ring implements KeyQueue inside the whole kernel, controllers, clock and commands included |
| `KernelNothingMeansLost` | `NothingMeansLost`, for every buffer size and keymap |
| `BootProofs!BootInvariant` | `BootInv` is an invariant of the boot, if `CodesAgree` |
| `HandlerSees`, `BootNeverResets`, `PanicStays` | `HandlerSeesInterrupt`, `NeverResets` and `PanicIsFinal`, if `CodesAgree` and the arguments are passed by value (`REGS_POINTER = FALSE`) |
| `ContextIsRestored` | `ContextRestored`, if `CodesAgree` |
| `FileSystemProofs!FsInvariant` | `FsInv` is an invariant of the file system |
| `FsTypeCorrect`, `FsTreeSound`, `FsCoveredUnreachable`, `FsDescriptorsClosed`, `FsLookupStable` | `FsTypeOK`, `TreeSound`, `CoveredUnreachable`, `DescriptorsClosed`, `LookupStable`, for all names, texts and limits |
| `FsImplementsStore` | the file system implements FileStore |
| `TerminalProofs!TermInvariant` | `TermInv` is an invariant of the console |
| `TermTypeCorrect`, `TermLineVisible` | `TermTypeOK`, `LineOnScreen`, for every screen, prompt, line length and output |
| `TermImplementsEditor` | the console and `parse_arguments` implement LineEditor, for lines of every length and every `MAX_ARGS` |
| `HeapProofs!HeapWellFormed` | `HeapInv` is an invariant of the heap |
| `HeapTypeCorrect` | `HeapTypeOK`, up to the first defect |
| `CallersKeepTheirMemory`, `FreeIsExact`, `HeapStaysValid`, `HeapStaysInWindow` | `PayloadIntact`, `FreeChecksExact`, `HeapValidWhileSound`, `NoWildAccess`, for every window, word size and set of requests, and every number of blocks |

They hold for all constants that satisfy the assumption of the module:
`PmmAssumption`, `PagingAssumption` (the heap window starts above the first
table), `KeyboardAssumption`, `ClockAssumption`, `InterruptsAssumption`
(scancodes are bytes), `EntryAssumption`, `BootAssumption`,
`FileSystemAssumption` (arguments are paths, texts are words of bytes that fit
what `cat` reads) and `TerminalAssumption` (the prompt is text on one line, and it
and the longest line fit on the screen, which they do with 80 by 25 cells and 256
characters) and `HeapAssumption` (the constants of `vm.h` and `heap.c` satisfy it:
the window is no longer than its start address, so that no size is an address in it,
and lies in the lower half of the address space; requests are below 2^31, since
the shell takes a positive `int` and the file system asks for structures and
file contents; what callers write, and the magic number, is no size that fits, and
does not wrap around when it is added to an address of the window, as text and
0xDEADBEEF do not). TLC evaluates these in
the runs. The bound on requests is needed: with `heap_end` within 24 bytes of the
end of the window, a size from 2^32 - 31 to 2^32 - 8 would wrap around in `kmalloc`'s
test for space and be granted; no caller can ask for it.
`CodesAgree` says that an exception pushes an error code exactly when
`isr_stubs.s` declares its stub with `ISR_ERR`; the run `boot` satisfies it with
exceptions of both kinds.

*Physical memory.* That owned frames are safe says nothing of the next one to be
handed out: `PmmInv` adds `FreeIsUsable`, that everything `first_free_frame` can
find is usable memory, or a frame in which a usable region begins, outside the
kernel image and the bitmap. It holds
after `pmm_init` whatever the last, unwritten word of the bitmap held, since
frames above `total_frames` are never scanned.

*Paging.* None of the properties is inductive. Storing an entry is harmless only
because no other directory entry and no heap page uses that table's frame,
because `page_tables` agrees with the directory, and because a frame that the
bitmap calls free is none of these. `PagingInv` says that together, frame by
frame, with the identity map and the fact that a pending fault is on an unmapped
page. `PmmProofs` supplies what allocation does (`AllocFrame`: the
frame was free, is marked, and nothing else changes), from the existence of least
elements proved there by well-founded induction. `MapInTableMaps` and
`MapInNewTableMaps` say what each kind of mapping does to every page's
translation; the step proof is then set reasoning. `MemoryInv` adds where the
frames go. A panic over memory is justified only because of `ZeroTaken`:
`pmm_alloc_frame` cannot tell frame 0 from failure, but `paging_init` has
allocated before any fault can, and if frame 0 was free it took that. What is
proved of the search is that it found nothing (`SearchExhausted`), and
`SearchMisses` says what it does not look at: the last, partial word. The
refinement gives each frame the owner that the bitmap, the tables and the heap
pages show; each outcome of a fault, the half-done ones included, gives out frames
that were free, or is a stutter.

*Keyboard.* `Window` describes the unread slots as a run of the ring modulo its
size; storing appends to it or, when it is full, empties it; reading the slot
takes its head; moving the tail is a stutter, since the read already counted.
Looking for input is one too, and a `keyboard_getchar` that finds none is a step of
KeyQueue that changes what was handed over last.

*Interrupts and time.* `IntrInv` says, for each point of a handler, what each
controller may still have in service, and that a scancode has one interrupt and
not two: a request that is pending while the handler has not read the port would
be one too many. `ClockInv` measures a sleep by the distance of the tick counter
from its start modulo the counter's width, which is why `ticks - start` is right
across the wrap and a comparison with a deadline would not be. The seconds are
exact because ticks and seconds share the remainder by `TPS` until the wrap.
`KernelImplementsQueue` shows that every step of the kernel is a step of
Keyboard or leaves the ring alone, and takes the rest from KeyboardProofs.
`KernelNothingMeansLost` needs that the ring can only look empty at
`keyboard_getchar`, after it did not in `shell_update`, by a character that was
stored into a full one (`StoreLoses`, `EmptyAtGetchar`).

*Entry and boot.* That the handler sees the right words is a fact about the stack
of the innermost interrupt only, but after an `iret` another one is the
innermost: so `StackShape` describes, for every interrupt being served and every
point of its stub, the words between the context it interrupted and the one that
interrupted it. One lemma per piece of entry code (delivery, stub and `pusha`,
the handler's return, `popa` and `iret`) carries the shape on. `LinesRemapped`
is part of it, since the timer at the vector of the BIOS, 8, would enter a stub that expects
an error code. `NeverResets` then needs, stage by stage, what the boot has set up
(`TablesOK`), and that no saved context had IF set before `sti`.

`PanicIsFinal` adds `PanicHolds`: after a panic the innermost interrupt is halted,
or is an NMI on its way to a panic of its own. It needs the vector that the
handler sees, hence `HandlerSees` and the arguments by value.

*File system.* `FsInv` describes the nodes (`NodesOK`: the boot's three
directories, the one under the mount empty for ever, the others files), their
parents (`ParentsOK`) and the one descriptor that a command may hold
(`DescriptorsOK`). For `FileStoreRefinement` the abstract content of a file that is
being written is what it will hold when the write is done, so that each word
written is a stutter; a write is described as a patch of the old content, and
`PatchedTwice` joins the patch of one word with that of the rest. `WriteInv` keeps
the offset inside the file and the end of the write before `READ_MAX`, which is
what `cat` reads back.

*Console and screen.* `LineOnScreen` is not inductive because it does not say that
row and column name a cell or that the buffer is 0 behind the line, which is what
stops `parse_arguments` inside it. `CharacterDoes` and `BackspaceDoes` say what
`vga_putchar` does to the cell number and to every cell, row edges and scrolling
included; `PutShows` and `RubShows` lift that to the text before the cursor;
`Prompted` does so for a whole string, whatever was printed before it.

For `TermImplementsEditor`, `ParseCut` describes `parse_arguments` after each
round: the words found are words of the line that was typed, cut out with a 0
behind each, the line behind the current place is untouched, and every place
before it that is no blank lies in one of the words. The search for the next word
reads the buffer in which 0s have replaced blanks, and finds the line's next word
only because the current place never lies before one of those 0s. `CutWords` turns
this into LineEditor's terms, and `CutString` shows that the string at the start
of a word ends where the word does.

*Heap.* None of the properties is inductive, since each speaks of headers that
are right and none says that they are. `HeapInv` says that there is a set of
blocks of which `Shape` holds: each lies between the start of the window and
`heap_end`, has its magic and a guard word where its payload ends, ends before the
next one or at it (the guard word is then the next one's magic), and is
linked both ways with its neighbours in the order of the addresses. Three parts
were found by failing proofs. `NoBlock` says of every word that is *not* the start
of a block that the word where a header would have its size holds no size, or the
one where it would have its flag is not 0: `kfree` looks at any address it is
given, and only this keeps it from accepting the remains of a header that a merge
absorbed. `Held` says of each caller's memory that its block is in use and
large enough, and of each stale address that it is a free block's or no block's.
`Walking` says that the block a walk has reached is in the list, and that outside
`kfree` the last block is in use (`LastInUse`): a `kfree` that leaves a free one
either empties the heap or retracts `heap_end`, which is a defect. Each change of
the list has a predicate that says which words it sets (`Flagged`, `Joined`,
`Divided`, `Extended`) and a lemma that it keeps `Shape` for the new set of
blocks; `kfree` is then a flag and up to two joins. The claims hold up to the first
defect, one of the two that the violations show, and `HeapStaysInWindow` also in
the call that makes it.

Operators that recurse over a path, a string, the words of a line, the pieces of
a write or the list of blocks (`path_resolve`, `vga_print`, `parse_arguments`,
`Echoed`, FileSystem's `Joined`, `Nth`) are recursive functions. That the function exists, and what every value of it
satisfies, is shown by looking at the least index at which it would fail, since
induction schemas are out of the provers' reach.

Only model-checked: liveness (out of the prover's reach), which includes
`CallsReturn`, that every walk of the heap ends; `HeapTypeOK` after a defect;
and `Numbers`, where the result of a recursion over digits is compared with
arithmetic on powers of the base.

## Not modelled

* What only prints: `multiboot.c`, `heap_dump`, `cpuid.c`, the registers on the
  panic screens, the logo, colours, and the commands `help`, `memdump`, `uptime`
  and the like (an output of Terminal). `memdump` reads any address a user types;
  what is there is outside every model.
* The bit layout of descriptors, gates and page table flags, the divisor of the
  PIT and the ports (`drivers/io.c`): constants that are written once.
* The copying functions of `lib/string.c`, which the models replace by
  operations on sequences. Their buffers are checked where the line limits them
  (`TermTypeOK`); `panic` joins a line of up to 255 characters into 128 bytes,
  and names longer than 64 bytes are left out.
* `context_switch.s`, `pmm_free_frame`'s absent callers, `ramfs_init` and
  `print_seconds`: nothing calls them. `PmmSpec` still frees frames.
* Leftover fragments of the merge that define nothing (`debug.c` from line 273).

## Plan

1. Further models: ring and console composed, so that an overflow is followed
   into the line; a heap whose pages are demand-paged.
2. Further proofs: the numbers that `vga_print_hex` prints are read back by
   `atoi_hex`, digit by digit.
