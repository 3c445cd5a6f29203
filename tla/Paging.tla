------------------------------- MODULE Paging -------------------------------
(***************************************************************************)
(* Paging, src/kernel/mm/paging.c, and the page fault handler of           *)
(* src/kernel/core/idt.c, over the physical memory manager: the identity   *)
(* map that paging_init builds, and demand paging of the heap window.      *)
(*                                                                         *)
(* A virtual page is a pair <<directory index, table index>>.  A page      *)
(* table is a frame: ptes gives the entries that every frame would hold if *)
(* it were used as a table.  Before it is cleared a frame holds whatever   *)
(* the memory held, so that the clearing loops matter.                     *)
(*                                                                         *)
(* The handler runs with interrupts off and is one step, from the fault to *)
(* the return or to the panic.  The kernel never runs in user mode and     *)
(* maps every page writable, so every fault is a supervisor fault on a     *)
(* page that is not present.                                               *)
(***************************************************************************)
EXTENDS Pmm

CONSTANTS
    ENTRIES,        \* PAGE_ENTRIES: entries of the directory and of a table
    DIRS,           \* the directory entries the model looks at
    HEAP_START,     \* KERNEL_HEAP_START, as a page number
    HEAP_END,       \* KERNEL_HEAP_END, as a page number
    STALE           \* what a frame may hold before it is cleared

NONE == -1          \* an entry without the PRESENT bit

Dir == 0 .. DIRS - 1
Idx == 0 .. ENTRIES - 1
Page == Dir \X Idx
PhysFrames == 0 .. U32 \div FRAME_SIZE

ASSUME PagingAssumption ==
    /\ ENTRIES \in Nat \ {0}
    /\ DIRS \in Nat \ {0}
    /\ HEAP_START \in Nat
    /\ HEAP_END \in Nat
    /\ ENTRIES <= HEAP_START
    /\ STALE \subseteq Nat \cup {NONE}

VARIABLES
    boot,           \* "pmm", "paging", "run": the next step of kernel_boot
    halted,         \* "no", or why the kernel stopped
    page_directory, \* page_directory[d]: the frame of the table, or NONE
    page_tables,    \* page_tables[d]: the address of the table, or NULL
    ptes,           \* ptes[f][i]: entry i of the table in frame f
    cr2             \* the page of a pending fault, or NoPage

paging_vars ==
    <<pmm_vars, boot, halted, page_directory, page_tables, ptes, cr2>>

NoPage == <<>>

Halts == {"no", "nomap", "oom", "fault", "nested"}

Cleared == [i \in Idx |-> NONE]

\* first_table: everything but page 0.
IdentityTable_FromZero == [i \in Idx |-> i]

IdentityTable == [i \in Idx |-> IF i = 0 THEN NONE ELSE i]
-----------------------------------------------------------------------------
\* What the MMU finds for a page.
Translate(p) ==
    IF page_directory[p[1]] = NONE
    THEN NONE
    ELSE ptes[page_directory[p[1]]][p[2]]

PageNumber(p) == p[1] * ENTRIES + p[2]

InHeapWindow_Inclusive(p) ==
    HEAP_START <= PageNumber(p) /\ PageNumber(p) <= HEAP_END

InHeapWindow(p) ==
    HEAP_START <= PageNumber(p) /\ PageNumber(p) < HEAP_END

\* The kernel addresses a table by its physical address: it can write to it
\* only if that page is mapped, and reaches the table only if it is mapped
\* to itself.
Reachable(t) == t \in Idx /\ Translate(<<0, t>>) = t

PagingInit ==
    /\ PmmInit
    /\ boot = "pmm"
    /\ halted = "no"
    /\ page_directory = [d \in Dir |-> NONE]
    /\ page_tables = [d \in Dir |-> NULL]
    /\ \E s \in STALE : ptes = [f \in PhysFrames |-> [i \in Idx |-> s]]
    /\ cr2 = NoPage
-----------------------------------------------------------------------------
(* Boot. *)

BootPmm ==
    /\ boot = "pmm" /\ halted = "no"
    /\ \E m \in MemoryMaps \ {NoMap} : pmm_init(m)
    /\ boot' = "paging"
    /\ UNCHANGED <<owned, halted, page_directory, page_tables, ptes, cr2>>

\* The boot loader passed no memory map: MISSING_MEMORY_MAP, a panic.
BootNoMap ==
    /\ boot = "pmm" /\ halted = "no"
    /\ halted' = "nomap"
    /\ UNCHANGED <<pmm_vars, boot, page_directory, page_tables, ptes, cr2>>

\* paging_init does not look at what pmm_alloc_frame returned: NULL, for
\* frame 0 or for no frame at all, makes frame 0 the first table.
paging_init_NoAlloc ==
    /\ boot = "paging" /\ halted = "no"
    /\ LET first_table == pmm_alloc_frame(bitmap) IN
          /\ ptes' = [ptes EXCEPT ![first_table] = IdentityTable]
          /\ page_directory' =
                [d \in Dir |-> IF d = 0 THEN first_table ELSE NONE]
          /\ page_tables' = [d \in Dir |-> IF d = 0 THEN first_table ELSE NULL]
    /\ boot' = "run"
    /\ UNCHANGED <<pmm_vars, halted, cr2>>

paging_init ==
    /\ boot = "paging" /\ halted = "no"
    /\ LET first_table == pmm_alloc_frame(bitmap) IN
          /\ ptes' = [ptes EXCEPT ![first_table] = IdentityTable]
          /\ page_directory' =
                [d \in Dir |-> IF d = 0 THEN first_table ELSE NONE]
          /\ page_tables' = [d \in Dir |-> IF d = 0 THEN first_table ELSE NULL]
          /\ owned' = owned \cup ({first_table} \ {NULL})
    /\ bitmap' = after_alloc(bitmap)
    /\ boot' = "run"
    /\ UNCHANGED <<total_frames, mmap, halted, cr2>>
-----------------------------------------------------------------------------
(* Faults. *)

\* The kernel touches a page that is not mapped.  Touching a mapped page
\* changes nothing here.
Access(p) ==
    /\ boot = "run" /\ halted = "no" /\ cr2 = NoPage
    /\ Translate(p) = NONE
    /\ cr2' = p
    /\ UNCHANGED <<pmm_vars, boot, halted, page_directory, page_tables, ptes>>

Faulting == boot = "run" /\ halted = "no" /\ cr2 # NoPage

\* "Unhandled Page Fault".
FatalFault ==
    /\ Faulting
    /\ ~ InHeapWindow(cr2)
    /\ halted' = "fault"
    /\ UNCHANGED <<pmm_vars, boot, page_directory, page_tables, ptes, cr2>>

\* "Out of physical memory during demand paging".
OutOfMemory ==
    /\ Faulting
    /\ InHeapWindow(cr2)
    /\ pmm_alloc_frame(bitmap) = NULL
    /\ bitmap' = after_alloc(bitmap)
    /\ halted' = "oom"
    /\ UNCHANGED <<total_frames, mmap, owned, boot, page_directory,
                   page_tables, ptes, cr2>>

\* map_page(p, frame) when the directory has a table for p.
MapInTable(p, frame) ==
    LET table == page_tables[p[1]] IN
        /\ table # NULL
        /\ ptes' = [ptes EXCEPT ![table][p[2]] = frame]
        /\ bitmap' = after_alloc(bitmap)
        /\ owned' = owned \cup {frame}
        /\ UNCHANGED <<page_directory, page_tables>>

\* map_page(p, frame) when it has none: the second frame of this fault
\* becomes the table.  The clearing loop writes to it through its physical
\* address.
MapInNewTable_NotCleared(p, frame) ==
    LET table == pmm_alloc_frame(after_alloc(bitmap)) IN
        /\ page_tables[p[1]] = NULL
        /\ Reachable(table)
        /\ ptes' = [ptes EXCEPT ![table][p[2]] = frame]
        /\ page_directory' = [page_directory EXCEPT ![p[1]] = table]
        /\ page_tables' = [page_tables EXCEPT ![p[1]] = table]
        /\ bitmap' = after_alloc(after_alloc(bitmap))
        /\ owned' = owned \cup {frame, table}

MapInNewTable_NotTracked(p, frame) ==
    LET table == pmm_alloc_frame(after_alloc(bitmap)) IN
        /\ page_tables[p[1]] = NULL
        /\ Reachable(table)
        /\ ptes' = [ptes EXCEPT ![table] = [Cleared EXCEPT ![p[2]] = frame]]
        /\ page_directory' = [page_directory EXCEPT ![p[1]] = table]
        /\ UNCHANGED page_tables
        /\ bitmap' = after_alloc(after_alloc(bitmap))
        /\ owned' = owned \cup {frame, table}

MapInNewTable(p, frame) ==
    LET table == pmm_alloc_frame(after_alloc(bitmap)) IN
        /\ page_tables[p[1]] = NULL
        /\ Reachable(table)
        /\ ptes' = [ptes EXCEPT ![table] = [Cleared EXCEPT ![p[2]] = frame]]
        /\ page_directory' = [page_directory EXCEPT ![p[1]] = table]
        /\ page_tables' = [page_tables EXCEPT ![p[1]] = table]
        /\ bitmap' = after_alloc(after_alloc(bitmap))
        /\ owned' = owned \cup {frame, table}

DemandPage ==
    /\ Faulting
    /\ InHeapWindow(cr2)
    /\ LET frame == pmm_alloc_frame(bitmap) IN
          /\ frame # NULL
          /\ MapInTable(cr2, frame) \/ MapInNewTable(cr2, frame)
    /\ cr2' = NoPage
    /\ UNCHANGED <<total_frames, mmap, boot, halted>>

\* The clearing loop of map_page faults on its first write.  At address 0,
\* which is what pmm_alloc_frame returns when memory has run out, the nested
\* fault is fatal.  Above the identity map each nested fault in the heap
\* window needs a table for the same directory entry and faults in turn, so
\* that no fault of the chain returns.
TableUnreachable ==
    /\ Faulting
    /\ InHeapWindow(cr2)
    /\ page_tables[cr2[1]] = NULL
    /\ LET frame == pmm_alloc_frame(bitmap)
           table == pmm_alloc_frame(after_alloc(bitmap)) IN
          /\ frame # NULL
          /\ ~ Reachable(table)
          /\ halted' = IF table = NULL THEN "fault" ELSE "nested"
          /\ owned' = owned \cup {frame} \cup ({table} \ {NULL})
    /\ bitmap' = after_alloc(after_alloc(bitmap))
    /\ UNCHANGED <<total_frames, mmap, boot, page_directory, page_tables,
                   ptes, cr2>>

PagingNext ==
    \/ BootPmm \/ BootNoMap \/ paging_init
    \/ \E p \in Page : Access(p)
    \/ FatalFault \/ OutOfMemory \/ DemandPage \/ TableUnreachable

PagingSpec == PagingInit /\ [][PagingNext]_paging_vars
-----------------------------------------------------------------------------
(* Properties. *)

Running == boot = "run" /\ halted = "no"

Tables == {page_directory[d] : d \in Dir} \ {NONE}

HeapPages == {p \in Page : p[1] # 0 /\ Translate(p) # NONE}

HeapFrames == {Translate(p) : p \in HeapPages}

PagingTypeOK ==
    /\ PmmTypeOK
    /\ boot \in {"pmm", "paging", "run"}
    /\ halted \in Halts
    /\ page_directory \in [Dir -> PhysFrames \cup {NONE}]
    /\ page_tables \in [Dir -> PhysFrames]
    /\ ptes \in [PhysFrames -> [Idx -> Nat \cup {NONE}]]
    /\ cr2 \in Page \cup {NoPage}

(* Nobody shares a frame.  The page tables, the frames behind the pages of *)
(* the heap window, the kernel image and the bitmap are disjoint; no two   *)
(* heap pages share a frame, no two directory entries share a table; and   *)
(* all of them are marked used, so that pmm_alloc_frame cannot give them   *)
(* out again.  (paging_init and map_page take frames without looking at    *)
(* what they hold; frame 0 may be the first table without being free.)     *)
FramesExclusive ==
    boot = "run" =>
        /\ Tables \cap HeapFrames = {}
        /\ (HeapFrames \cup (Tables \ {0})) \cap Reserved(total_frames) = {}
        /\ HeapFrames \cup (Tables \ {0}) \subseteq bitmap
        /\ \A p, q \in HeapPages : Translate(p) = Translate(q) => p = q
        /\ \A d, e \in Dir :
              page_directory[d] # NONE /\ page_directory[d] = page_directory[e]
                  => d = e

(* The kernel panics over memory only when there is none, but for a rest:  *)
(* "Out of physical memory" is said, and a fault inside the heap window is *)
(* fatal, only when every frame whose bit is clear is one of the fewer     *)
(* than BITS frames that do not fill a bitmap word; a fault on the new     *)
(* table happens only when that is so of the frames under the identity     *)
(* map.  Frame 0, whose address pmm_alloc_frame cannot tell from failure,  *)
(* is out of the way by then.  OutOfMemoryExact is the same without the    *)
(* rest, and the code violates it.                                         *)
PanicJustified ==
    /\ halted = "oom" => ClearFrames(bitmap) \subseteq LastFrames
    /\ halted = "fault" /\ InHeapWindow(cr2) => ClearFrames(bitmap) \subseteq LastFrames
    /\ halted = "nested" => ClearFrames(bitmap) \cap Idx \subseteq LastFrames

(* "Out of physical memory during demand paging" is true: when the kernel  *)
(* says so, pmm_get_free_frames counts no free frame.  It does not hold:   *)
(* first_free_frame looks at total_frames / 32 words, and the frames of    *)
(* the last word are counted free and never found.                         *)
OutOfMemoryExact == halted = "oom" => pmm_get_free_frames = 0

(* Once paging is on, the kernel image, the bitmap and every page table    *)
(* that map_page will write to again stay mapped to themselves (as far as  *)
(* the identity map reaches), page 0 stays unmapped, and page_tables       *)
(* agrees with what the MMU sees.                                          *)
KernelMapped ==
    boot = "run" =>
        /\ \A f \in (Reserved(total_frames) \cap Idx) \ {0} : Reachable(f)
        /\ \A d \in Dir \ {0} : page_tables[d] # NULL => Reachable(page_tables[d])
        /\ Translate(<<0, 0>>) = NONE
        /\ \A d \in Dir \ {0} :
              page_tables[d] = IF page_directory[d] = NONE
                               THEN NULL ELSE page_directory[d]

(* While the kernel runs, the frames taken from the physical memory        *)
(* manager are exactly the tables and the frames behind the heap pages: a  *)
(* fault that returns leaks nothing, and only pages of the heap window are *)
(* backed by it.                                                           *)
NoFrameLeaked ==
    /\ Running => owned \cup {0} = Tables \cup HeapFrames \cup {0}
    /\ boot = "run" => \A p \in HeapPages :
          PageNumber(p) \in HEAP_START .. HEAP_END - 1

(* A page that is mapped stays mapped to the same frame: the handler and   *)
(* map_page only ever fill entries that were not present (which the TLB    *)
(* does not cache, so that a stale translation cannot be used).            *)
MappingsStable ==
    [][boot = "run" =>
          \A p \in Page : Translate(p) # NONE => Translate(p)' = Translate(p)
      ]_paging_vars

\* What each frame is used for.  Frame 0 is left out: it may become the
\* first table without having been free.
OwnedFrames == PhysFrames \ {0}

OwnerOf(f) ==
    CASE boot = "pmm"                        -> "unknown"
      [] boot # "pmm" /\ f \in Tables        -> "table"
      [] boot # "pmm" /\ f \in HeapFrames    -> "heap"
      [] boot # "pmm" /\ f \notin Tables \cup HeapFrames ->
            IF f \in owned THEN "lost"
            ELSE IF f \in FreeFrames(bitmap) THEN "free" ELSE "held"

Ownership == INSTANCE FrameOwnership
    WITH Frames <- OwnedFrames, owner <- [f \in OwnedFrames |-> OwnerOf(f)]

(* Paging over the physical memory manager implements FrameOwnership: each *)
(* frame is classified once by pmm_init, a free one may become a table or  *)
(* heap memory (or be lost in a fault that ends in a panic), and nothing   *)
(* else ever happens to it.                                                *)
OwnershipRefinement == Ownership!OwnershipSpec
=============================================================================
