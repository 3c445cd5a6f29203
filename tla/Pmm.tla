-------------------------------- MODULE Pmm --------------------------------
(***************************************************************************)
(* The physical memory manager, src/kernel/mm/pmm.c: a bitmap with one bit *)
(* per frame, built from the Multiboot memory map by pmm_init, and the     *)
(* first-fit allocator over it.                                            *)
(*                                                                         *)
(* The bitmap is kept as the set of the frames whose bit is 1.  Addresses  *)
(* count abstract units, FRAME_SIZE of them per frame; a frame's address   *)
(* and its number determine each other, so frame numbers stand for         *)
(* addresses and NULL is the address of frame 0, as it is in the code.     *)
(* The map is a set: the two loops over it compute a maximum and clear     *)
(* bits, and do not depend on the order of its entries.                    *)
(*                                                                         *)
(* PmmSpec is the module on its own, with callers that allocate frames and *)
(* free the ones they own.  Paging extends this module and is its real     *)
(* client.                                                                 *)
(***************************************************************************)
EXTENDS Integers, FiniteSets, FiniteSetsExt

CONSTANTS
    FRAME_SIZE,     \* address units per frame (4096 bytes)
    BITS,           \* bits of one bitmap word (32)
    WORD_SIZE,      \* address units of one bitmap word (4 bytes)
    U32,            \* number of values of a uint32_t
    KERNEL_START,   \* address of the linker symbol kernel_start
    KERNEL_END,     \* address of the linker symbol kernel_end
    MemoryMaps      \* the memory maps a boot loader may pass

Region == [addr : Nat, len : Nat, usable : BOOLEAN]

ASSUME PmmAssumption ==
    /\ FRAME_SIZE \in Nat \ {0}
    /\ BITS \in Nat \ {0}
    /\ WORD_SIZE \in Nat
    /\ U32 \in Nat \ {0}
    /\ KERNEL_START \in Nat
    /\ KERNEL_END \in Nat
    /\ KERNEL_START <= KERNEL_END
    /\ \A m \in MemoryMaps : \A r \in m :
          r \in Region /\ (r.addr + r.len) \div FRAME_SIZE < U32

NULL == 0

Frame == Nat

VARIABLES
    bitmap,         \* the frames marked used
    total_frames,   \* frames below the highest address of the map
    mmap,           \* the memory map, NoMap before pmm_init
    owned           \* the frames callers hold (history)

pmm_vars == <<bitmap, total_frames, mmap, owned>>

NoMap == {}
-----------------------------------------------------------------------------
(* pmm_init.  region_end is a uint32_t: a region that ends at 4 GB ends at *)
(* address 0.  The frame bounds of a region divide the 64-bit sum first.   *)

region_end(r) == (r.addr + r.len) % U32

highest_addr(m) == Max({0} \cup {region_end(r) : r \in m})

FramesBelow(m) == highest_addr(m) \div FRAME_SIZE

\* The bits of the words that the "mark all used" loop fills: whole words
\* only, the word that holds the last total_frames % BITS frames is left as
\* the memory was.
MarkedUsed(t) == 0 .. (t \div BITS) * BITS - 1

bitmap_entries(t) == (t + BITS - 1) \div BITS

Unwritten(t) == ((t \div BITS) * BITS) .. (bitmap_entries(t) * BITS - 1)

RegionFrames(r) ==
    ((r.addr \div FRAME_SIZE) % U32) ..
        (((r.addr + r.len) \div FRAME_SIZE) % U32) - 1

UsableFrames(m) ==
    UNION {RegionFrames(r) : r \in {x \in m : x.usable}}

KernelFrames ==
    (KERNEL_START \div FRAME_SIZE) ..
        ((KERNEL_END + FRAME_SIZE - 1) \div FRAME_SIZE) - 1

BitmapFrames(t) ==
    (KERNEL_END \div FRAME_SIZE) ..
        ((KERNEL_END + bitmap_entries(t) * WORD_SIZE + FRAME_SIZE - 1)
            \div FRAME_SIZE) - 1

Reserved(t) == KernelFrames \cup BitmapFrames(t)

\* The bitmap that pmm_init leaves, garbage being what the memory after
\* kernel_end held when the kernel was loaded.
InitialBitmap_NoReserve(m, garbage) ==
    LET t == FramesBelow(m) IN
        ((MarkedUsed(t) \cup garbage) \ (UsableFrames(m) \cap (0 .. t - 1)))
            \cup KernelFrames

InitialBitmap(m, garbage) ==
    LET t == FramesBelow(m) IN
        ((MarkedUsed(t) \cup garbage) \ (UsableFrames(m) \cap (0 .. t - 1)))
            \cup Reserved(t)

pmm_init(m) ==
    /\ \E garbage \in SUBSET Unwritten(FramesBelow(m)) :
          bitmap' = InitialBitmap(m, garbage)
    /\ total_frames' = FramesBelow(m)
    /\ mmap' = m
-----------------------------------------------------------------------------
(* Allocation.  first_free_frame looks at whole words only.  The operators *)
(* take the bitmap as an argument: a page fault allocates twice.           *)

Scanned == 0 .. (total_frames \div BITS) * BITS - 1

FreeFrames(bm) == Scanned \ bm

first_free_frame_FirstWord(bm) ==
    IF FreeFrames(bm) \cap (0 .. BITS - 1) = {}
    THEN -1 ELSE Min(FreeFrames(bm))

first_free_frame(bm) ==
    IF FreeFrames(bm) = {} THEN -1 ELSE Min(FreeFrames(bm))

set_frame(bm, f) == bm \cup {f}

clear_frame(bm, f) == bm \ {f}

\* The frame pmm_alloc_frame returns: NULL when there is none, and also when
\* it is frame 0.
pmm_alloc_frame_NoCheck(bm) == first_free_frame(bm)

pmm_alloc_frame(bm) ==
    IF first_free_frame(bm) = -1 THEN NULL ELSE first_free_frame(bm)

\* The bitmap after pmm_alloc_frame.
after_alloc_NoMark(bm) == bm

after_alloc(bm) ==
    IF first_free_frame(bm) = -1 THEN bm ELSE set_frame(bm, first_free_frame(bm))

\* The frames whose bit is clear, which pmm_get_free_frames counts.
ClearFrames(bm) == (0 .. total_frames - 1) \ bm

pmm_get_free_frames == Cardinality(ClearFrames(bitmap))

\* The frames above the last whole word of the bitmap: first_free_frame does
\* not look at them.
LastFrames == (total_frames \div BITS) * BITS .. total_frames - 1
-----------------------------------------------------------------------------
(* The module on its own. *)

PmmInit ==
    /\ bitmap = {}
    /\ total_frames = 0
    /\ mmap = NoMap
    /\ owned = {}

PmmBoot ==
    /\ mmap = NoMap
    /\ \E m \in MemoryMaps \ {NoMap} : pmm_init(m)
    /\ UNCHANGED owned

PmmAlloc ==
    /\ mmap # NoMap
    /\ bitmap' = after_alloc(bitmap)
    /\ owned' = owned \cup ({pmm_alloc_frame(bitmap)} \ {NULL})
    /\ UNCHANGED <<total_frames, mmap>>

\* pmm_free_frame has no caller in the kernel and no check: here a caller
\* frees a frame it owns.
pmm_free_frame(f) ==
    /\ f \in owned
    /\ bitmap' = clear_frame(bitmap, f)
    /\ owned' = owned \ {f}
    /\ UNCHANGED <<total_frames, mmap>>

PmmNext == PmmBoot \/ PmmAlloc \/ \E f \in owned : pmm_free_frame(f)

PmmSpec == PmmInit /\ [][PmmNext]_pmm_vars
-----------------------------------------------------------------------------
PmmTypeOK ==
    /\ bitmap \subseteq Frame
    /\ total_frames \in Nat
    /\ mmap \in MemoryMaps \cup {NoMap}
    /\ owned \subseteq Frame

Addresses(f) == f * FRAME_SIZE .. (f + 1) * FRAME_SIZE - 1

UsableAddress(a) ==
    \E r \in mmap : r.usable /\ r.addr <= a /\ a < r.addr + r.len

WhollyUsable(f) == \A a \in Addresses(f) : UsableAddress(a)

\* A usable region begins inside the frame, not at its start, and goes on to
\* its end.
CutByRegionStart(f) ==
    \E r \in mmap :
        /\ r.usable
        /\ f * FRAME_SIZE < r.addr
        /\ r.addr < (f + 1) * FRAME_SIZE
        /\ (f + 1) * FRAME_SIZE <= r.addr + r.len

(* A frame a caller holds is marked used, is neither the kernel image nor  *)
(* the bitmap itself, and every address of it is in a usable region of the *)
(* map, whatever the map and the sequence of allocations and frees, with   *)
(* one exception: pmm_init rounds the start of a region down, so a frame   *)
(* inside which a usable region begins is handed out too, and what lies    *)
(* below that start need not be usable.  OwnedFramesUsable says the same   *)
(* without the exception, and the code violates it.                        *)
OwnedFramesAreSafe ==
    \A f \in owned :
        /\ f \in bitmap
        /\ f \notin Reserved(total_frames)
        /\ WhollyUsable(f) \/ CutByRegionStart(f)

(* Every address of a frame that a caller holds is usable memory: the loop *)
(* of pmm_init that frees the frames of a region says that it frees usable *)
(* memory.  It does not hold: the loop starts at addr / FRAME_SIZE.        *)
OwnedFramesUsable == \A f \in owned : WhollyUsable(f)

(* Every frame the allocator can reach is either free or held: none is     *)
(* lost by first_free_frame, set_frame and clear_frame.  Frame 0 is the    *)
(* exception: its address is NULL, so once it is allocated no caller knows *)
(* of it.                                                                  *)
NoFrameLost ==
    \A f \in (UsableFrames(mmap) \cap Scanned) \ (Reserved(total_frames) \cup {0}) :
        f \in bitmap <=> f \in owned
=============================================================================
