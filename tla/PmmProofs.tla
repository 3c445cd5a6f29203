----------------------------- MODULE PmmProofs -----------------------------
(***************************************************************************)
(* What the allocator's operators return, for every size of memory and     *)
(* every memory map, and the type invariant of Pmm.  PagingProofs builds   *)
(* on these facts.                                                         *)
(***************************************************************************)
EXTENDS Pmm, WellFoundedInduction, TLAPS

(* A set of natural numbers that is not empty has a least element. *)
LEMMA LeastNat ==
    ASSUME NEW T, T \subseteq Nat, T # {}
    PROVE  \E x \in T : \A y \in T : x <= y
<1> DEFINE R == {ss \in Nat \X Nat : ss[1] < ss[2]}
<1>1. IsWellFoundedOn(R, Nat)
  BY ONLY NatLessThanWellFounded, Zenon DEF OpToRel
<1>2. \E x \in T : \A y \in T : ~ (<<y, x>> \in R)
  <2> HIDE DEF R
  <2> QED BY <1>1, WFMin
<1>3. \A x, y \in T : ~ (<<y, x>> \in R) => x <= y
  OBVIOUS
<1> QED BY <1>2, <1>3

(* A bounded set of natural numbers that is not empty has a greatest one.  *)
LEMMA GreatestNat ==
    ASSUME NEW T, T \subseteq Nat, T # {}, NEW b \in Nat, \A y \in T : y <= b
    PROVE  \E x \in T : \A y \in T : y <= x
<1> DEFINE U == {n \in Nat : \A y \in T : y <= n}
<1>1. U \subseteq Nat /\ U # {}
  OBVIOUS
<1>2. PICK u \in U : \A v \in U : u <= v
  <2> HIDE DEF U
  <2> QED BY <1>1, LeastNat
<1>3. u \in T
  <2> SUFFICES ASSUME u \notin T PROVE FALSE
    OBVIOUS
  <2>1. \A y \in T : y < u
    OBVIOUS
  <2>2. u - 1 \in Nat
    <3>1. PICK y \in T : TRUE
      OBVIOUS
    <3>2. y \in Nat /\ u \in Nat /\ y < u
      BY <1>1, <2>1, <3>1
    <3> QED BY <3>2
  <2>3. u - 1 \in U
    BY <2>1, <2>2
  <2> QED BY <1>2, <2>3
<1> QED BY <1>3

(* first_free_frame scans only frames of the map. *)
LEMMA ScannedBelowTotal ==
    ASSUME total_frames \in Nat
    PROVE  Scanned \subseteq 0 .. total_frames - 1
<1>1. (total_frames \div BITS) * BITS <= total_frames
  BY PmmAssumption
<1> QED BY <1>1, PmmAssumption DEF Scanned

(* first_free_frame returns the lowest free frame, or -1. *)
LEMMA FirstFree ==
    ASSUME total_frames \in Nat, NEW bm
    PROVE  IF FreeFrames(bm) = {}
           THEN first_free_frame(bm) = -1
           ELSE /\ first_free_frame(bm) \in FreeFrames(bm)
                /\ \A f \in FreeFrames(bm) : first_free_frame(bm) <= f
<1>1. FreeFrames(bm) \subseteq Nat
  BY ScannedBelowTotal DEF FreeFrames
<1>2. CASE FreeFrames(bm) = {}
  BY <1>2 DEF first_free_frame
<1>3. CASE FreeFrames(bm) # {}
  <2>1. \E x \in FreeFrames(bm) : \A y \in FreeFrames(bm) : x <= y
    BY <1>1, <1>3, LeastNat
  <2>2. first_free_frame(bm) =
           CHOOSE x \in FreeFrames(bm) : \A y \in FreeFrames(bm) : x <= y
    BY <1>3 DEF first_free_frame, Min
  <2> QED BY <1>3, <2>1, <2>2
<1> QED BY <1>2, <1>3

(* What pmm_alloc_frame returns and does to the bitmap.  NULL means that   *)
(* no frame is free or that frame 0 was.                                   *)
LEMMA AllocFrame ==
    ASSUME total_frames \in Nat, NEW bm
    PROVE  /\ pmm_alloc_frame(bm) # NULL =>
                 /\ pmm_alloc_frame(bm) \in FreeFrames(bm)
                 /\ \A f \in FreeFrames(bm) : pmm_alloc_frame(bm) <= f
                 /\ after_alloc(bm) = bm \cup {pmm_alloc_frame(bm)}
           /\ pmm_alloc_frame(bm) = NULL =>
                 \/ FreeFrames(bm) = {} /\ after_alloc(bm) = bm
                 \/ 0 \in FreeFrames(bm) /\ after_alloc(bm) = bm \cup {0}
<1>1. FreeFrames(bm) \subseteq Nat
  BY ScannedBelowTotal DEF FreeFrames
<1>2. CASE FreeFrames(bm) = {}
  BY <1>2, FirstFree DEF pmm_alloc_frame, after_alloc
<1>3. CASE FreeFrames(bm) # {}
  <2>1. first_free_frame(bm) \in FreeFrames(bm) /\ first_free_frame(bm) # -1
    BY <1>1, <1>3, FirstFree
  <2>2. pmm_alloc_frame(bm) = first_free_frame(bm)
    BY <2>1 DEF pmm_alloc_frame
  <2>3. after_alloc(bm) = bm \cup {first_free_frame(bm)}
    BY <2>1 DEF after_alloc, set_frame
  <2> QED BY <1>3, <2>1, <2>2, <2>3, FirstFree DEF NULL
<1> QED BY <1>2, <1>3

(* An allocation marks at most one frame, and that one was free. *)
LEMMA AllocWithin ==
    ASSUME total_frames \in Nat, NEW bm
    PROVE  bm \subseteq after_alloc(bm) /\ after_alloc(bm) \subseteq bm \cup FreeFrames(bm)
<1>1. CASE pmm_alloc_frame(bm) = NULL
  BY <1>1, AllocFrame
<1>2. CASE pmm_alloc_frame(bm) # NULL
  BY <1>2, AllocFrame
<1> QED BY <1>1, <1>2

(* pmm_init computes the number of frames in 32 bits. *)
LEMMA FramesBelowBound ==
    ASSUME NEW m \in MemoryMaps
    PROVE  /\ FramesBelow(m) \in Nat
           /\ FramesBelow(m) <= U32 \div FRAME_SIZE
<1> DEFINE T == {0} \cup {region_end(r) : r \in m}
<1>1. \A r \in m : region_end(r) \in 0 .. U32 - 1
  BY PmmAssumption DEF region_end, Region
<1>2. T \subseteq Nat /\ T # {} /\ \A y \in T : y <= U32 - 1 /\ y \in 0 .. U32
  BY <1>1, PmmAssumption
<1>3. \E x \in T : \A y \in T : x >= y
  <2>1. U32 - 1 \in Nat
    BY PmmAssumption
  <2> HIDE DEF T
  <2>2. \E x \in T : \A y \in T : y <= x
    BY <1>2, <2>1, GreatestNat
  <2> QED BY <1>2, <2>2
<1>4. highest_addr(m) \in T
  <2>1. highest_addr(m) = CHOOSE x \in T : \A y \in T : x >= y
    BY DEF highest_addr, Max
  <2> HIDE DEF T
  <2> QED BY <1>3, <2>1
<1>5. highest_addr(m) \in 0 .. U32
  <2> HIDE DEF T
  <2> QED BY <1>2, <1>4
<1>6. \A x, y \in Nat : x <= y => x \div FRAME_SIZE <= y \div FRAME_SIZE
  BY PmmAssumption
<1>7. \A x \in Nat : x \div FRAME_SIZE \in Nat
  BY PmmAssumption
<1> QED BY <1>5, <1>6, <1>7, PmmAssumption DEF FramesBelow

(* pmm_init marks the kernel and the bitmap used, and sets only bits of    *)
(* frames.                                                                 *)
LEMMA InitialBitmapFacts ==
    ASSUME NEW m \in MemoryMaps,
           NEW garbage \in SUBSET Unwritten(FramesBelow(m))
    PROVE  /\ InitialBitmap(m, garbage) \subseteq Frame
           /\ Reserved(FramesBelow(m)) \subseteq InitialBitmap(m, garbage)
<1> DEFINE t == FramesBelow(m)
<1>1. t \in Nat
  BY FramesBelowBound
<1>2. \A x \in Nat : x \div FRAME_SIZE \in Nat
  BY PmmAssumption
<1>3. (t \div BITS) * BITS \in Nat
  BY <1>1, PmmAssumption
<1>4. MarkedUsed(t) \subseteq Nat /\ Unwritten(t) \subseteq Nat
  BY <1>3 DEF MarkedUsed, Unwritten
<1>5. KernelFrames \subseteq Nat /\ BitmapFrames(t) \subseteq Nat
  BY <1>2, PmmAssumption DEF KernelFrames, BitmapFrames
<1> HIDE DEF t
<1>6. Reserved(t) \subseteq Nat
  BY <1>5 DEF Reserved
<1> QED BY <1>4, <1>6 DEF InitialBitmap, Frame, t

(* Every step keeps the types. *)
LEMMA PmmTypeStep == PmmTypeOK /\ [PmmNext]_pmm_vars => PmmTypeOK'
<1> SUFFICES ASSUME PmmTypeOK, [PmmNext]_pmm_vars
             PROVE  PmmTypeOK'
  OBVIOUS
<1>1. CASE PmmBoot
  <2>1. PICK m \in MemoryMaps : pmm_init(m)
    BY <1>1 DEF PmmBoot
  <2> QED BY <1>1, <2>1, FramesBelowBound, InitialBitmapFacts
          DEF PmmTypeOK, PmmBoot, pmm_init
<1>2. CASE PmmAlloc
  <2>1. FreeFrames(bitmap) \subseteq Nat
    BY ScannedBelowTotal DEF FreeFrames, PmmTypeOK
  <2>2. after_alloc(bitmap) \subseteq Frame
    <3>1. after_alloc(bitmap) \subseteq bitmap \cup FreeFrames(bitmap)
      BY AllocWithin DEF PmmTypeOK
    <3> QED BY <2>1, <3>1 DEF PmmTypeOK, Frame
  <2>3. {pmm_alloc_frame(bitmap)} \ {NULL} \subseteq Frame
    BY <2>1, AllocFrame DEF PmmTypeOK, Frame
  <2> QED BY <1>2, <2>2, <2>3 DEF PmmTypeOK, PmmAlloc
<1>3. ASSUME NEW f \in owned, pmm_free_frame(f)
      PROVE  PmmTypeOK'
  BY <1>3 DEF PmmTypeOK, pmm_free_frame, clear_frame
<1>4. CASE UNCHANGED pmm_vars
  BY <1>4 DEF PmmTypeOK, pmm_vars
<1> QED BY <1>1, <1>2, <1>3, <1>4 DEF PmmNext

(* The type invariant of the physical memory manager, whatever the memory  *)
(* map and whatever the callers do: pmm_alloc_frame never marks or returns *)
(* the -1 of first_free_frame.                                             *)
THEOREM PmmTypeCorrect == PmmSpec => []PmmTypeOK
<1>1. PmmInit => PmmTypeOK
  BY DEF PmmInit, PmmTypeOK
<1> QED BY <1>1, PmmTypeStep, PTL DEF PmmSpec
-----------------------------------------------------------------------------
(* The frames that callers hold. *)

\* What the bitmap calls free is usable memory, and nothing else lives there;
\* neither frees nor allocations change that, because callers free what they
\* were given.
FreeIsUsable ==
    mmap # NoMap => FreeFrames(bitmap) \subseteq UsableFrames(mmap) \ Reserved(total_frames)

OwnedIsUsable ==
    owned \subseteq (bitmap \cap UsableFrames(mmap)) \ Reserved(total_frames)

PmmInv ==
    /\ PmmTypeOK
    /\ mmap = NoMap => owned = {}
    /\ FreeIsUsable
    /\ OwnedIsUsable
    /\ NoFrameLost

(* The frame of an address begins at or below it and ends above it. *)
LEMMA FrameOfAddress ==
    ASSUME NEW a \in Nat
    PROVE  /\ a \div FRAME_SIZE \in Nat
           /\ (a \div FRAME_SIZE) * FRAME_SIZE <= a
           /\ a < (a \div FRAME_SIZE + 1) * FRAME_SIZE
BY PmmAssumption

(* More frames take more memory. *)
LEMMA FramesGrow ==
    ASSUME NEW x \in Nat, NEW y \in Nat, x <= y
    PROVE  x * FRAME_SIZE <= y * FRAME_SIZE
BY PmmAssumption

(* A frame that pmm_init takes from a usable region lies in that region,   *)
(* unless the region begins inside it.                                     *)
LEMMA UsableInMemory ==
    ASSUME PmmTypeOK, NEW f \in UsableFrames(mmap)
    PROVE  WhollyUsable(f) \/ CutByRegionStart(f)
<1>1. PICK r \in mmap : r.usable /\ f \in RegionFrames(r)
  BY DEF UsableFrames
<1> DEFINE first == r.addr \div FRAME_SIZE
           last == (r.addr + r.len) \div FRAME_SIZE
<1>2. mmap \in MemoryMaps
  BY <1>1 DEF PmmTypeOK, NoMap
<1>3. /\ r.addr \in Nat /\ r.len \in Nat /\ r.addr + r.len \in Nat
      /\ last < U32
  BY <1>1, <1>2, PmmAssumption DEF Region
<1>4. /\ first \in Nat /\ r.addr < (first + 1) * FRAME_SIZE
      /\ last \in Nat /\ last * FRAME_SIZE <= r.addr + r.len
  BY <1>3, FrameOfAddress
<1>5. first <= last
  BY <1>3, PmmAssumption
<1> HIDE DEF first, last
<1>6. first % U32 = first /\ last % U32 = last
  BY <1>3, <1>4, <1>5, PmmAssumption
<1>7. f \in first .. last - 1
  BY <1>1, <1>6 DEF RegionFrames, first, last
<1>8. /\ f + 1 \in Nat /\ first + 1 <= f + 1 /\ f + 1 <= last
  BY <1>4, <1>7
<1>9. /\ (first + 1) * FRAME_SIZE <= (f + 1) * FRAME_SIZE
      /\ (f + 1) * FRAME_SIZE <= last * FRAME_SIZE
  BY <1>4, <1>8, FramesGrow
<1>10. (first + 1) * FRAME_SIZE \in Nat /\ (f + 1) * FRAME_SIZE \in Nat /\ last * FRAME_SIZE \in Nat
  BY <1>4, <1>8, PmmAssumption
<1>11. r.addr < (f + 1) * FRAME_SIZE /\ (f + 1) * FRAME_SIZE <= r.addr + r.len
  BY <1>3, <1>4, <1>9, <1>10
<1>12. f \in Nat /\ f * FRAME_SIZE \in Nat
  BY <1>4, <1>7, PmmAssumption
<1>13. CASE r.addr <= f * FRAME_SIZE
  <2>1. ASSUME NEW a \in Addresses(f) PROVE UsableAddress(a)
    <3>1. a \in Nat /\ f * FRAME_SIZE <= a /\ a < (f + 1) * FRAME_SIZE
      BY <1>10, <1>12 DEF Addresses
    <3>2. r.addr <= a /\ a < r.addr + r.len
      BY <1>3, <1>10, <1>11, <1>12, <1>13, <3>1
    <3> QED BY <1>1, <3>2 DEF UsableAddress
  <2> QED BY <2>1 DEF WhollyUsable
<1>14. CASE f * FRAME_SIZE < r.addr
  BY <1>1, <1>11, <1>14 DEF CutByRegionStart
<1> QED BY <1>3, <1>12, <1>13, <1>14

(* The bitmap after pmm_init: among the frames that first_free_frame will  *)
(* look at, the usable ones that are not reserved are free, and no other.  *)
LEMMA InitialFree ==
    ASSUME NEW m \in MemoryMaps, pmm_init(m)
    PROVE  /\ FreeFrames(bitmap)' \subseteq UsableFrames(m) \ Reserved(FramesBelow(m))
           /\ Scanned' \cap UsableFrames(m) \cap bitmap' \subseteq Reserved(FramesBelow(m))
<1> DEFINE t == FramesBelow(m)
<1>1. t \in Nat /\ total_frames' = t /\ mmap' = m
  BY FramesBelowBound DEF pmm_init
<1>2. PICK garbage \in SUBSET Unwritten(t) : bitmap' = InitialBitmap(m, garbage)
  BY DEF pmm_init
<1>3. Scanned' = MarkedUsed(t)
  BY <1>1 DEF Scanned, MarkedUsed
<1>4. MarkedUsed(t) \subseteq 0 .. t - 1
  <2>1. (t \div BITS) * BITS <= t /\ (t \div BITS) * BITS \in Nat
    BY <1>1, PmmAssumption
  <2> QED BY <1>1, <2>1 DEF MarkedUsed
<1>5. MarkedUsed(t) \cap Unwritten(t) = {}
  <2>1. (t \div BITS) * BITS \in Nat
    BY <1>1, PmmAssumption
  <2> QED BY <2>1 DEF MarkedUsed, Unwritten
<1>6. bitmap' = ((MarkedUsed(t) \cup garbage) \ (UsableFrames(m) \cap (0 .. t - 1)))
                   \cup Reserved(t)
  BY <1>2 DEF InitialBitmap
<1>7. FreeFrames(bitmap)' = Scanned' \ bitmap'
  BY DEF FreeFrames
<1> HIDE DEF t
<1>8. FreeFrames(bitmap)' \subseteq UsableFrames(m) \ Reserved(t)
  BY <1>3, <1>4, <1>6, <1>7
<1>9. Scanned' \cap UsableFrames(m) \cap bitmap' \subseteq Reserved(t)
  BY <1>3, <1>4, <1>6
<1> QED BY <1>8, <1>9 DEF t

(* PmmInv holds at the start. *)
LEMMA PmmInvInit == PmmInit => PmmInv
<1> SUFFICES ASSUME PmmInit PROVE PmmInv
  OBVIOUS
<1>1. mmap = {} /\ owned = {} /\ bitmap = {} /\ total_frames = 0
  BY DEF PmmInit, NoMap
<1>2. UsableFrames(mmap) = {}
  BY <1>1 DEF UsableFrames
<1> QED BY <1>1, <1>2 DEF PmmInv, PmmTypeOK, NoMap, FreeIsUsable, OwnedIsUsable, NoFrameLost

(* Every step keeps it. *)
LEMMA PmmInvStep == PmmInv /\ [PmmNext]_pmm_vars => PmmInv'
<1> SUFFICES ASSUME PmmInv, PmmTypeOK', [PmmNext]_pmm_vars PROVE PmmInv'
  BY PmmTypeStep DEF PmmInv
<1>1. CASE PmmBoot
  <2>1. PICK m \in MemoryMaps \ {NoMap} : pmm_init(m)
    BY <1>1 DEF PmmBoot
  <2>2. mmap' = m /\ total_frames' = FramesBelow(m) /\ owned' = {}
    BY <1>1, <2>1 DEF PmmBoot, pmm_init, PmmInv
  <2>3. /\ UsableFrames(mmap)' = UsableFrames(m)
        /\ Reserved(total_frames)' = Reserved(FramesBelow(m))
    BY <2>2 DEF UsableFrames, Reserved, BitmapFrames, bitmap_entries
  <2>4. FreeIsUsable'
    BY <2>1, <2>3, InitialFree DEF FreeIsUsable
  <2>5. NoFrameLost'
    BY <2>1, <2>2, <2>3, InitialFree DEF NoFrameLost
  <2> QED BY <2>2, <2>4, <2>5 DEF PmmInv, OwnedIsUsable
<1>2. CASE PmmAlloc
  <2>1. /\ UNCHANGED <<total_frames, mmap>> /\ mmap # NoMap
        /\ bitmap' = after_alloc(bitmap)
        /\ owned' = owned \cup ({pmm_alloc_frame(bitmap)} \ {NULL})
    BY <1>2 DEF PmmAlloc
  <2>2. /\ UsableFrames(mmap)' = UsableFrames(mmap)
        /\ Reserved(total_frames)' = Reserved(total_frames) /\ Scanned' = Scanned
        /\ FreeFrames(bitmap)' = Scanned \ bitmap'
        /\ FreeFrames(bitmap) = Scanned \ bitmap
    BY <2>1 DEF UsableFrames, Reserved, BitmapFrames, bitmap_entries, Scanned, FreeFrames
  <2>3. total_frames \in Nat
    BY DEF PmmInv, PmmTypeOK
  <2>4. CASE pmm_alloc_frame(bitmap) = NULL
    <3>1. bitmap' = bitmap \/ bitmap' = bitmap \cup {0}
      BY <2>1, <2>3, <2>4, AllocFrame
    <3>2. owned' = owned
      BY <2>1, <2>4
    <3>3. FreeIsUsable' /\ OwnedIsUsable'
      BY <2>1, <2>2, <3>1, <3>2 DEF PmmInv, FreeIsUsable, OwnedIsUsable
    <3>4. NoFrameLost'
      BY <2>1, <2>2, <3>1, <3>2 DEF PmmInv, NoFrameLost
    <3> QED BY <2>1, <3>2, <3>3, <3>4 DEF PmmInv
  <2>5. CASE pmm_alloc_frame(bitmap) # NULL
    <3> DEFINE g == pmm_alloc_frame(bitmap)
    <3>1. g \in FreeFrames(bitmap) /\ bitmap' = bitmap \cup {g} /\ owned' = owned \cup {g}
      BY <2>1, <2>3, <2>5, AllocFrame
    <3> HIDE DEF g
    <3>2. FreeIsUsable' /\ OwnedIsUsable'
      BY <2>1, <2>2, <3>1 DEF PmmInv, FreeIsUsable, OwnedIsUsable
    <3>3. NoFrameLost'
      BY <2>1, <2>2, <3>1 DEF PmmInv, NoFrameLost
    <3> QED BY <2>1, <3>2, <3>3 DEF PmmInv
  <2> QED BY <2>4, <2>5
<1>3. ASSUME NEW f \in owned, pmm_free_frame(f)
      PROVE  PmmInv'
  <2>1. /\ UNCHANGED <<total_frames, mmap>>
        /\ bitmap' = bitmap \ {f} /\ owned' = owned \ {f}
    BY <1>3 DEF pmm_free_frame, clear_frame
  <2>2. /\ UsableFrames(mmap)' = UsableFrames(mmap)
        /\ Reserved(total_frames)' = Reserved(total_frames) /\ Scanned' = Scanned
        /\ FreeFrames(bitmap)' = Scanned \ bitmap'
        /\ FreeFrames(bitmap) = Scanned \ bitmap
    BY <2>1 DEF UsableFrames, Reserved, BitmapFrames, bitmap_entries, Scanned, FreeFrames
  <2>3. FreeIsUsable' /\ OwnedIsUsable'
    BY <2>1, <2>2 DEF PmmInv, FreeIsUsable, OwnedIsUsable
  <2>4. NoFrameLost'
    BY <2>1, <2>2 DEF PmmInv, NoFrameLost
  <2> QED BY <2>1, <2>3, <2>4 DEF PmmInv
<1>4. CASE UNCHANGED pmm_vars
  BY <1>4 DEF PmmInv, pmm_vars, FreeIsUsable, OwnedIsUsable, NoFrameLost, UsableFrames,
              Reserved, BitmapFrames, bitmap_entries, Scanned, FreeFrames
<1> QED BY <1>1, <1>2, <1>3, <1>4 DEF PmmNext

(* The inductive invariant of the physical memory manager. *)
THEOREM PmmInvariant == PmmSpec => []PmmInv
BY PmmInvInit, PmmInvStep, PTL DEF PmmSpec

(* For every memory map, and every sequence of allocations and frees, what *)
(* pmm_alloc_frame hands out is usable memory in which neither the kernel  *)
(* nor its bitmap lies; only the head of a frame inside which a region     *)
(* begins need not be usable.                                              *)
THEOREM PmmOwnedSafe == PmmSpec => []OwnedFramesAreSafe
<1>1. PmmInv => OwnedFramesAreSafe
  BY UsableInMemory DEF PmmInv, OwnedIsUsable, OwnedFramesAreSafe
<1> QED BY <1>1, PmmInvariant, PTL

(* For every memory map no frame is lost: what the allocator can reach is  *)
(* free or held by a caller.                                               *)
THEOREM PmmNoFrameLost == PmmSpec => []NoFrameLost
<1>1. PmmInv => NoFrameLost
  BY DEF PmmInv
<1> QED BY <1>1, PmmInvariant, PTL
=============================================================================
