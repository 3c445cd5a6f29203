---------------------------- MODULE PagingProofs ----------------------------
(***************************************************************************)
(* Paging never shares a frame, never unmaps itself and never changes a    *)
(* mapping, for every memory map, size of memory, table size and heap      *)
(* window.                                                                 *)
(*                                                                         *)
(* None of the properties is inductive.  Writing an entry into a table is  *)
(* harmless only because no other directory entry, and no heap page, uses  *)
(* the frame of that table, because page_tables agrees with the directory, *)
(* and because the frames that the allocator calls free are none of these: *)
(* PagingInv says all of it together.                                      *)
(***************************************************************************)
EXTENDS Paging, PmmProofs

Mapped(p) == p[1] # 0 /\ Translate(p) # NONE

HasTable(d) == page_directory[d] # NONE

\* The kernel and the bitmap are marked used.
ReservedMarked == boot # "pmm" => Reserved(total_frames) \subseteq bitmap

\* The first table is there and is the identity map.
IdentityMapped ==
    boot = "run" => HasTable(0) /\ ptes[page_directory[0]] = IdentityTable

\* page_tables is page_directory in the kernel's eyes, and map_page can
\* reach every table but the first.
TablesTracked ==
    boot = "run" => \A d \in Dir \ {0} :
        /\ page_tables[d] = IF HasTable(d) THEN page_directory[d] ELSE NULL
        /\ HasTable(d) => page_directory[d] \in Idx \ {0}

\* FramesExclusive, frame by frame.
TablesTaken ==
    boot = "run" => \A d \in Dir : HasTable(d) /\ page_directory[d] # 0 =>
        page_directory[d] \in bitmap \ Reserved(total_frames)

TablesDistinct ==
    boot = "run" => \A d, e \in Dir :
        HasTable(d) /\ page_directory[d] = page_directory[e] => d = e

HeapTaken ==
    boot = "run" => \A p \in Page : Mapped(p) =>
        Translate(p) \in bitmap \ Reserved(total_frames)

HeapDistinct ==
    boot = "run" => \A p, q \in Page :
        Mapped(p) /\ Mapped(q) /\ Translate(p) = Translate(q) => p = q

HeapNotTable ==
    boot = "run" => \A p \in Page, d \in Dir :
        Mapped(p) => Translate(p) # page_directory[d]

\* The page of a pending fault is not mapped.
FaultUnmapped == boot = "run" /\ cr2 # NoPage => Translate(cr2) = NONE

PagingInv ==
    /\ PagingTypeOK
    /\ total_frames <= U32 \div FRAME_SIZE
    /\ cr2 # NoPage => boot = "run"
    /\ ReservedMarked
    /\ IdentityMapped
    /\ TablesTracked
    /\ TablesTaken
    /\ TablesDistinct
    /\ HeapTaken
    /\ HeapDistinct
    /\ HeapNotTable
    /\ FaultUnmapped
-----------------------------------------------------------------------------
(* Facts about pages and frames. *)

(* A page is its two indices. *)
LEMMA PageParts ==
    /\ \A p \in Page : p[1] \in Dir /\ p[2] \in Idx
    /\ \A p, q \in Page : p[1] = q[1] /\ p[2] = q[2] => p = q
    /\ 0 \in Dir /\ 0 \in Idx /\ 0 \in PhysFrames
    /\ PhysFrames \subseteq Nat
BY PmmAssumption, PagingAssumption DEF Page, Dir, Idx, PhysFrames

(* The heap window lies above the identity map. *)
LEMMA WindowAboveIdentity ==
    ASSUME NEW p \in Page, InHeapWindow(p)
    PROVE  p[1] \in Dir \ {0}
<1>1. p[1] \in Dir /\ p[2] \in 0 .. ENTRIES - 1
  BY PageParts DEF Idx
<1>2. CASE p[1] = 0
  <2>1. PageNumber(p) = 0 * ENTRIES + p[2]
    BY <1>2 DEF PageNumber
  <2>2. PageNumber(p) < ENTRIES
    BY <1>1, <2>1, PagingAssumption
  <2> QED BY <1>1, <2>1, <2>2, PagingAssumption DEF InHeapWindow
<1> QED BY <1>1, <1>2

(* A frame that pmm_alloc_frame returns is nobody's. *)
LEMMA FreshFrame ==
    ASSUME PagingTypeOK, total_frames <= U32 \div FRAME_SIZE,
           NEW bm, pmm_alloc_frame(bm) # NULL
    PROVE  /\ pmm_alloc_frame(bm) \in PhysFrames \ {0}
           /\ pmm_alloc_frame(bm) \notin bm
           /\ pmm_alloc_frame(bm) # NONE
           /\ after_alloc(bm) = bm \cup {pmm_alloc_frame(bm)}
<1>1. total_frames \in Nat
  BY DEF PagingTypeOK, PmmTypeOK
<1>2. /\ pmm_alloc_frame(bm) \in FreeFrames(bm)
      /\ after_alloc(bm) = bm \cup {pmm_alloc_frame(bm)}
  BY <1>1, AllocFrame
<1>3. pmm_alloc_frame(bm) \in 0 .. total_frames - 1 /\ pmm_alloc_frame(bm) \notin bm
  BY <1>1, <1>2, ScannedBelowTotal DEF FreeFrames
<1>4. U32 \div FRAME_SIZE \in Nat
  BY PmmAssumption
<1> QED BY <1>1, <1>2, <1>3, <1>4 DEF PhysFrames, NULL, NONE

(* A page that the fault handler is called for is outside the first table. *)
LEMMA FaultPage ==
    ASSUME PagingInv, Faulting, InHeapWindow(cr2)
    PROVE  cr2 \in Page /\ cr2[1] \in Dir \ {0} /\ cr2[2] \in Idx
<1>1. cr2 \in Page
  BY DEF PagingInv, PagingTypeOK, Faulting
<1> QED BY <1>1, PageParts, WindowAboveIdentity
-----------------------------------------------------------------------------
(* What a fault that returns does to the page tables. *)

(* map_page with a table: one page gets the new frame, no other page       *)
(* changes.                                                                *)
LEMMA MapInTableMaps ==
    ASSUME PagingInv, Faulting, InHeapWindow(cr2), NEW frame \in Nat,
           MapInTable(cr2, frame)
    PROVE  /\ \A q \in Page : Translate(q)' = IF q = cr2 THEN frame ELSE Translate(q)
           /\ ptes'[page_directory[0]] = ptes[page_directory[0]]
           /\ ptes' \in [PhysFrames -> [Idx -> Nat \cup {NONE}]]
<1> DEFINE d == cr2[1]
           table == page_tables[d]
<1>1. cr2 \in Page /\ d \in Dir \ {0} /\ cr2[2] \in Idx /\ 0 \in Dir
  BY FaultPage, PageParts
<1>2. boot = "run" /\ table # NULL
  BY DEF Faulting, MapInTable
<1>3. HasTable(d) /\ page_directory[d] = table
  BY <1>1, <1>2 DEF PagingInv, TablesTracked
<1>4. table \in PhysFrames /\ table # NONE
  BY <1>1, <1>3 DEF PagingInv, PagingTypeOK, HasTable
<1>5. ptes \in [PhysFrames -> [Idx -> Nat \cup {NONE}]]
  BY DEF PagingInv, PagingTypeOK
<1>6. ptes' = [ptes EXCEPT ![table][cr2[2]] = frame] /\ page_directory' = page_directory
  BY DEF MapInTable
<1>7. \A e \in Dir : page_directory[e] = table => e = d
  BY <1>1, <1>2, <1>3 DEF PagingInv, TablesDistinct
<1>8. \A e \in Dir : page_directory[e] # NONE => page_directory[e] \in PhysFrames
  BY DEF PagingInv, PagingTypeOK
<1>9. \A f \in PhysFrames : f # table => ptes'[f] = ptes[f]
  BY <1>5, <1>6
<1>10. \A i \in Idx : ptes'[table][i] = IF i = cr2[2] THEN frame ELSE ptes[table][i]
  BY <1>1, <1>4, <1>5, <1>6
<1>11. ASSUME NEW q \in Page
       PROVE  Translate(q)' = IF q = cr2 THEN frame ELSE Translate(q)
  <2>1. q[1] \in Dir /\ q[2] \in Idx /\ (q[1] = d /\ q[2] = cr2[2] <=> q = cr2)
    BY <1>1, PageParts
  <2>2. CASE q[1] = d
    BY <1>3, <1>4, <1>6, <1>10, <2>1, <2>2 DEF Translate
  <2>3. CASE q[1] # d /\ page_directory[q[1]] = NONE
    BY <1>6, <2>1, <2>3 DEF Translate
  <2>4. CASE q[1] # d /\ page_directory[q[1]] # NONE
    BY <1>6, <1>7, <1>8, <1>9, <2>1, <2>4 DEF Translate
  <2> QED BY <2>2, <2>3, <2>4
<1>12. ptes'[page_directory[0]] = ptes[page_directory[0]]
  BY <1>1, <1>2, <1>7, <1>8, <1>9 DEF PagingInv, IdentityMapped, HasTable
<1>13. ptes' \in [PhysFrames -> [Idx -> Nat \cup {NONE}]]
  BY <1>1, <1>4, <1>5, <1>6
<1> QED BY <1>11, <1>12, <1>13

(* map_page without a table: the same, because the new table is cleared    *)
(* and its frame was nobody's.                                             *)
LEMMA MapInNewTableMaps ==
    ASSUME PagingInv, Faulting, InHeapWindow(cr2), NEW frame \in Nat,
           frame = pmm_alloc_frame(bitmap), frame # NULL,
           MapInNewTable(cr2, frame),
           NEW table, table = pmm_alloc_frame(after_alloc(bitmap))
    PROVE  /\ table \in PhysFrames \ {0} /\ table \in Idx
           /\ table \notin bitmap /\ table # frame
           /\ bitmap' = bitmap \cup {frame, table}
           /\ page_directory[cr2[1]] = NONE
           /\ page_directory' = [page_directory EXCEPT ![cr2[1]] = table]
           /\ page_tables' = [page_tables EXCEPT ![cr2[1]] = table]
           /\ \A q \in Page : Translate(q)' = IF q = cr2 THEN frame ELSE Translate(q)
           /\ ptes'[page_directory[0]] = ptes[page_directory[0]]
           /\ ptes' \in [PhysFrames -> [Idx -> Nat \cup {NONE}]]
<1> DEFINE d == cr2[1]
<1>1. cr2 \in Page /\ d \in Dir \ {0} /\ cr2[2] \in Idx /\ 0 \in Dir /\ 0 \in Idx
  BY FaultPage, PageParts
<1>2. boot = "run" /\ page_tables[d] = NULL /\ Reachable(table)
  BY DEF Faulting, MapInNewTable
<1>3. page_directory[d] = NONE
  BY <1>1, <1>2 DEF PagingInv, TablesTracked, HasTable, NULL
<1>4. /\ page_directory[0] # NONE /\ page_directory[0] \in PhysFrames
      /\ ptes[page_directory[0]] = IdentityTable
  BY <1>1, <1>2 DEF PagingInv, PagingTypeOK, IdentityMapped, HasTable
<1>5. table \in Idx /\ table # 0
  <2>1. table \in Idx /\ Translate(<<0, table>>) = table
    BY <1>2 DEF Reachable
  <2>2. Translate(<<0, table>>) = IdentityTable[table]
    BY <1>4, <2>1 DEF Translate
  <2> QED BY <1>1, <2>1, <2>2 DEF IdentityTable, NONE
<1>6. /\ table \in PhysFrames
      /\ table \notin bitmap \cup {frame}
      /\ bitmap' = bitmap \cup {frame} \cup {table}
  <2>1. after_alloc(bitmap) = bitmap \cup {frame}
    BY FreshFrame DEF PagingInv
  <2>2. /\ table \in PhysFrames \ {0} /\ table \notin after_alloc(bitmap)
        /\ after_alloc(after_alloc(bitmap)) = after_alloc(bitmap) \cup {table}
    BY <1>5, FreshFrame DEF PagingInv, NULL
  <2> QED BY <2>1, <2>2 DEF MapInNewTable
<1>7. ptes \in [PhysFrames -> [Idx -> Nat \cup {NONE}]]
  BY DEF PagingInv, PagingTypeOK
<1>8. /\ ptes' = [ptes EXCEPT ![table] = [Cleared EXCEPT ![cr2[2]] = frame]]
      /\ page_directory' = [page_directory EXCEPT ![d] = table]
      /\ page_tables' = [page_tables EXCEPT ![d] = table]
  BY DEF MapInNewTable
<1>9. \A e \in Dir : page_directory[e] # table
  <2> SUFFICES ASSUME NEW e \in Dir, page_directory[e] = table PROVE FALSE
    OBVIOUS
  <2>1. page_directory[e] # NONE /\ page_directory[e] # 0
    BY <1>5, <1>6, PageParts DEF NONE, Idx
  <2>2. table \in bitmap
    BY <1>2, <2>1 DEF PagingInv, TablesTaken, HasTable
  <2> QED BY <1>6, <2>2
<1>10. \A f \in PhysFrames : f # table => ptes'[f] = ptes[f]
  BY <1>7, <1>8
<1>11. \A i \in Idx : ptes'[table][i] = IF i = cr2[2] THEN frame ELSE NONE
  BY <1>1, <1>6, <1>7, <1>8 DEF Cleared
<1>12. page_directory \in [Dir -> PhysFrames \cup {NONE}]
  BY DEF PagingInv, PagingTypeOK
<1>13. table # NONE
  BY <1>6, PageParts DEF NONE
<1>14. ASSUME NEW q \in Page
       PROVE  Translate(q)' = IF q = cr2 THEN frame ELSE Translate(q)
  <2>1. q[1] \in Dir /\ q[2] \in Idx /\ (q[1] = d /\ q[2] = cr2[2] <=> q = cr2)
    BY <1>1, PageParts
  <2>2. CASE q[1] = d
    <3>1. page_directory'[q[1]] = table
      BY <1>8, <1>12, <2>1, <2>2
    <3>2. Translate(q)' = ptes'[table][q[2]]
      BY <1>13, <3>1 DEF Translate
    <3>3. Translate(q) = NONE
      BY <1>3, <2>2 DEF Translate
    <3> QED BY <1>11, <2>1, <2>2, <3>2, <3>3
  <2>3. CASE q[1] # d
    <3>1. page_directory'[q[1]] = page_directory[q[1]]
      BY <1>8, <1>12, <2>1, <2>3
    <3> QED BY <1>9, <1>10, <1>12, <2>1, <2>3, <3>1 DEF Translate
  <2> QED BY <2>2, <2>3
<1>15. ptes'[page_directory[0]] = ptes[page_directory[0]]
  BY <1>1, <1>4, <1>9, <1>10
<1>16. ptes' \in [PhysFrames -> [Idx -> Nat \cup {NONE}]]
  <2>1. [Cleared EXCEPT ![cr2[2]] = frame] \in [Idx -> Nat \cup {NONE}]
    BY <1>1 DEF Cleared
  <2> QED BY <1>7, <1>8, <2>1
<1> QED BY <1>3, <1>5, <1>6, <1>8, <1>14, <1>15, <1>16
-----------------------------------------------------------------------------
(* The invariant, step by step. *)

(* Before the boot, nothing is mapped. *)
LEMMA PagingInvInit == PagingInit => PagingInv
<1> SUFFICES ASSUME PagingInit PROVE PagingInv
  OBVIOUS
<1>1. PmmTypeOK
  BY DEF PagingInit, PmmInit, PmmTypeOK
<1>2. ptes \in [PhysFrames -> [Idx -> Nat \cup {NONE}]]
  BY PagingAssumption DEF PagingInit
<1>3. page_directory \in [Dir -> PhysFrames \cup {NONE}] /\ page_tables \in [Dir -> PhysFrames]
  BY PageParts DEF PagingInit, NULL
<1>4. PagingTypeOK
  BY <1>1, <1>2, <1>3 DEF PagingTypeOK, PagingInit, Halts
<1>5. total_frames <= U32 \div FRAME_SIZE
  <2>1. U32 \div FRAME_SIZE \in Nat
    BY PmmAssumption
  <2> QED BY <2>1 DEF PagingInit, PmmInit
<1> QED BY <1>4, <1>5 DEF PagingInv, PagingInit, ReservedMarked, IdentityMapped,
      TablesTracked, TablesTaken, TablesDistinct, HeapTaken, HeapDistinct,
      HeapNotTable, FaultUnmapped

(* A step that leaves the page tables alone and frees nothing keeps the    *)
(* frame by frame part of the invariant.                                   *)
LEMMA TablesUntouched ==
    ASSUME PagingInv, bitmap \subseteq bitmap',
           UNCHANGED <<total_frames, boot, page_directory, page_tables, ptes>>
    PROVE  /\ ReservedMarked' /\ IdentityMapped' /\ TablesTracked'
           /\ TablesTaken' /\ TablesDistinct'
           /\ HeapTaken' /\ HeapDistinct' /\ HeapNotTable'
<1>1. \A p \in Page : Translate(p)' = Translate(p) /\ (Mapped(p)' <=> Mapped(p))
  BY DEF Translate, Mapped
<1>2. \A d \in Dir : HasTable(d)' <=> HasTable(d)
  BY DEF HasTable
<1>3. ReservedMarked'
  BY DEF PagingInv, ReservedMarked, Reserved, BitmapFrames, bitmap_entries
<1>4. IdentityMapped' /\ TablesTracked' /\ TablesDistinct'
  BY <1>2, PageParts DEF PagingInv, IdentityMapped, TablesTracked, TablesDistinct
<1>5. TablesTaken'
  BY <1>2 DEF PagingInv, TablesTaken
<1>6. HeapTaken'
  BY <1>1 DEF PagingInv, HeapTaken
<1>7. HeapDistinct' /\ HeapNotTable'
  BY <1>1 DEF PagingInv, HeapDistinct, HeapNotTable
<1> QED BY <1>3, <1>4, <1>5, <1>6, <1>7

(* Allocating keeps the bitmap a set of frames. *)
LEMMA AllocType ==
    ASSUME PagingTypeOK, NEW bm, bm \subseteq Frame
    PROVE  after_alloc(bm) \subseteq Frame /\ bm \subseteq after_alloc(bm)
<1>1. total_frames \in Nat
  BY DEF PagingTypeOK, PmmTypeOK
<1>2. FreeFrames(bm) \subseteq Nat
  BY <1>1, ScannedBelowTotal DEF FreeFrames
<1> QED BY <1>1, <1>2, AllocWithin DEF Frame

(* What paging_init takes as the first table. *)
LEMMA FirstTableType ==
    ASSUME PagingTypeOK, total_frames <= U32 \div FRAME_SIZE, NEW bm
    PROVE  pmm_alloc_frame(bm) \in PhysFrames
BY FreshFrame, PageParts DEF NULL

(* pmm_init, with or without a memory map, leaves paging alone. *)
LEMMA BootSteps ==
    ASSUME PagingInv, BootPmm \/ BootNoMap
    PROVE  PagingInv'
<1>1. CASE BootPmm
  <2>1. PICK m \in MemoryMaps : pmm_init(m)
    BY <1>1 DEF BootPmm
  <2>2. PICK garbage \in SUBSET Unwritten(FramesBelow(m)) :
           bitmap' = InitialBitmap(m, garbage)
    BY <2>1 DEF pmm_init
  <2>3. total_frames' = FramesBelow(m) /\ mmap' = m
    BY <2>1 DEF pmm_init
  <2>4. /\ total_frames' \in Nat /\ total_frames' <= U32 \div FRAME_SIZE
        /\ bitmap' \subseteq Frame
        /\ Reserved(FramesBelow(m)) \subseteq bitmap'
    BY <2>2, <2>3, FramesBelowBound, InitialBitmapFacts
  <2>5. PagingTypeOK'
    BY <1>1, <2>3, <2>4 DEF PagingInv, PagingTypeOK, PmmTypeOK, BootPmm
  <2>6. ReservedMarked'
    <3>1. Reserved(total_frames') \subseteq bitmap'
      BY <2>3, <2>4
    <3> QED BY <3>1 DEF ReservedMarked, Reserved, BitmapFrames, bitmap_entries
  <2> QED BY <1>1, <2>4, <2>5, <2>6
      DEF BootPmm, PagingInv, IdentityMapped, TablesTracked, TablesTaken,
          TablesDistinct, HeapTaken, HeapDistinct, HeapNotTable, FaultUnmapped
<1>2. CASE BootNoMap
  <2>1. PagingTypeOK'
    BY <1>2 DEF PagingInv, PagingTypeOK, PmmTypeOK, BootNoMap, pmm_vars, Halts
  <2>2. bitmap \subseteq bitmap' /\ boot' = "pmm"
      /\ UNCHANGED <<total_frames, boot, page_directory, page_tables, ptes, cr2>>
    BY <1>2 DEF BootNoMap, pmm_vars
  <2> QED BY <2>1, <2>2, TablesUntouched DEF PagingInv, FaultUnmapped
<1> QED BY <1>1, <1>2

(* paging_init builds the identity map. *)
LEMMA PagingInitStep ==
    ASSUME PagingInv, paging_init
    PROVE  PagingInv'
<1> DEFINE first == pmm_alloc_frame(bitmap)
<1>1. first \in PhysFrames /\ first # NONE
  BY FirstTableType, PageParts DEF PagingInv, NONE
<1>2. /\ ptes' = [ptes EXCEPT ![first] = IdentityTable]
      /\ page_directory' = [d \in Dir |-> IF d = 0 THEN first ELSE NONE]
      /\ page_tables' = [d \in Dir |-> IF d = 0 THEN first ELSE NULL]
      /\ owned' = owned \cup ({first} \ {NULL})
      /\ bitmap' = after_alloc(bitmap)
      /\ boot' = "run" /\ boot = "paging"
      /\ UNCHANGED <<total_frames, mmap, halted, cr2>>
  BY DEF paging_init
<1>3. cr2' = NoPage
  BY <1>2 DEF PagingInv
<1>4. bitmap' \subseteq Frame /\ bitmap \subseteq bitmap'
  BY <1>2, AllocType DEF PagingInv, PagingTypeOK, PmmTypeOK
<1>5. PagingTypeOK'
  <2>1. ptes' \in [PhysFrames -> [Idx -> Nat \cup {NONE}]]
    <3>1. IdentityTable \in [Idx -> Nat \cup {NONE}]
      BY DEF IdentityTable, Idx
    <3> QED BY <1>2, <3>1 DEF PagingInv, PagingTypeOK
  <2>2. /\ page_directory' \in [Dir -> PhysFrames \cup {NONE}]
        /\ page_tables' \in [Dir -> PhysFrames]
    BY <1>1, <1>2, PageParts DEF NULL
  <2>3. PmmTypeOK'
    BY <1>1, <1>2, <1>4, PageParts DEF PagingInv, PagingTypeOK, PmmTypeOK, Frame
  <2> QED BY <1>2, <2>1, <2>2, <2>3 DEF PagingInv, PagingTypeOK
<1>6. Reserved(total_frames)' = Reserved(total_frames)
  BY <1>2 DEF Reserved, BitmapFrames, bitmap_entries
<1>7. ReservedMarked'
  BY <1>2, <1>4, <1>6 DEF PagingInv, ReservedMarked
<1>8. 0 \in Dir /\ \A d \in Dir : page_directory'[d] = IF d = 0 THEN first ELSE NONE
  BY <1>2, PageParts
<1>9. IdentityMapped'
  <2>1. ptes'[first] = IdentityTable
    BY <1>1, <1>2 DEF PagingInv, PagingTypeOK
  <2> QED BY <1>1, <1>8, <2>1 DEF IdentityMapped, HasTable
<1>10. TablesTracked'
  BY <1>2, <1>8 DEF TablesTracked, HasTable
<1>11. TablesTaken'
  <2>1. first # 0 => first \in bitmap' /\ first \notin Reserved(total_frames)
    BY <1>2, FreshFrame DEF PagingInv, ReservedMarked, NULL
  <2> QED BY <1>6, <1>8, <2>1 DEF TablesTaken, HasTable
<1>12. TablesDistinct'
  BY <1>1, <1>8 DEF TablesDistinct, HasTable
<1>13. \A p \in Page : ~ Mapped(p)'
  BY <1>8, PageParts DEF Mapped, Translate
<1>14. HeapTaken' /\ HeapDistinct' /\ HeapNotTable'
  BY <1>13 DEF HeapTaken, HeapDistinct, HeapNotTable
<1> QED BY <1>2, <1>3, <1>5, <1>7, <1>9, <1>10, <1>11, <1>12, <1>14
        DEF PagingInv, FaultUnmapped

(* The steps that change no page table: an access, and the three panics.   *)
LEMMA QuietSteps ==
    ASSUME PagingInv,
           \/ \E p \in Page : Access(p)
           \/ FatalFault \/ OutOfMemory \/ TableUnreachable
    PROVE  PagingInv'
<1>1. UNCHANGED <<total_frames, mmap, boot, page_directory, page_tables, ptes>>
  BY DEF Access, FatalFault, OutOfMemory, TableUnreachable, pmm_vars
<1>2. total_frames \in Nat /\ bitmap \subseteq Frame /\ owned \subseteq Frame
  BY DEF PagingInv, PagingTypeOK, PmmTypeOK
<1>3. /\ after_alloc(bitmap) \subseteq Frame /\ bitmap \subseteq after_alloc(bitmap)
      /\ after_alloc(after_alloc(bitmap)) \subseteq Frame
      /\ bitmap \subseteq after_alloc(after_alloc(bitmap))
  BY <1>2, AllocType DEF PagingInv
<1>4. bitmap' \subseteq Frame /\ bitmap \subseteq bitmap'
  BY <1>2, <1>3 DEF Access, FatalFault, OutOfMemory, TableUnreachable, pmm_vars
<1>5. owned' \subseteq Frame
  <2>1. \A bm : pmm_alloc_frame(bm) \in Frame
    BY FirstTableType, PageParts DEF PagingInv, Frame
  <2>2. CASE TableUnreachable
    BY <1>2, <2>1, <2>2 DEF TableUnreachable
  <2>3. CASE ~ TableUnreachable
    BY <1>2, <2>3 DEF Access, FatalFault, OutOfMemory, pmm_vars
  <2> QED BY <2>2, <2>3
<1>6. halted' \in Halts
  BY DEF Access, FatalFault, OutOfMemory, TableUnreachable, Halts, PagingInv, PagingTypeOK
<1>7. cr2' \in Page \cup {NoPage}
  BY DEF Access, FatalFault, OutOfMemory, TableUnreachable, PagingInv, PagingTypeOK
<1>8. PagingTypeOK'
  BY <1>1, <1>4, <1>5, <1>6, <1>7 DEF PagingInv, PagingTypeOK, PmmTypeOK
<1>9. \A p \in Page : Translate(p)' = Translate(p)
  BY <1>1 DEF Translate
<1>10. (cr2' # NoPage => boot' = "run") /\ FaultUnmapped'
  <2>1. ASSUME NEW p \in Page, Access(p)
        PROVE  (cr2' # NoPage => boot' = "run") /\ FaultUnmapped'
    <3>1. Translate(cr2)' = Translate(p)
      BY <1>1, <2>1 DEF Access, Translate
    <3> QED BY <1>1, <2>1, <3>1 DEF Access, FaultUnmapped
  <2>2. CASE FatalFault \/ OutOfMemory \/ TableUnreachable
    <3>1. cr2' = cr2
      BY <2>2 DEF FatalFault, OutOfMemory, TableUnreachable
    <3>2. Translate(cr2)' = Translate(cr2)
      BY <1>1, <3>1 DEF Translate
    <3> QED BY <1>1, <3>1, <3>2 DEF PagingInv, FaultUnmapped
  <2> QED BY <2>1, <2>2
<1> QED BY <1>1, <1>4, <1>8, <1>10, TablesUntouched DEF PagingInv

(* One page got a frame that was nobody's. *)
LEMMA MappedOnce ==
    ASSUME PagingInv, boot = "run", boot' = "run", cr2' = NoPage,
           UNCHANGED <<total_frames, mmap, halted, page_directory, page_tables>>,
           cr2 \in Page, cr2[1] \in Dir \ {0},
           NEW frame \in PhysFrames \ {0}, frame \notin bitmap, frame # NONE,
           bitmap' = bitmap \cup {frame}, owned' = owned \cup {frame},
           \A q \in Page : Translate(q)' = IF q = cr2 THEN frame ELSE Translate(q),
           ptes'[page_directory[0]] = ptes[page_directory[0]],
           ptes' \in [PhysFrames -> [Idx -> Nat \cup {NONE}]]
    PROVE  PagingInv'
<1>1. PagingTypeOK'
  BY PageParts DEF PagingInv, PagingTypeOK, PmmTypeOK, Frame
<1>2. Reserved(total_frames)' = Reserved(total_frames) /\ frame \notin Reserved(total_frames)
  BY DEF Reserved, BitmapFrames, bitmap_entries, PagingInv, ReservedMarked
<1>3. \A e \in Dir : HasTable(e)' <=> HasTable(e)
  BY DEF HasTable
<1>4. \A q \in Page : Mapped(q)' <=> (q = cr2 \/ Mapped(q))
  BY DEF Mapped
<1>5. \A e \in Dir : page_directory[e] # frame
  BY DEF PagingInv, TablesTaken, HasTable
<1>6. \A q \in Page : Mapped(q) => Translate(q) # frame
  BY DEF PagingInv, HeapTaken
<1>7. ReservedMarked'
  BY <1>2 DEF PagingInv, ReservedMarked
<1>8. IdentityMapped' /\ TablesTracked' /\ TablesDistinct'
  BY <1>3, PageParts DEF PagingInv, IdentityMapped, TablesTracked, TablesDistinct
<1>9. TablesTaken'
  BY <1>2, <1>3 DEF PagingInv, TablesTaken
<1>10. HeapTaken'
  BY <1>2, <1>4 DEF PagingInv, HeapTaken
<1>11. HeapDistinct'
  BY <1>4, <1>6 DEF PagingInv, HeapDistinct
<1>12. HeapNotTable'
  BY <1>4, <1>5 DEF PagingInv, HeapNotTable
<1> QED BY <1>1, <1>7, <1>8, <1>9, <1>10, <1>11, <1>12 DEF PagingInv, FaultUnmapped

(* One page got a frame, and its directory entry a table, that were        *)
(* nobody's.                                                               *)
LEMMA MappedInNew ==
    ASSUME PagingInv, boot = "run", boot' = "run", cr2' = NoPage,
           UNCHANGED <<total_frames, mmap, halted>>,
           cr2 \in Page, cr2[1] \in Dir \ {0},
           NEW frame \in PhysFrames \ {0}, frame \notin bitmap, frame # NONE,
           NEW table \in PhysFrames \ {0}, table \in Idx, table \notin bitmap,
           table # frame,
           bitmap' = bitmap \cup {frame, table}, owned' = owned \cup {frame, table},
           page_directory[cr2[1]] = NONE,
           page_directory' = [page_directory EXCEPT ![cr2[1]] = table],
           page_tables' = [page_tables EXCEPT ![cr2[1]] = table],
           \A q \in Page : Translate(q)' = IF q = cr2 THEN frame ELSE Translate(q),
           ptes'[page_directory[0]] = ptes[page_directory[0]],
           ptes' \in [PhysFrames -> [Idx -> Nat \cup {NONE}]]
    PROVE  PagingInv'
<1>1. PagingTypeOK'
  <2>1. PmmTypeOK'
    BY PageParts DEF PagingInv, PagingTypeOK, PmmTypeOK, Frame
  <2> QED BY <2>1 DEF PagingInv, PagingTypeOK
<1>2. /\ Reserved(total_frames)' = Reserved(total_frames)
      /\ frame \notin Reserved(total_frames) /\ table \notin Reserved(total_frames)
  BY DEF Reserved, BitmapFrames, bitmap_entries, PagingInv, ReservedMarked
<1>3. table # NONE
  BY PageParts DEF NONE
<1>4. /\ \A e \in Dir : page_directory'[e] = IF e = cr2[1] THEN table ELSE page_directory[e]
      /\ \A e \in Dir : page_tables'[e] = IF e = cr2[1] THEN table ELSE page_tables[e]
  BY DEF PagingInv, PagingTypeOK
<1>5. \A e \in Dir : HasTable(e)' <=> (e = cr2[1] \/ HasTable(e))
  BY <1>3, <1>4 DEF HasTable
<1>6. \A q \in Page : Mapped(q)' <=> (q = cr2 \/ Mapped(q))
  BY DEF Mapped
<1>7. \A e \in Dir : page_directory[e] # frame /\ page_directory[e] # table
  BY <1>3 DEF PagingInv, TablesTaken, HasTable
<1>8. \A q \in Page : Mapped(q) => Translate(q) # frame /\ Translate(q) # table
  BY DEF PagingInv, HeapTaken
<1>9. ReservedMarked'
  BY <1>2 DEF PagingInv, ReservedMarked
<1>10. IdentityMapped'
  <2>1. page_directory'[0] = page_directory[0]
    BY <1>4, PageParts
  <2> QED BY <1>5, <2>1, PageParts DEF PagingInv, IdentityMapped
<1>11. TablesTracked'
  BY <1>4, <1>5 DEF PagingInv, TablesTracked
<1>12. TablesDistinct'
  BY <1>4, <1>5, <1>7 DEF PagingInv, TablesDistinct
<1>13. TablesTaken'
  BY <1>2, <1>4, <1>5 DEF PagingInv, TablesTaken
<1>14. HeapTaken'
  BY <1>2, <1>6 DEF PagingInv, HeapTaken
<1>15. HeapDistinct'
  BY <1>6, <1>8 DEF PagingInv, HeapDistinct
<1>16. HeapNotTable'
  BY <1>4, <1>6, <1>7, <1>8 DEF PagingInv, HeapNotTable
<1> QED BY <1>1, <1>9, <1>10, <1>11, <1>12, <1>13, <1>14, <1>15, <1>16
        DEF PagingInv, FaultUnmapped

(* A fault that returns. *)
LEMMA DemandPageStep ==
    ASSUME PagingInv, DemandPage
    PROVE  PagingInv'
<1> DEFINE frame == pmm_alloc_frame(bitmap)
           table == pmm_alloc_frame(after_alloc(bitmap))
           d == cr2[1]
<1>1. Faulting /\ InHeapWindow(cr2) /\ frame # NULL
  BY DEF DemandPage
<1>2. boot = "run" /\ boot' = "run" /\ cr2' = NoPage
      /\ UNCHANGED <<total_frames, mmap, halted>>
  BY DEF DemandPage, Faulting
<1>3. cr2 \in Page /\ d \in Dir \ {0} /\ cr2[2] \in Idx /\ 0 \in Dir
  BY <1>1, FaultPage, PageParts
<1>4. /\ frame \in PhysFrames \ {0} /\ frame \notin bitmap /\ frame # NONE
      /\ frame \in Nat
      /\ after_alloc(bitmap) = bitmap \cup {frame}
  BY <1>1, FreshFrame, PageParts DEF PagingInv
<1>5. CASE MapInTable(cr2, frame)
  <2>1. /\ \A q \in Page : Translate(q)' = IF q = cr2 THEN frame ELSE Translate(q)
        /\ ptes'[page_directory[0]] = ptes[page_directory[0]]
        /\ ptes' \in [PhysFrames -> [Idx -> Nat \cup {NONE}]]
    BY <1>1, <1>4, <1>5, MapInTableMaps
  <2>2. /\ page_directory' = page_directory /\ page_tables' = page_tables
        /\ bitmap' = bitmap \cup {frame} /\ owned' = owned \cup {frame}
    BY <1>4, <1>5 DEF MapInTable
  <2> QED BY <1>2, <1>3, <1>4, <2>1, <2>2, MappedOnce
<1>6. CASE MapInNewTable(cr2, frame)
  <2>1. /\ table \in PhysFrames \ {0} /\ table \in Idx
        /\ table \notin bitmap /\ table # frame
        /\ bitmap' = bitmap \cup {frame, table}
        /\ page_directory[cr2[1]] = NONE
        /\ page_directory' = [page_directory EXCEPT ![cr2[1]] = table]
        /\ page_tables' = [page_tables EXCEPT ![cr2[1]] = table]
        /\ \A q \in Page : Translate(q)' = IF q = cr2 THEN frame ELSE Translate(q)
        /\ ptes'[page_directory[0]] = ptes[page_directory[0]]
        /\ ptes' \in [PhysFrames -> [Idx -> Nat \cup {NONE}]]
    BY <1>1, <1>4, <1>6, MapInNewTableMaps
  <2>2. owned' = owned \cup {frame, table}
    BY <1>6 DEF MapInNewTable
  <2> QED BY <1>2, <1>3, <1>4, <2>1, <2>2, MappedInNew
<1> QED BY <1>5, <1>6 DEF DemandPage

(* Every step keeps the invariant. *)
LEMMA PagingInvStep == PagingInv /\ [PagingNext]_paging_vars => PagingInv'
<1> SUFFICES ASSUME PagingInv, [PagingNext]_paging_vars
             PROVE  PagingInv'
  OBVIOUS
<1>1. CASE BootPmm \/ BootNoMap
  BY <1>1, BootSteps
<1>2. CASE paging_init
  BY <1>2, PagingInitStep
<1>3. CASE (\E p \in Page : Access(p)) \/ FatalFault \/ OutOfMemory \/ TableUnreachable
  BY <1>3, QuietSteps
<1>4. CASE DemandPage
  BY <1>4, DemandPageStep
<1>5. CASE UNCHANGED paging_vars
  <2>1. /\ UNCHANGED <<total_frames, bitmap, owned, mmap>>
        /\ UNCHANGED <<boot, halted, cr2, page_directory, page_tables, ptes>>
    BY <1>5 DEF paging_vars, pmm_vars
  <2>2. PagingTypeOK' /\ FaultUnmapped'
    BY <2>1 DEF PagingInv, PagingTypeOK, PmmTypeOK, FaultUnmapped, Translate
  <2> QED BY <2>1, <2>2, TablesUntouched DEF PagingInv
<1> QED BY <1>1, <1>2, <1>3, <1>4, <1>5 DEF PagingNext

(* PagingInv holds in every reachable state. *)
THEOREM PagingInvariant == PagingSpec => []PagingInv
BY PagingInvInit, PagingInvStep, PTL DEF PagingSpec
-----------------------------------------------------------------------------
(* What follows from it. *)

(* The type invariant: every table address that map_page and paging_init   *)
(* ever use, unchecked as they are, is a frame of the machine.             *)
THEOREM PagingTypeCorrect == PagingSpec => []PagingTypeOK
<1>1. PagingInv => PagingTypeOK
  BY DEF PagingInv
<1> QED BY <1>1, PagingInvariant, PTL

(* FramesExclusive puts the frame by frame parts together. *)
LEMMA ExclusiveInv == PagingInv => FramesExclusive
<1> SUFFICES ASSUME PagingInv, boot = "run"
             PROVE  /\ Tables \cap HeapFrames = {}
                    /\ (HeapFrames \cup (Tables \ {0})) \cap Reserved(total_frames) = {}
                    /\ HeapFrames \cup (Tables \ {0}) \subseteq bitmap
                    /\ \A p, q \in HeapPages : Translate(p) = Translate(q) => p = q
                    /\ \A d, e \in Dir :
                          page_directory[d] # NONE /\ page_directory[d] = page_directory[e]
                              => d = e
  BY DEF FramesExclusive
<1>1. \A p \in HeapPages : p \in Page /\ Mapped(p)
  BY DEF HeapPages, Mapped
<1>2. \A f \in HeapFrames : \E p \in Page : Mapped(p) /\ f = Translate(p)
  BY <1>1 DEF HeapFrames
<1>3. \A f \in Tables : \E d \in Dir : HasTable(d) /\ f = page_directory[d]
  BY DEF Tables, HasTable
<1>4. HeapFrames \subseteq bitmap \ Reserved(total_frames)
  BY <1>2 DEF PagingInv, HeapTaken
<1>5. Tables \ {0} \subseteq bitmap \ Reserved(total_frames)
  BY <1>3 DEF PagingInv, TablesTaken
<1>6. Tables \cap HeapFrames = {}
  BY <1>2, <1>3 DEF PagingInv, HeapNotTable
<1>7. \A p, q \in HeapPages : Translate(p) = Translate(q) => p = q
  BY <1>1 DEF PagingInv, HeapDistinct
<1>8. \A d, e \in Dir :
         page_directory[d] # NONE /\ page_directory[d] = page_directory[e] => d = e
  BY DEF PagingInv, TablesDistinct, HasTable
<1> QED BY <1>4, <1>5, <1>6, <1>7, <1>8

(* No frame has two uses: tables, heap pages, kernel and bitmap never      *)
(* share one, and the allocator considers none of them free.               *)
THEOREM PagingExclusive == PagingSpec => []FramesExclusive
BY ExclusiveInv, PagingInvariant, PTL

(* The kernel never loses its own map: its image, its bitmap and the       *)
(* tables map_page writes to stay mapped to themselves, page 0 stays       *)
(* unmapped, and page_tables agrees with the directory.                    *)
THEOREM PagingKernelMapped == PagingSpec => []KernelMapped
<1>1. PagingInv => KernelMapped
  <2> SUFFICES ASSUME PagingInv, boot = "run"
               PROVE  /\ \A f \in (Reserved(total_frames) \cap Idx) \ {0} : Reachable(f)
                      /\ \A d \in Dir \ {0} :
                            page_tables[d] # NULL => Reachable(page_tables[d])
                      /\ Translate(<<0, 0>>) = NONE
                      /\ \A d \in Dir \ {0} :
                            page_tables[d] = IF page_directory[d] = NONE
                                             THEN NULL ELSE page_directory[d]
    BY DEF KernelMapped
  <2>1. page_directory[0] # NONE /\ ptes[page_directory[0]] = IdentityTable
    BY DEF PagingInv, IdentityMapped, HasTable
  <2>2. \A i \in Idx : Translate(<<0, i>>) = IF i = 0 THEN NONE ELSE i
    BY <2>1 DEF Translate, IdentityTable
  <2>3. \A i \in Idx \ {0} : Reachable(i)
    BY <2>2 DEF Reachable
  <2>4. \A d \in Dir \ {0} : page_tables[d] # NULL => page_tables[d] \in Idx \ {0}
    BY DEF PagingInv, TablesTracked
  <2>5. \A d \in Dir \ {0} :
           page_tables[d] = IF page_directory[d] = NONE THEN NULL ELSE page_directory[d]
    BY DEF PagingInv, TablesTracked, HasTable
  <2> QED BY <2>2, <2>3, <2>4, <2>5, PageParts
<1> QED BY <1>1, PagingInvariant, PTL

(* No step ever changes a mapping that is present. *)
THEOREM PagingStable == PagingSpec => MappingsStable
<1>1. PagingInv /\ [PagingNext]_paging_vars =>
         [boot = "run" =>
             \A p \in Page : Translate(p) # NONE => Translate(p)' = Translate(p)
         ]_paging_vars
  <2> SUFFICES ASSUME PagingInv, PagingNext, boot = "run",
                      NEW p \in Page, Translate(p) # NONE
               PROVE  Translate(p)' = Translate(p)
    OBVIOUS
  <2>1. CASE DemandPage
    <3> DEFINE frame == pmm_alloc_frame(bitmap)
    <3>1. /\ Faulting /\ InHeapWindow(cr2) /\ frame # NULL
          /\ MapInTable(cr2, frame) \/ MapInNewTable(cr2, frame)
      BY <2>1 DEF DemandPage
    <3>2. frame \in Nat
      BY <3>1, FreshFrame, PageParts DEF PagingInv
    <3>3. \A q \in Page : Translate(q)' = IF q = cr2 THEN frame ELSE Translate(q)
      BY <3>1, <3>2, MapInTableMaps, MapInNewTableMaps
    <3>4. p # cr2
      BY <3>1 DEF PagingInv, FaultUnmapped, Faulting
    <3> QED BY <3>3, <3>4
  <2>2. CASE ~ DemandPage
    <3>1. UNCHANGED <<page_directory, ptes>>
      BY <2>2 DEF PagingNext, BootPmm, BootNoMap, paging_init, Access,
                  FatalFault, OutOfMemory, TableUnreachable
    <3> QED BY <3>1 DEF Translate
  <2> QED BY <2>1, <2>2
<1> QED BY <1>1, PagingInvariant, PTL DEF PagingSpec, MappingsStable
-----------------------------------------------------------------------------
(* Where the frames go.  pmm_alloc_frame cannot tell frame 0 from failure, *)
(* so that a panic over memory is justified only because paging_init has   *)
(* already taken frame 0 away, if it was free.                             *)

ZeroTaken == boot = "run" => 0 \notin FreeFrames(bitmap)

NothingYet ==
    boot # "run" => owned = {} /\ page_directory = [d \in Dir |-> NONE]

OwnedTaken == owned \subseteq bitmap

\* When the kernel panics over memory, the search has nothing left to find.
SearchExhausted ==
    /\ halted = "oom" => FreeFrames(bitmap) = {}
    /\ halted = "fault" /\ InHeapWindow(cr2) => FreeFrames(bitmap) = {}
    /\ halted = "nested" => FreeFrames(bitmap) \cap Idx = {}

MemoryInv ==
    /\ ZeroTaken
    /\ NothingYet
    /\ OwnedTaken
    /\ SearchExhausted
    /\ NoFrameLeaked

(* An allocation takes the frame that it returns, or frame 0, from the     *)
(* free ones.                                                              *)
LEMMA AllocTakes ==
    ASSUME PagingTypeOK, NEW bm
    PROVE  LET f == pmm_alloc_frame(bm) IN
           /\ FreeFrames(after_alloc(bm)) = FreeFrames(bm) \ {f}
           /\ 0 \notin FreeFrames(after_alloc(bm))
           /\ f # NULL => /\ f \in FreeFrames(bm)
                          /\ \A g \in FreeFrames(bm) : f <= g
           /\ f = NULL /\ 0 \notin FreeFrames(bm) =>
                 FreeFrames(bm) = {} /\ after_alloc(bm) = bm
<1> DEFINE f == pmm_alloc_frame(bm)
<1>1. total_frames \in Nat
  BY DEF PagingTypeOK, PmmTypeOK
<1>2. FreeFrames(bm) \subseteq Nat
  BY <1>1, ScannedBelowTotal DEF FreeFrames
<1>3. CASE f # NULL
  <2>1. /\ f \in FreeFrames(bm) /\ after_alloc(bm) = bm \cup {f}
        /\ \A g \in FreeFrames(bm) : f <= g
    BY <1>1, <1>3, AllocFrame
  <2>2. FreeFrames(after_alloc(bm)) = FreeFrames(bm) \ {f}
    BY <2>1 DEF FreeFrames
  <2>3. 0 \notin FreeFrames(bm)
    BY <1>2, <1>3, <2>1 DEF NULL
  <2> QED BY <1>3, <2>1, <2>2, <2>3
<1>4. CASE f = NULL
  <2>1. \/ FreeFrames(bm) = {} /\ after_alloc(bm) = bm
        \/ 0 \in FreeFrames(bm) /\ after_alloc(bm) = bm \cup {0}
    BY <1>1, <1>4, AllocFrame
  <2>2. FreeFrames(after_alloc(bm)) = FreeFrames(bm) \ {0}
    BY <2>1 DEF FreeFrames
  <2> QED BY <1>4, <2>1, <2>2 DEF NULL
<1> QED BY <1>3, <1>4

(* What a fault that returns does with its frames. *)
LEMMA DemandUses ==
    ASSUME PagingInv, DemandPage
    PROVE  \E frame \in FreeFrames(bitmap) : \E new \in SUBSET (FreeFrames(bitmap) \ {frame}) :
              /\ frame # 0 /\ 0 \notin new
              /\ bitmap' = bitmap \cup {frame} \cup new
              /\ owned' = owned \cup {frame} \cup new
              /\ Tables' = Tables \cup new
              /\ HeapPages' = HeapPages \cup {cr2}
              /\ HeapFrames' = HeapFrames \cup {frame}
<1> DEFINE frame == pmm_alloc_frame(bitmap)
           table == pmm_alloc_frame(after_alloc(bitmap))
<1>1. Faulting /\ InHeapWindow(cr2) /\ frame # NULL /\ boot = "run"
  BY DEF DemandPage, Faulting
<1>2. PagingTypeOK /\ cr2 \in Page /\ cr2[1] \in Dir /\ cr2[1] # 0
  BY <1>1, FaultPage DEF PagingInv
<1>3. /\ frame \in FreeFrames(bitmap) /\ frame \in Nat /\ frame # 0 /\ frame # NONE
      /\ after_alloc(bitmap) = bitmap \cup {frame}
      /\ FreeFrames(after_alloc(bitmap)) = FreeFrames(bitmap) \ {frame}
  BY <1>1, <1>2, AllocTakes, FreshFrame, PageParts DEF PagingInv
<1>4. Translate(cr2) = NONE
  BY <1>1 DEF PagingInv, FaultUnmapped, Faulting
<1>5. ASSUME \A q \in Page : Translate(q)' = IF q = cr2 THEN frame ELSE Translate(q)
      PROVE  HeapPages' = HeapPages \cup {cr2} /\ HeapFrames' = HeapFrames \cup {frame}
  <2>1. HeapPages' = HeapPages \cup {cr2}
    BY <1>2, <1>3, <1>5 DEF HeapPages
  <2>2. cr2 \notin HeapPages /\ HeapPages \subseteq Page
    BY <1>4 DEF HeapPages
  <2>3. \A q \in HeapPages : Translate(q)' = Translate(q)
    BY <1>5, <2>2
  <2>4. PICK p \in Page : p = cr2 /\ Translate(p)' = frame
    BY <1>2, <1>5
  <2>5. \A f \in HeapFrames' : f = frame \/ \E q \in HeapPages : f = Translate(q)
    BY <2>1, <2>3, <2>4 DEF HeapFrames
  <2>6. frame \in HeapFrames'
    BY <2>1, <2>4 DEF HeapFrames
  <2>7. \A q \in HeapPages : Translate(q) \in HeapFrames'
    BY <2>1, <2>3 DEF HeapFrames
  <2> QED BY <2>1, <2>5, <2>6, <2>7 DEF HeapFrames
<1>6. CASE MapInTable(cr2, frame)
  <2>1. HeapPages' = HeapPages \cup {cr2} /\ HeapFrames' = HeapFrames \cup {frame}
    BY <1>1, <1>3, <1>5, <1>6, MapInTableMaps
  <2>2. /\ bitmap' = bitmap \cup {frame} /\ owned' = owned \cup {frame}
        /\ Tables' = Tables
    BY <1>3, <1>6 DEF MapInTable, Tables
  <2> HIDE DEF frame
  <2>3. {} \in SUBSET (FreeFrames(bitmap) \ {frame})
    OBVIOUS
  <2> QED BY <1>3, <2>1, <2>2, <2>3
<1>7. CASE MapInNewTable(cr2, frame)
  <2>1. /\ table \in PhysFrames \ {0} /\ page_directory[cr2[1]] = NONE
        /\ bitmap' = bitmap \cup {frame, table}
        /\ page_directory' = [page_directory EXCEPT ![cr2[1]] = table]
        /\ \A q \in Page : Translate(q)' = IF q = cr2 THEN frame ELSE Translate(q)
    BY <1>1, <1>3, <1>7, MapInNewTableMaps
  <2>2. HeapPages' = HeapPages \cup {cr2} /\ HeapFrames' = HeapFrames \cup {frame}
    BY <1>5, <2>1
  <2>3. owned' = owned \cup {frame, table}
    BY <1>7 DEF MapInNewTable
  <2>4. table # NULL /\ table # NONE
    BY <2>1, PageParts DEF NULL, NONE
  <2>5. table \in FreeFrames(bitmap) \ {frame}
    BY <1>2, <1>3, <2>4, AllocTakes
  <2>6. Tables' = Tables \cup {table}
    <3>1. \A d \in Dir : page_directory'[d] = IF d = cr2[1] THEN table ELSE page_directory[d]
      BY <1>2, <2>1 DEF PagingTypeOK
    <3> HIDE DEF table
    <3> QED BY <1>2, <2>1, <2>4, <3>1 DEF Tables
  <2> HIDE DEF frame, table
  <2>7. {table} \in SUBSET (FreeFrames(bitmap) \ {frame})
    BY <2>5
  <2>8. 0 \notin {table}
    BY <2>1
  <2>9. bitmap' = bitmap \cup {frame} \cup {table} /\ owned' = owned \cup {frame} \cup {table}
    BY <2>1, <2>3
  <2> QED BY <1>3, <2>2, <2>6, <2>7, <2>8, <2>9
<1> QED BY <1>6, <1>7 DEF DemandPage

(* A fault that returns keeps MemoryInv. *)
LEMMA DemandMemory ==
    ASSUME PagingInv, MemoryInv, DemandPage
    PROVE  MemoryInv'
<1>1. PICK frame \in FreeFrames(bitmap), new \in SUBSET FreeFrames(bitmap) :
         /\ bitmap' = bitmap \cup {frame} \cup new
         /\ owned' = owned \cup {frame} \cup new
         /\ Tables' = Tables \cup new
         /\ HeapPages' = HeapPages \cup {cr2}
         /\ HeapFrames' = HeapFrames \cup {frame}
  BY DemandUses
<1>2. /\ boot = "run" /\ boot' = "run" /\ halted = "no" /\ halted' = "no"
      /\ total_frames' = total_frames /\ InHeapWindow(cr2) /\ cr2 \in Page
  BY FaultPage DEF DemandPage, Faulting
<1>3. FreeFrames(bitmap)' \subseteq FreeFrames(bitmap)
  BY <1>1, <1>2 DEF FreeFrames, Scanned
<1>4. ZeroTaken' /\ OwnedTaken'
  BY <1>1, <1>2, <1>3 DEF MemoryInv, ZeroTaken, OwnedTaken
<1>5. PageNumber(cr2) \in HEAP_START .. HEAP_END - 1
  <2>1. cr2[1] \in Nat /\ cr2[2] \in Nat
    BY <1>2, PageParts DEF Dir, Idx
  <2>2. PageNumber(cr2) \in Nat
    BY <2>1, PagingAssumption DEF PageNumber
  <2> QED BY <1>2, <2>2, PagingAssumption DEF InHeapWindow
<1>6. \A p \in HeapPages' : PageNumber(p) \in HEAP_START .. HEAP_END - 1
  BY <1>1, <1>2, <1>5 DEF MemoryInv, NoFrameLeaked
<1>7. NoFrameLeaked'
  BY <1>1, <1>2, <1>6 DEF MemoryInv, NoFrameLeaked, Running
<1>8. SearchExhausted' /\ NothingYet'
  BY <1>2 DEF SearchExhausted, NothingYet
<1> QED BY <1>4, <1>7, <1>8 DEF MemoryInv

(* So do the steps that end in a panic. *)
LEMMA PanicMemory ==
    ASSUME PagingInv, MemoryInv, FatalFault \/ OutOfMemory \/ TableUnreachable
    PROVE  MemoryInv'
<1>1. /\ boot = "run" /\ boot' = "run" /\ halted' # "no" /\ PagingTypeOK
      /\ UNCHANGED <<total_frames, page_directory, ptes, cr2>>
  BY DEF FatalFault, OutOfMemory, TableUnreachable, Faulting, PagingInv, pmm_vars
<1>2. \A p \in Page : Translate(p)' = Translate(p)
  BY <1>1 DEF Translate
<1>3. HeapPages' = HeapPages
  BY <1>2 DEF HeapPages
<1>4. NoFrameLeaked' /\ NothingYet'
  BY <1>1, <1>3 DEF MemoryInv, NoFrameLeaked, NothingYet, Running
<1>5. 0 \notin FreeFrames(bitmap)
  BY <1>1 DEF MemoryInv, ZeroTaken
<1>6. InHeapWindow(cr2)' <=> InHeapWindow(cr2)
  BY <1>1 DEF InHeapWindow, PageNumber
<1>7. CASE FatalFault
  <2>1. UNCHANGED <<bitmap, owned>> /\ halted' = "fault" /\ ~ InHeapWindow(cr2)
    BY <1>7 DEF FatalFault, pmm_vars
  <2>2. FreeFrames(bitmap)' = FreeFrames(bitmap)
    BY <1>1, <2>1 DEF FreeFrames, Scanned
  <2> QED BY <1>1, <1>4, <1>5, <1>6, <2>1, <2>2
          DEF MemoryInv, ZeroTaken, OwnedTaken, SearchExhausted
<1>8. CASE OutOfMemory
  <2>1. /\ pmm_alloc_frame(bitmap) = NULL /\ bitmap' = after_alloc(bitmap)
        /\ owned' = owned /\ halted' = "oom"
    BY <1>8 DEF OutOfMemory
  <2>2. FreeFrames(bitmap) = {} /\ bitmap' = bitmap
    BY <1>1, <1>5, <2>1, AllocTakes
  <2>3. FreeFrames(bitmap)' = {}
    BY <1>1, <2>2 DEF FreeFrames, Scanned
  <2> QED BY <1>1, <1>4, <2>1, <2>2, <2>3
          DEF MemoryInv, ZeroTaken, OwnedTaken, SearchExhausted
<1>9. CASE TableUnreachable
  <2> DEFINE frame == pmm_alloc_frame(bitmap)
             bm == after_alloc(bitmap)
             table == pmm_alloc_frame(bm)
  <2>1. /\ frame # NULL /\ ~ Reachable(table)
        /\ halted' = IF table = NULL THEN "fault" ELSE "nested"
        /\ owned' = owned \cup {frame} \cup ({table} \ {NULL})
        /\ bitmap' = after_alloc(bm)
    BY <1>9 DEF TableUnreachable
  <2>2. /\ bm = bitmap \cup {frame} /\ frame \notin bitmap
        /\ 0 \notin FreeFrames(bm)
    BY <1>1, <2>1, FreshFrame, AllocTakes DEF PagingInv
  <2>3. FreeFrames(bitmap)' = FreeFrames(after_alloc(bm))
    BY <1>1, <2>1 DEF FreeFrames, Scanned
  <2>4. 0 \notin FreeFrames(after_alloc(bm))
    BY <1>1, AllocTakes
  <2>5. CASE table = NULL
    <3>1. FreeFrames(bm) = {} /\ after_alloc(bm) = bm
      BY <1>1, <2>2, <2>5, AllocTakes
    <3>2. FreeFrames(bitmap)' = {}
      BY <2>3, <3>1
    <3>3. OwnedTaken' /\ halted' = "fault"
      BY <2>1, <2>2, <2>5, <3>1 DEF MemoryInv, OwnedTaken
    <3> QED BY <1>4, <3>2, <3>3 DEF MemoryInv, ZeroTaken, SearchExhausted
  <2>6. CASE table # NULL
    <3>1. /\ table \in FreeFrames(bm) /\ \A g \in FreeFrames(bm) : table <= g
          /\ FreeFrames(after_alloc(bm)) = FreeFrames(bm) \ {table}
          /\ after_alloc(bm) = bm \cup {table}
          /\ table \in PhysFrames \ {0}
      BY <1>1, <2>6, AllocTakes, FreshFrame DEF PagingInv
    <3>2. table \notin Idx
      <4>1. page_directory[0] # NONE /\ ptes[page_directory[0]] = IdentityTable
        BY <1>1 DEF PagingInv, IdentityMapped, HasTable
      <4>2. \A i \in Idx \ {0} : Translate(<<0, i>>) = i
        BY <4>1 DEF Translate, IdentityTable
      <4> QED BY <2>1, <3>1, <4>2 DEF Reachable
    <3>3. table \in Nat /\ ~ (table < ENTRIES)
      <4>1. table \in Nat
        BY <3>1, PageParts
      <4> HIDE DEF table
      <4> QED BY <3>2, <4>1, PagingAssumption DEF Idx
    <3>4. FreeFrames(bm) \cap Idx = {}
      <4> HIDE DEF bm, table
      <4> QED BY <3>1, <3>3, PagingAssumption DEF Idx
    <3>5. FreeFrames(bitmap)' \cap Idx = {}
      BY <2>3, <3>1, <3>4
    <3>6. OwnedTaken' /\ halted' = "nested"
      BY <2>1, <2>2, <2>6, <3>1 DEF MemoryInv, OwnedTaken
    <3>7. ZeroTaken'
      BY <2>3, <2>4 DEF ZeroTaken
    <3> QED BY <1>4, <3>5, <3>6, <3>7 DEF MemoryInv, SearchExhausted
  <2> QED BY <2>5, <2>6
<1> QED BY <1>7, <1>8, <1>9

(* And the steps of the boot, and an access. *)
LEMMA BootMemory ==
    ASSUME PagingInv, PagingInv', MemoryInv,
           \/ BootPmm \/ BootNoMap \/ paging_init
           \/ \E p \in Page : Access(p)
    PROVE  MemoryInv'
<1>1. PagingTypeOK
  BY DEF PagingInv
<1>2. CASE BootPmm \/ BootNoMap
  <2>1. /\ boot # "run" /\ boot' # "run" /\ owned' = {}
        /\ page_directory' = page_directory
        /\ halted' \in {"no", "nomap"}
    BY <1>2 DEF BootPmm, BootNoMap, pmm_vars, MemoryInv, NothingYet
  <2> QED BY <2>1 DEF MemoryInv, ZeroTaken, NothingYet, OwnedTaken, SearchExhausted,
                      NoFrameLeaked, Running
<1>3. CASE paging_init
  <2> DEFINE first == pmm_alloc_frame(bitmap)
  <2>1. /\ page_directory' = [d \in Dir |-> IF d = 0 THEN first ELSE NONE]
        /\ owned' = {first} \ {NULL}
        /\ bitmap' = after_alloc(bitmap)
        /\ boot' = "run" /\ halted' = "no" /\ total_frames' = total_frames
    BY <1>3 DEF paging_init, MemoryInv, NothingYet
  <2>2. FreeFrames(bitmap)' = FreeFrames(after_alloc(bitmap))
    BY <2>1 DEF FreeFrames, Scanned
  <2>3. ZeroTaken'
    BY <1>1, <2>2, AllocTakes DEF ZeroTaken
  <2>4. OwnedTaken'
    BY <1>1, <2>1, FreshFrame DEF OwnedTaken, PagingInv
  <2>5. first # NONE
    BY FirstTableType, PageParts DEF PagingInv, NONE
  <2>6. Tables' = {first}
    BY <2>1, <2>5, PageParts DEF Tables
  <2>7. HeapPages' = {}
    BY <2>1, PageParts DEF HeapPages, Translate
  <2>8. HeapFrames' = {}
    BY <2>7 DEF HeapFrames
  <2>9. NoFrameLeaked'
    BY <2>1, <2>6, <2>7, <2>8 DEF NoFrameLeaked, NULL
  <2> QED BY <2>1, <2>3, <2>4, <2>9 DEF MemoryInv, SearchExhausted, NothingYet
<1>4. CASE \E p \in Page : Access(p)
  <2>1. /\ UNCHANGED <<total_frames, bitmap, owned, boot, halted, page_directory, ptes>>
        /\ halted = "no"
    BY <1>4 DEF Access, pmm_vars
  <2>2. FreeFrames(bitmap)' = FreeFrames(bitmap)
    BY <2>1 DEF FreeFrames, Scanned
  <2>3. \A p \in Page : Translate(p)' = Translate(p)
    BY <2>1 DEF Translate
  <2>4. HeapPages' = HeapPages /\ Tables' = Tables
    BY <2>1, <2>3 DEF HeapPages, Tables
  <2>5. HeapFrames' = HeapFrames
    BY <2>3, <2>4 DEF HeapFrames, HeapPages
  <2> QED BY <2>1, <2>2, <2>4, <2>5 DEF MemoryInv, ZeroTaken, NothingYet, OwnedTaken,
                 SearchExhausted, NoFrameLeaked, Running
<1> QED BY <1>2, <1>3, <1>4

(* MemoryInv holds in every reachable state. *)
THEOREM MemoryInvariant == PagingSpec => []MemoryInv
<1>1. PagingInit => MemoryInv
  <2> SUFFICES ASSUME PagingInit PROVE MemoryInv
    OBVIOUS
  <2>1. /\ boot = "pmm" /\ halted = "no" /\ owned = {}
        /\ page_directory = [d \in Dir |-> NONE]
    BY DEF PagingInit, PmmInit
  <2> QED BY <2>1 DEF MemoryInv, ZeroTaken, NothingYet, OwnedTaken, SearchExhausted,
                      NoFrameLeaked, Running
<1>2. PagingInv /\ PagingInv' /\ MemoryInv /\ [PagingNext]_paging_vars => MemoryInv'
  <2> SUFFICES ASSUME PagingInv, PagingInv', MemoryInv, [PagingNext]_paging_vars
               PROVE  MemoryInv'
    OBVIOUS
  <2>1. CASE UNCHANGED paging_vars
    <3>1. /\ UNCHANGED <<total_frames, bitmap, owned>>
          /\ UNCHANGED <<boot, halted, cr2, page_directory, ptes>>
      BY <2>1 DEF paging_vars, pmm_vars
    <3> QED BY <3>1 DEF MemoryInv, ZeroTaken, NothingYet, OwnedTaken, SearchExhausted,
                NoFrameLeaked, Running, FreeFrames, Scanned, Tables, HeapFrames, HeapPages,
                Translate, InHeapWindow, PageNumber
  <2> QED BY <2>1, DemandMemory, PanicMemory, BootMemory DEF PagingNext
<1> QED BY <1>1, <1>2, PagingInvariant, PTL DEF PagingSpec

(* What the search does not find is in the last, partial word of the       *)
(* bitmap.                                                                 *)
LEMMA SearchMisses ==
    ASSUME total_frames \in Nat
    PROVE  ClearFrames(bitmap) \subseteq FreeFrames(bitmap) \cup LastFrames
<1>1. (total_frames \div BITS) * BITS \in Nat
  BY PmmAssumption
<1> QED BY <1>1 DEF ClearFrames, FreeFrames, Scanned, LastFrames

(* For every memory map, the kernel panics over memory only when none is   *)
(* left but, at most, the frames that do not fill a word of the bitmap.    *)
THEOREM PagingPanicJustified == PagingSpec => []PanicJustified
<1>1. PagingInv /\ MemoryInv => PanicJustified
  <2> SUFFICES ASSUME PagingInv, MemoryInv PROVE PanicJustified
    OBVIOUS
  <2>1. ClearFrames(bitmap) \subseteq FreeFrames(bitmap) \cup LastFrames
    BY SearchMisses DEF PagingInv, PagingTypeOK, PmmTypeOK
  <2> QED BY <2>1 DEF MemoryInv, SearchExhausted, PanicJustified
<1> QED BY <1>1, PagingInvariant, MemoryInvariant, PTL

(* For every memory map, no page fault leaks a frame, and only the heap    *)
(* window is backed by demand paging.                                      *)
THEOREM PagingNoLeak == PagingSpec => []NoFrameLeaked
<1>1. MemoryInv => NoFrameLeaked
  BY DEF MemoryInv
<1> QED BY <1>1, MemoryInvariant, PTL
-----------------------------------------------------------------------------
(* Paging implements FrameOwnership. *)

\* OwnerOf once the memory map was read.
UseOf(f) ==
    IF f \in Tables THEN "table"
    ELSE IF f \in HeapFrames THEN "heap"
    ELSE IF f \in owned THEN "lost"
    ELSE IF f \in FreeFrames(bitmap) THEN "free" ELSE "held"

Owner == [f \in OwnedFrames |-> OwnerOf(f)]

(* A frame is in at most one case of OwnerOf. *)
LEMMA OwnerIsUse ==
    ASSUME boot # "pmm", Tables \cap HeapFrames = {}, NEW f
    PROVE  OwnerOf(f) = UseOf(f)
<1>1. CASE f \in Tables
  BY <1>1 DEF OwnerOf, UseOf
<1>2. CASE f \in HeapFrames
  BY <1>2 DEF OwnerOf, UseOf
<1>3. CASE f \notin Tables \cup HeapFrames
  BY <1>3 DEF OwnerOf, UseOf
<1> QED BY <1>1, <1>2, <1>3

(* The same in the next state. *)
LEMMA OwnerIsUseNext ==
    ASSUME boot' # "pmm", Tables' \cap HeapFrames' = {}, NEW f
    PROVE  OwnerOf(f)' = UseOf(f)'
<1>1. CASE f \in Tables'
  BY <1>1 DEF OwnerOf, UseOf
<1>2. CASE f \in HeapFrames'
  BY <1>2 DEF OwnerOf, UseOf
<1>3. CASE f \notin Tables' \cup HeapFrames'
  BY <1>3 DEF OwnerOf, UseOf
<1> QED BY <1>1, <1>2, <1>3

\* No frame is a table and a heap frame, and no free frame is in use.
UsesApart ==
    boot # "pmm" =>
        /\ Tables \cap HeapFrames = {}
        /\ \A f \in FreeFrames(bitmap) \ {0} : f \notin Tables \cup HeapFrames \cup owned

(* The inductive invariants keep the uses of the frames apart. *)
LEMMA UsesDisjoint == PagingInv /\ MemoryInv => UsesApart
<1> SUFFICES ASSUME PagingInv, MemoryInv, boot # "pmm"
             PROVE  /\ Tables \cap HeapFrames = {}
                    /\ \A f \in FreeFrames(bitmap) \ {0} :
                          f \notin Tables \cup HeapFrames \cup owned
  BY DEF UsesApart
<1>1. \A f \in FreeFrames(bitmap) : f \notin owned /\ f \notin bitmap
  BY DEF MemoryInv, OwnedTaken, FreeFrames
<1>2. CASE boot = "run"
  BY <1>1, <1>2, ExclusiveInv DEF FramesExclusive
<1>3. CASE boot # "run"
  <2>1. page_directory = [d \in Dir |-> NONE]
    BY <1>3 DEF MemoryInv, NothingYet
  <2>2. Tables = {} /\ HeapPages = {}
    BY <2>1, PageParts DEF Tables, HeapPages, Translate
  <2> QED BY <1>1, <2>2 DEF HeapFrames
<1> QED BY <1>2, <1>3

\* What a step may do to a frame: give it out if it is free, or nothing.
GivenOrKept(f) ==
    \/ f \in FreeFrames(bitmap) /\ f \in owned'
    \/ /\ f \in Tables' <=> f \in Tables
       /\ f \in HeapFrames' <=> f \in HeapFrames
       /\ f \in owned' <=> f \in owned
       /\ f \in FreeFrames(bitmap)' <=> f \in FreeFrames(bitmap)

(* A step that does no more than that to any frame is a GiveOut. *)
LEMMA GivesOut ==
    ASSUME boot # "pmm", boot' # "pmm", UsesApart, UsesApart',
           \A f \in OwnedFrames : GivenOrKept(f)
    PROVE  Ownership!GiveOut
<1>1. /\ Tables \cap HeapFrames = {} /\ Tables' \cap HeapFrames' = {}
      /\ \A f \in FreeFrames(bitmap) \ {0} : f \notin Tables \cup HeapFrames \cup owned
  BY DEF UsesApart
<1>2. ASSUME NEW f \in OwnedFrames
      PROVE  /\ OwnerOf(f)' \in Ownership!Owners
             /\ OwnerOf(f)' # OwnerOf(f) => OwnerOf(f) = "free" /\ OwnerOf(f)' \in Ownership!Uses
  <2>1. f # 0
    BY DEF OwnedFrames
  <2>2. OwnerOf(f) = UseOf(f) /\ OwnerOf(f)' = UseOf(f)'
    BY <1>1, OwnerIsUse, OwnerIsUseNext
  <2>3. UseOf(f)' \in Ownership!Owners
    BY DEF UseOf, Ownership!Owners, Ownership!Uses
  <2>4. CASE f \in FreeFrames(bitmap) /\ f \in owned'
    <3>1. f \notin Tables \cup HeapFrames \cup owned
      BY <1>1, <2>1, <2>4
    <3>2. UseOf(f) = "free"
      BY <2>4, <3>1 DEF UseOf
    <3>3. UseOf(f)' \in Ownership!Uses
      BY <2>4 DEF UseOf, Ownership!Uses
    <3> QED BY <2>2, <2>3, <3>2, <3>3
  <2>5. CASE /\ f \in Tables' <=> f \in Tables
             /\ f \in HeapFrames' <=> f \in HeapFrames
             /\ f \in owned' <=> f \in owned
             /\ f \in FreeFrames(bitmap)' <=> f \in FreeFrames(bitmap)
    <3>1. UseOf(f)' = UseOf(f)
      BY <2>5 DEF UseOf
    <3> QED BY <2>2, <2>3, <3>1
  <2> QED BY <2>4, <2>5 DEF GivenOrKept
<1>3. OwnedFrames' = OwnedFrames
  BY DEF OwnedFrames, PhysFrames
<1> QED BY <1>2, <1>3 DEF Ownership!GiveOut

(* pmm_init classifies the frames. *)
LEMMA BootClassifies ==
    ASSUME PagingInv', MemoryInv', BootPmm
    PROVE  Ownership!Classify
<1>1. boot = "pmm" /\ boot' = "paging"
  BY DEF BootPmm
<1>2. Tables' = {} /\ HeapFrames' = {} /\ owned' = {}
  <2>1. owned' = {} /\ page_directory' = [d \in Dir |-> NONE]
    BY <1>1 DEF MemoryInv, NothingYet
  <2>2. Tables' = {} /\ HeapPages' = {}
    BY <2>1, PageParts DEF Tables, HeapPages, Translate
  <2> QED BY <2>1, <2>2 DEF HeapFrames
<1>3. \A f \in OwnedFrames : OwnerOf(f) = "unknown"
  BY <1>1 DEF OwnerOf
<1>4. \A f \in OwnedFrames : OwnerOf(f)' \in {"held", "free"}
  BY <1>1, <1>2, OwnerIsUseNext DEF UseOf
<1>5. Owner' \in [OwnedFrames -> {"held", "free"}]
  BY <1>4 DEF Owner, OwnedFrames, PhysFrames
<1> QED BY <1>3, <1>5 DEF Ownership!Classify, Owner

(* Every other step gives out free frames, or nothing. *)
LEMMA PagingGivesOut ==
    ASSUME PagingInv, MemoryInv, UsesApart, UsesApart', PagingNext, boot # "pmm"
    PROVE  Ownership!GiveOut
<1> SUFFICES \A f \in OwnedFrames : GivenOrKept(f)
  <2>1. boot' # "pmm"
    BY DEF PagingNext, BootPmm, BootNoMap, paging_init, Access, FatalFault, OutOfMemory,
           DemandPage, TableUnreachable
  <2> QED BY <2>1, GivesOut
<1>1. boot' # "pmm" /\ total_frames' = total_frames /\ PagingTypeOK
  BY DEF PagingNext, BootPmm, BootNoMap, paging_init, Access, FatalFault, OutOfMemory,
         DemandPage, TableUnreachable, pmm_vars, PagingInv
<1>3. FreeFrames(bitmap) = Scanned \ bitmap /\ FreeFrames(bitmap)' = Scanned \ bitmap'
  BY <1>1 DEF FreeFrames, Scanned
<1>4. ASSUME UNCHANGED <<page_directory, ptes>>
      PROVE  Tables' = Tables /\ HeapFrames' = HeapFrames
  <2>1. \A p \in Page : Translate(p)' = Translate(p)
    BY <1>4 DEF Translate
  <2>2. HeapPages' = HeapPages /\ HeapPages \subseteq Page
    BY <2>1 DEF HeapPages
  <2> QED BY <1>4, <2>1, <2>2 DEF Tables, HeapFrames
<1>5. \A f \in OwnedFrames : f # 0
  BY DEF OwnedFrames
<1>7. CASE DemandPage
  <2>1. PICK frame \in FreeFrames(bitmap), new \in SUBSET FreeFrames(bitmap) :
           /\ bitmap' = bitmap \cup {frame} \cup new
           /\ owned' = owned \cup {frame} \cup new
           /\ Tables' = Tables \cup new
           /\ HeapFrames' = HeapFrames \cup {frame}
    BY <1>7, DemandUses
  <2>2. FreeFrames(bitmap)' = FreeFrames(bitmap) \ ({frame} \cup new)
    BY <1>3, <2>1
  <2> QED BY <2>1, <2>2 DEF GivenOrKept
<1>8. CASE paging_init
  <2> DEFINE first == pmm_alloc_frame(bitmap)
             taken == {first} \ {NULL}
  <2>1. /\ Tables' = {first} /\ HeapFrames' = {} /\ Tables = {} /\ HeapFrames = {}
        /\ owned = {} /\ owned' = taken
        /\ FreeFrames(bitmap)' = FreeFrames(after_alloc(bitmap))
    <3>1. owned = {} /\ page_directory = [d \in Dir |-> NONE]
      BY <1>8 DEF paging_init, MemoryInv, NothingYet
    <3>2. /\ page_directory' = [d \in Dir |-> IF d = 0 THEN first ELSE NONE]
          /\ owned' = owned \cup taken /\ bitmap' = after_alloc(bitmap)
      BY <1>8 DEF paging_init
    <3>3. first # NONE
      BY FirstTableType, PageParts DEF PagingInv, NONE
    <3>4. Tables' = {first} /\ Tables = {}
      BY <3>1, <3>2, <3>3, PageParts DEF Tables
    <3>5. HeapPages' = {} /\ HeapPages = {}
      BY <3>1, <3>2, PageParts DEF HeapPages, Translate
    <3> QED BY <1>3, <3>1, <3>2, <3>4, <3>5 DEF HeapFrames, FreeFrames
  <2>2. /\ taken \in SUBSET FreeFrames(bitmap)
        /\ FreeFrames(after_alloc(bitmap)) = FreeFrames(bitmap) \ {first}
    BY <1>1, AllocTakes
  <2> HIDE DEF first
  <2> QED BY <1>5, <2>1, <2>2 DEF GivenOrKept, NULL
<1>9. CASE TableUnreachable
  <2> DEFINE frame == pmm_alloc_frame(bitmap)
             bm == after_alloc(bitmap)
             table == pmm_alloc_frame(bm)
             taken == {frame} \cup ({table} \ {NULL})
  <2>1. /\ frame # NULL /\ owned' = owned \cup taken /\ bitmap' = after_alloc(bm)
        /\ Tables' = Tables /\ HeapFrames' = HeapFrames
    BY <1>4, <1>9 DEF TableUnreachable
  <2>2. /\ frame \in FreeFrames(bitmap) /\ FreeFrames(bm) = FreeFrames(bitmap) \ {frame}
        /\ FreeFrames(after_alloc(bm)) = FreeFrames(bm) \ {table}
        /\ table # NULL => table \in FreeFrames(bm)
    BY <1>1, <2>1, AllocTakes
  <2>3. FreeFrames(bitmap)' = FreeFrames(after_alloc(bm))
    BY <1>3, <2>1 DEF FreeFrames
  <2> HIDE DEF frame, bm, table
  <2> QED BY <1>5, <2>1, <2>2, <2>3 DEF GivenOrKept, NULL
<1>10. CASE (\E p \in Page : Access(p)) \/ FatalFault \/ OutOfMemory
  <2>1. /\ owned' = owned /\ Tables' = Tables /\ HeapFrames' = HeapFrames
        /\ bitmap' = bitmap \/ (pmm_alloc_frame(bitmap) = NULL /\ bitmap' = after_alloc(bitmap))
    BY <1>4, <1>10 DEF Access, FatalFault, OutOfMemory, pmm_vars
  <2>2. FreeFrames(after_alloc(bitmap)) = FreeFrames(bitmap) \ {pmm_alloc_frame(bitmap)}
    BY <1>1, AllocTakes
  <2>3. FreeFrames(bitmap)' = FreeFrames(bitmap) \/ FreeFrames(bitmap)' = FreeFrames(bitmap) \ {0}
    BY <1>3, <2>1, <2>2 DEF FreeFrames, NULL
  <2> QED BY <1>5, <2>1, <2>3 DEF GivenOrKept
<1> QED BY <1>7, <1>8, <1>9, <1>10 DEF PagingNext, BootPmm, BootNoMap

(* Paging over the physical memory manager implements FrameOwnership, for  *)
(* every memory map: a frame is classified once, a free one may be given   *)
(* out, and a frame that was given out never changes its use.              *)
THEOREM PagingImplementsOwnership == PagingSpec => OwnershipRefinement
<1>1. PagingInit => Ownership!OwnershipInit
  BY DEF PagingInit, Ownership!OwnershipInit, OwnerOf
<1>2. PagingInv /\ PagingInv' /\ MemoryInv /\ MemoryInv' /\ UsesApart /\ UsesApart'
         /\ [PagingNext]_paging_vars
         => [Ownership!OwnershipNext]_Owner
  <2> SUFFICES ASSUME PagingInv, PagingInv', MemoryInv, MemoryInv', UsesApart, UsesApart',
                      [PagingNext]_paging_vars
               PROVE  [Ownership!OwnershipNext]_Owner
    OBVIOUS
  <2>1. CASE UNCHANGED paging_vars
    <3>1. UNCHANGED <<boot, owned, bitmap, total_frames, page_directory, ptes>>
      BY <2>1 DEF paging_vars, pmm_vars
    <3> QED BY <3>1 DEF Owner, OwnerOf, Tables, HeapFrames, HeapPages, Translate,
                        FreeFrames, Scanned
  <2>2. CASE PagingNext /\ boot # "pmm"
    BY <2>2, PagingGivesOut DEF Ownership!OwnershipNext
  <2>3. CASE BootPmm
    BY <2>3, BootClassifies DEF Ownership!OwnershipNext
  <2>4. CASE BootNoMap
    BY <2>4 DEF BootNoMap, Owner, OwnerOf
  <2> QED BY <2>1, <2>2, <2>3, <2>4 DEF PagingNext, paging_init, Access, FatalFault,
                 OutOfMemory, DemandPage, TableUnreachable, Faulting
<1> QED BY <1>1, <1>2, UsesDisjoint, PagingInvariant, MemoryInvariant, PTL
        DEF PagingSpec, OwnershipRefinement, Ownership!OwnershipSpec, Owner
=============================================================================
