----------------------------- MODULE HeapProofs -----------------------------
(***************************************************************************)
(* The heap, for every window, every set of sizes that callers ask for and *)
(* every number of blocks, as long as kfree has done neither of the two    *)
(* things that break the list.                                             *)
(***************************************************************************)
EXTENDS Heap, NaturalsInduction, WellFoundedInduction, TLAPS

USE DEF NULL, HEADER, WORD, MIN_BLOCK_SIZE, magic, size, free, next, prev, payload

(* The constants are numbers, in the order that heap.c and vm.h give them. *)
LEMMA Consts ==
    /\ HEAP_START \in Nat /\ HEAP_START > 0 /\ HEAP_END \in Nat /\ U32 \in Nat
    /\ HEAP_START + 24 <= HEAP_END /\ HEAP_END <= 2 * HEAP_START
    /\ 2 * HEAP_END + 48 <= U32
    /\ HEAP_MAGIC \in Nat /\ HEAP_END <= HEAP_MAGIC /\ HEAP_MAGIC + HEAP_END + 20 < U32
    /\ DATA \in Nat /\ HEAP_END <= DATA /\ DATA + HEAP_END + 20 < U32 /\ DATA # HEAP_MAGIC
BY HeapAssumption

(* Words lie four bytes apart in the window. *)
LEMMA WordIs ==
    ASSUME NEW a \in Words
    PROVE  a \in Int /\ HEAP_START <= a /\ a < HEAP_END
BY Consts DEF Words

LEMMA WordStep ==
    ASSUME NEW a \in Words, NEW k \in Int, k % 4 = 0,
           HEAP_START <= a + k, a + k < HEAP_END
    PROVE  a + k \in Words
BY Consts DEF Words

LEMMA WordGap ==
    ASSUME NEW a \in Words, NEW c \in Words, a < c
    PROVE  a + 4 <= c
BY Consts DEF Words

(* Sizes are rounded up to a multiple of eight, without overflow. *)
LEMMA SizeIs ==
    ASSUME NEW n \in Sizes
    PROVE  n \in Nat /\ 2 * n < U32
<1>1. n \in 0 .. (U32 \div 2) - 1 /\ U32 \in Nat
  BY HeapAssumption
<1> QED BY <1>1

LEMMA Rounded ==
    ASSUME NEW n \in Sizes \ {0}
    PROVE  /\ aligned(n) \in Nat /\ aligned(n) % 8 = 0 /\ aligned(n) >= 8
           /\ n <= aligned(n) /\ 2 * aligned(n) < U32 + 14
<1>1. n \in Nat /\ n > 0 /\ 2 * n < U32 /\ U32 \in Nat /\ U32 >= 48
  BY SizeIs, Consts
<1>2. (n + 7) % U32 = n + 7
  BY <1>1
<1>3. aligned(n) = ((n + 7) \div 8) * 8
  BY <1>2 DEF aligned
<1>4. PICK q \in Int : q = (n + 7) \div 8 /\ q * 8 <= n + 7 /\ n + 7 < q * 8 + 8
  BY <1>1
<1>5. (q * 8) % 8 = 0
  OBVIOUS
<1> QED BY <1>1, <1>3, <1>4, <1>5
-----------------------------------------------------------------------------
(* The inductive invariant. *)

\* The address after the payload of block b: where its guard word is.
EndOf(m, b) == b + HEADER + m[size(b)]

\* A value at which kfree does not free a block that has it for its size.
NotASize(v) == v \in {0, 1} \/ v \in HEAP_START .. U32 - 1 - HEAP_END - HEADER

\* The words at a cannot be taken for a block that is in use.
NoBlock(m, a) == Rd(m, free(a)) # 0 \/ NotASize(Rd(m, size(a)))

\* The fields of block b on their own.
BlockOK(m, e, b) ==
    /\ m[magic(b)] = HEAP_MAGIC
    /\ m[size(b)] \in Nat /\ m[size(b)] >= MIN_BLOCK_SIZE /\ m[size(b)] % 8 = 0
    /\ m[free(b)] \in {0, 1}
    /\ EndOf(m, b) <= e
    /\ m[EndOf(m, b)] = HEAP_MAGIC
    /\ m[next(b)] = NULL /\ m[free(b)] = 0 /\ b # HEAP_START => EndOf(m, b) + WORD <= e

\* The list, B being its blocks, is linked both ways around b.
Linked(m, B, b) ==
    /\ m[next(b)] \in B \cup {NULL} /\ m[prev(b)] \in B \cup {NULL}
    /\ m[next(b)] # NULL => EndOf(m, b) <= m[next(b)] /\ m[prev(m[next(b)])] = b
    /\ m[prev(b)] # NULL => m[next(m[prev(b)])] = b

\* The list goes through B in the order of the addresses.
Ordered(m, B) == \A b, c \in B : b < c => m[next(b)] # NULL /\ m[next(b)] <= c

Memory(m) == m \in [Words -> 0 .. U32 - 1]

\* The memory of a heap that ends at e and has the blocks B.
Shape(m, e, B) ==
    /\ Memory(m)
    /\ e \in HEAP_START .. HEAP_END - 1 /\ (e - HEAP_START) % WORD = 0
    /\ B \subseteq Words
    /\ \A b \in B : BlockOK(m, e, b) /\ Linked(m, B, b)
    /\ Ordered(m, B)
    /\ \A a \in Words \ B : NoBlock(m, a)

\* What a caller holds is the payload of a block in use, as the caller left it.
LiveOK(m, B, l) ==
    /\ l.ptr \in Int /\ l.size \in Sizes \ {0} /\ l.written \in BOOLEAN
    /\ l.ptr - HEADER \in B /\ m[free(l.ptr - HEADER)] = 0
    /\ l.size <= m[size(l.ptr - HEADER)]
    /\ l.written => \A a \in Words : l.ptr <= a /\ a < l.ptr + l.size => m[a] = DATA

\* What was freed is no block in use.
StaleOK(m, B, p) ==
    /\ p \in Int /\ p - HEADER \in Words /\ prev(p - HEADER) \in Words
    /\ p - HEADER \in B => m[free(p - HEADER)] # 0

Held(m, B, L, S) ==
    /\ \A l \in L : LiveOK(m, B, l)
    /\ \A k, l \in L : k.ptr = l.ptr => k = l
    /\ \A p \in S : StaleOK(m, B, p)

Anchored(head, e, B) ==
    \/ head = NULL /\ B = {} /\ e = HEAP_START
    \/ head = HEAP_START /\ HEAP_START \in B

LastInUse(m, B) == \A b \in B : m[next(b)] = NULL => m[free(b)] = 0

\* Where the walks are.
Walking(m, B) ==
    /\ op \in {"idle", "search", "scan", "fault"}
    /\ op \in {"search", "scan"} => current \in B
    /\ op = "search" => want \in Sizes \ {0}
    /\ op # "scan" => LastInUse(m, B)

(* Until kfree breaks the list, the heap is a list of blocks that lie one  *)
(* behind the other, each with its guard word; what a caller holds is a    *)
(* block in use, and no address that was freed looks like one.             *)
HeapInv ==
    Sound => \E B \in SUBSET Words :
        /\ Shape(mem, heap_end, B)
        /\ Held(mem, B, live, stale)
        /\ Anchored(heap_head, heap_end, B)
        /\ Walking(mem, B)
-----------------------------------------------------------------------------
(* What the shape of the memory says. *)

(* The words of a block lie in the window. *)
LEMMA BlockWords ==
    ASSUME NEW m, NEW e, NEW B, Shape(m, e, B), NEW b \in B
    PROVE  /\ b \in Int /\ HEAP_START <= b /\ b + 28 <= e /\ e \in Int /\ e < HEAP_END
           /\ b \in Words /\ b + 4 \in Words /\ b + 8 \in Words
           /\ b + 12 \in Words /\ b + 16 \in Words /\ b + 20 \in Words
           /\ m[b + 4] \in Int /\ m[b + 4] >= 8 /\ m[b + 4] % 4 = 0
           /\ m[b + 8] \in {0, 1}
           /\ m[b + 12] \in B \cup {0} /\ m[b + 16] \in B \cup {0}
           /\ b + 20 + m[b + 4] \in Words /\ b + 20 + m[b + 4] <= e
           /\ m[b] = HEAP_MAGIC /\ m[b + 20 + m[b + 4]] = HEAP_MAGIC
<1>1. /\ Memory(m) /\ b \in Words /\ BlockOK(m, e, b) /\ Linked(m, B, b)
      /\ e \in HEAP_START .. HEAP_END - 1
  BY DEF Shape
<1>2. b \in Int /\ HEAP_START <= b /\ b < HEAP_END /\ e \in Int /\ e < HEAP_END
  BY <1>1, WordIs, Consts
<1>3. /\ m[b + 4] \in Nat /\ m[b + 4] >= 8 /\ m[b + 4] % 8 = 0 /\ b + 20 + m[b + 4] <= e
      /\ m[b] = HEAP_MAGIC /\ m[b + 8] \in {0, 1} /\ m[b + 20 + m[b + 4]] = HEAP_MAGIC
  BY <1>1 DEF BlockOK, EndOf
<1>4. m[b + 12] \in B \cup {0} /\ m[b + 16] \in B \cup {0}
  BY <1>1 DEF Linked
<1>5. PICK s \in Nat : s = m[b + 4]
  BY <1>3
<1>6. s % 4 = 0 /\ (20 + s) % 4 = 0
  BY <1>3, <1>5
<1>7. b + (20 + s) \in Words
  BY <1>1, <1>2, <1>3, <1>5, <1>6, WordStep, Consts
<1>8. /\ b + 4 \in Words /\ b + 8 \in Words /\ b + 12 \in Words
      /\ b + 16 \in Words /\ b + 20 \in Words
  BY <1>1, <1>2, <1>3, WordStep, Consts
<1> QED BY <1>1, <1>2, <1>3, <1>4, <1>5, <1>6, <1>7, <1>8

LEMMA NotNull ==
    ASSUME NEW m, NEW e, NEW B, Shape(m, e, B), NEW b \in B
    PROVE  b # 0
<1>1. b \in Int /\ HEAP_START <= b
  BY BlockWords
<1> QED BY <1>1, Consts

(* Blocks do not overlap. *)
LEMMA Apart ==
    ASSUME NEW m, NEW e, NEW B, Shape(m, e, B), NEW b \in B, NEW c \in B, b < c
    PROVE  b + 20 + m[b + 4] <= c
<1>1. Linked(m, B, b) /\ m[b + 12] # 0 /\ m[b + 12] <= c
  BY DEF Shape, Ordered
<1>2. m[b + 12] \in B /\ b + 20 + m[b + 4] <= m[b + 12]
  BY <1>1 DEF Linked, EndOf
<1>3. b \in Int /\ m[b + 4] \in Int /\ c \in Int /\ m[b + 12] \in Int
  BY <1>2, BlockWords
<1> QED BY <1>1, <1>2, <1>3

(* What is in the window is no size. *)
LEMMA NotSizes ==
    /\ NotASize(0) /\ NotASize(1) /\ NotASize(HEAP_MAGIC) /\ NotASize(DATA)
    /\ \A a \in Words : NotASize(a)
<1>1. /\ HEAP_MAGIC \in HEAP_START .. U32 - 1 - HEAP_END - HEADER
      /\ DATA \in HEAP_START .. U32 - 1 - HEAP_END - HEADER
  BY Consts
<1>2. ASSUME NEW a \in Words PROVE a \in HEAP_START .. U32 - 1 - HEAP_END - HEADER
  BY WordIs, Consts
<1> QED BY <1>1, <1>2 DEF NotASize

(* A word that is not a block stays one if its size and its free flag do,  *)
(* or if what is written there is no size, or not 0 for the flag.          *)
LEMMA NoBlockKept ==
    ASSUME NEW m, NEW m2, NEW a, NoBlock(m, a),
           a + 4 \in Words => m2[a + 4] = m[a + 4],
           a + 8 \in Words => m2[a + 8] = m[a + 8]
    PROVE  NoBlock(m2, a)
BY DEF NoBlock, Rd

LEMMA NoBlockSize ==
    ASSUME NEW m, NEW a, a + 4 \in Words => NotASize(m[a + 4])
    PROVE  NoBlock(m, a)
BY NotSizes DEF NoBlock, Rd

LEMMA NoBlockFree ==
    ASSUME NEW m, NEW a, a + 8 \in Words => m[a + 8] # 0
    PROVE  NoBlock(m, a)
BY Consts DEF NoBlock, Rd
-----------------------------------------------------------------------------
(* Callers. *)

\* Blocks in use, but for x, are still there and are as they were.
Kept(m, B, x, m2, B2) ==
    \A b \in B \ {x} : m[free(b)] = 0 =>
        /\ b \in B2 /\ m2[free(b)] = 0 /\ m2[size(b)] = m[size(b)]
        /\ \A a \in Words : payload(b) <= a /\ a < EndOf(m, b) => m2[a] = m[a]

(* Callers keep what they hold when blocks in use are kept. *)
LEMMA HeldKept ==
    ASSUME NEW m, NEW e, NEW B, NEW L, NEW S, NEW m2, NEW B2, NEW x, NEW L2, NEW S2,
           Shape(m, e, B), Held(m, B, L, S), Kept(m, B, x, m2, B2),
           L2 \subseteq L, \A l \in L2 : l.ptr - 20 # x,
           \A p \in S2 : StaleOK(m2, B2, p)
    PROVE  Held(m2, B2, L2, S2)
<1>1. ASSUME NEW l \in L2 PROVE LiveOK(m2, B2, l)
  <2>1. LiveOK(m, B, l)
    BY DEF Held
  <2>2. PICK b \in B : b = l.ptr - 20 /\ b # x /\ m[b + 8] = 0
    BY <2>1 DEF LiveOK
  <2>3. /\ b \in B2 /\ m2[b + 8] = 0 /\ m2[b + 4] = m[b + 4]
        /\ \A a \in Words : b + 20 <= a /\ a < b + 20 + m[b + 4] => m2[a] = m[a]
    BY <2>2 DEF Kept, EndOf
  <2>4. b \in Int /\ m[b + 4] \in Int /\ l.ptr = b + 20
    BY <2>1, <2>2, BlockWords DEF LiveOK
  <2>5. l.size \in Int /\ l.size <= m[b + 4]
    BY <2>1, <2>2, SizeIs DEF LiveOK
  <2>6. l.written => \A a \in Words : l.ptr <= a /\ a < l.ptr + l.size => m2[a] = DATA
    BY <2>1, <2>3, <2>4, <2>5, WordIs DEF LiveOK
  <2> QED BY <2>1, <2>2, <2>3, <2>4, <2>5, <2>6 DEF LiveOK
<1> QED BY <1>1 DEF Held
-----------------------------------------------------------------------------
(* A caller writes to its memory. *)

\* The header and the guard word of block b are the same.
Same(m, m2, b) ==
    /\ m2[b] = m[b] /\ m2[b + 4] = m[b + 4] /\ m2[b + 8] = m[b + 8]
    /\ m2[b + 12] = m[b + 12] /\ m2[b + 16] = m[b + 16]
    /\ m2[b + 20 + m[b + 4]] = m[b + 20 + m[b + 4]]

(* The list is what it was when headers and guard words are. *)
LEMMA ShapeSame ==
    ASSUME NEW m, NEW m2, NEW e, NEW B, Shape(m, e, B), Memory(m2),
           \A b \in B : Same(m, m2, b), \A a \in Words \ B : NoBlock(m2, a)
    PROVE  Shape(m2, e, B) /\ (LastInUse(m, B) => LastInUse(m2, B))
<1>1. ASSUME NEW b \in B PROVE BlockOK(m2, e, b) /\ Linked(m2, B, b)
  <2>1. BlockOK(m, e, b) /\ Linked(m, B, b) /\ Same(m, m2, b)
    BY DEF Shape
  <2>2. BlockOK(m2, e, b)
    BY <2>1 DEF BlockOK, EndOf, Same
  <2>3. \A c \in B : m2[c + 12] = m[c + 12] /\ m2[c + 16] = m[c + 16]
    BY DEF Same
  <2>4. Linked(m2, B, b)
    BY <2>1, <2>3 DEF Linked, EndOf, Same
  <2> QED BY <2>2, <2>4
<1>2. Ordered(m2, B)
  BY DEF Shape, Ordered, Same
<1> QED BY <1>1, <1>2 DEF Shape, LastInUse, Same

LEMMA Filled ==
    ASSUME NEW m, NEW e, NEW B, Shape(m, e, B), NEW b \in B, NEW n \in Nat, n <= m[b + 4]
    PROVE  /\ Shape(Fill(m, b + 20, n), e, B)
           /\ LastInUse(m, B) => LastInUse(Fill(m, b + 20, n), B)
           /\ Kept(m, B, b, Fill(m, b + 20, n), B)
           /\ Same(m, Fill(m, b + 20, n), b)
           /\ \A c \in B : Same(m, Fill(m, b + 20, n), c)
           /\ \A a \in Words : b + 20 <= a /\ a < b + 20 + n => Fill(m, b + 20, n)[a] = DATA
<1>1. PICK m2 : m2 = Fill(m, b + 20, n)
  OBVIOUS
<1>2. Memory(m2)
  BY <1>1, Consts DEF Fill, Memory, Shape
<1>3. \A a \in Words : b + 20 <= a /\ a < b + 20 + n => m2[a] = DATA
  BY <1>1 DEF Fill
<1>4. \A a \in Words : ~ (b + 20 <= a /\ a < b + 20 + n) => m2[a] = m[a]
  BY <1>1 DEF Fill
<1>5. b \in Int /\ m[b + 4] \in Int
  BY BlockWords
<1>6. ASSUME NEW c \in B
      PROVE  /\ Same(m, m2, c)
             /\ c # b => \A a \in Words : c + 20 <= a /\ a < c + 20 + m[c + 4] => m2[a] = m[a]
  <2>1. /\ c \in Int /\ m[c + 4] \in Int /\ m[c + 4] >= 8 /\ c \in Words /\ c + 4 \in Words
        /\ c + 8 \in Words /\ c + 12 \in Words /\ c + 16 \in Words /\ c + 20 + m[c + 4] \in Words
    BY BlockWords
  <2>2. b = c \/ b + 20 + m[b + 4] <= c \/ c + 20 + m[c + 4] <= b
    BY <1>5, <2>1, Apart
  <2>3. Same(m, m2, c)
    BY <1>4, <1>5, <2>1, <2>2 DEF Same
  <2> QED BY <1>4, <1>5, <2>1, <2>2, <2>3, WordIs
<1>7. ASSUME NEW a \in Words \ B PROVE NoBlock(m2, a)
  <2>1. NoBlock(m, a)
    BY DEF Shape
  <2>2. \/ a + 4 \in Words /\ m2[a + 4] = DATA
        \/ a + 8 \in Words /\ m2[a + 8] = DATA
        \/ /\ a + 4 \in Words => m2[a + 4] = m[a + 4]
           /\ a + 8 \in Words => m2[a + 8] = m[a + 8]
    BY <1>3, <1>4
  <2> QED BY <2>1, <2>2, NoBlockKept, NoBlockSize, NoBlockFree, NotSizes, Consts
<1>8. Kept(m, B, b, m2, B)
  BY <1>6 DEF Kept, EndOf, Same
<1> QED BY <1>1, <1>2, <1>3, <1>6, <1>7, <1>8, ShapeSame
-----------------------------------------------------------------------------
(* The free flag of a block is written. *)

Flagged(m, m2, b, f) ==
    Memory(m2) /\ m2[b + 8] = f /\ \A a \in Words : a # b + 8 => m2[a] = m[a]

LEMMA FlagWrites ==
    ASSUME NEW m, Memory(m), NEW b, b + 8 \in Words, NEW f \in {0, 1}
    PROVE  Flagged(m, [m EXCEPT ![free(b)] = f], b, f)
BY Consts DEF Flagged, Memory

(* Only a block that another follows is put to use again. *)
LEMMA FlagShape ==
    ASSUME NEW m, NEW m2, NEW e, NEW B, Shape(m, e, B), NEW b \in B, NEW f \in {0, 1},
           Flagged(m, m2, b, f), f = 1 \/ m[b + 12] # 0
    PROVE  /\ Shape(m2, e, B)
           /\ Kept(m, B, b, m2, B)
           /\ f = 0 /\ LastInUse(m, B) => LastInUse(m2, B)
           /\ \A c \in B : c # b => Same(m, m2, c)
<1>1. b \in Int /\ m[b + 4] \in Int /\ m[b + 4] >= 8 /\ b + 8 \in Words
  BY BlockWords
<1>2. ASSUME NEW c \in B
      PROVE  /\ c # b => Same(m, m2, c)
             /\ m2[c] = m[c] /\ m2[c + 4] = m[c + 4] /\ m2[c + 12] = m[c + 12]
             /\ m2[c + 16] = m[c + 16] /\ m2[c + 20 + m[c + 4]] = m[c + 20 + m[c + 4]]
             /\ \A a \in Words : c + 20 <= a /\ a < c + 20 + m[c + 4] => m2[a] = m[a]
  <2>1. /\ c \in Int /\ m[c + 4] \in Int /\ m[c + 4] >= 8 /\ c \in Words /\ c + 4 \in Words
        /\ c + 8 \in Words /\ c + 12 \in Words /\ c + 16 \in Words /\ c + 20 + m[c + 4] \in Words
    BY BlockWords
  <2>2. b = c \/ b + 20 + m[b + 4] <= c \/ c + 20 + m[c + 4] <= b
    BY <1>1, <2>1, Apart
  <2> QED BY <1>1, <2>1, <2>2, WordIs DEF Same, Flagged
<1>3. ASSUME NEW c \in B PROVE BlockOK(m2, e, c) /\ Linked(m2, B, c)
  <2>1. BlockOK(m, e, c) /\ Linked(m, B, c)
    BY DEF Shape
  <2>2. m2[c + 8] \in {0, 1} /\ (m2[c + 8] = m[c + 8] \/ m2[c + 8] = 1 \/ m[c + 12] # 0)
    BY <1>2, <2>1 DEF Same, BlockOK, Flagged
  <2>3. BlockOK(m2, e, c)
    BY <1>2, <2>1, <2>2 DEF BlockOK, EndOf
  <2>4. Linked(m2, B, c)
    BY <1>2, <2>1 DEF Linked, EndOf
  <2> QED BY <2>3, <2>4
<1>4. ASSUME NEW a \in Words \ B PROVE NoBlock(m2, a)
  <2>1. NoBlock(m, a) /\ a \in Int
    BY WordIs DEF Shape
  <2>2. \/ a + 4 \in Words /\ m2[a + 4] = f
        \/ /\ a + 4 \in Words => m2[a + 4] = m[a + 4]
           /\ a + 8 \in Words => m2[a + 8] = m[a + 8]
    BY <1>1, <2>1 DEF Flagged
  <2> QED BY <2>1, <2>2, NoBlockKept, NoBlockSize, NotSizes
<1>5. Ordered(m2, B)
  BY <1>2 DEF Ordered, Shape
<1>6. Shape(m2, e, B)
  BY <1>3, <1>4, <1>5 DEF Shape, Flagged
<1>7. Kept(m, B, b, m2, B)
  BY <1>2 DEF Kept, EndOf, Same
<1>8. f = 0 /\ LastInUse(m, B) => LastInUse(m2, B)
  BY <1>2 DEF LastInUse, Same, Flagged
<1> QED BY <1>2, <1>6, <1>7, <1>8
-----------------------------------------------------------------------------
(* A free block absorbs the free block after it. *)

\* Where the block that p and n become ends.
JoinedEnd(m, p, n) == p + 44 + m[p + 4] + m[n + 4]

Joined(m, m2, p, n) ==
    /\ Memory(m2)
    /\ m2[p + 4] = m[p + 4] + 24 + m[n + 4]
    /\ m2[p + 12] = m[n + 12]
    /\ m2[JoinedEnd(m, p, n)] = HEAP_MAGIC
    /\ m[n + 12] # 0 => m2[m[n + 12] + 16] = p
    /\ \A a \in Words :
          /\ a # p + 4 /\ a # p + 12 /\ a # JoinedEnd(m, p, n)
          /\ m[n + 12] # 0 => a # m[n + 12] + 16
          => m2[a] = m[a]

\* p and n may be merged without reaching into the block after n.
Joins(m, e, B, p, n) ==
    /\ p \in B /\ n \in B /\ m[p + 12] = n /\ m[p + 8] = 1 /\ m[n + 8] = 1
    /\ JoinedEnd(m, p, n) <= e
    /\ m[n + 12] # 0 => JoinedEnd(m, p, n) <= m[n + 12]

(* Where the two blocks, the end of what they become and the others are. *)
LEMMA JoinPlaces ==
    ASSUME NEW m, NEW e, NEW B, NEW p, NEW n, Shape(m, e, B), Joins(m, e, B, p, n)
    PROVE  /\ p \in Int /\ n \in Int /\ m[p + 4] \in Int /\ m[n + 4] \in Int
           /\ m[p + 4] >= 8 /\ m[n + 4] >= 8 /\ p + 20 + m[p + 4] <= n
           /\ JoinedEnd(m, p, n) \in Words
           /\ m[n + 12] \in B \cup {0}
           /\ m[n + 12] # 0 => m[n + 12] \in Int /\ n + 20 + m[n + 4] <= m[n + 12]
           /\ \A c \in B : \/ c = p \/ c = n \/ c + 20 + m[c + 4] <= p
                           \/ m[n + 12] # 0 /\ m[n + 12] <= c
<1>1. p \in B /\ n \in B /\ m[p + 12] = n /\ JoinedEnd(m, p, n) <= e
  BY DEF Joins
<1>2. /\ p \in Int /\ n \in Int /\ m[p + 4] \in Int /\ m[n + 4] \in Int /\ e \in Int
      /\ m[p + 4] >= 8 /\ m[n + 4] >= 8 /\ m[n + 4] % 4 = 0 /\ p + 20 + m[p + 4] \in Words
      /\ HEAP_START <= p /\ HEAP_START <= n /\ e < HEAP_END /\ m[n + 12] \in B \cup {0}
  BY <1>1, BlockWords
<1>3. p + 20 + m[p + 4] <= n /\ (m[n + 12] # 0 => n + 20 + m[n + 4] <= m[n + 12])
  BY <1>1, <1>2, Consts DEF Shape, Linked, EndOf
<1>4. PICK a \in Words, k \in Int : a = p + 20 + m[p + 4] /\ k = 24 + m[n + 4] /\ k % 4 = 0
  BY <1>2
<1>5. JoinedEnd(m, p, n) = a + k
  BY <1>2, <1>4, WordIs DEF JoinedEnd
<1>6. a + k \in Words
  BY <1>1, <1>2, <1>4, <1>5, WordStep, Consts
<1>7. m[n + 12] # 0 => m[n + 12] \in Int
  <2>1. \A q \in B : q \in Int
    BY BlockWords
  <2> QED BY <1>2, <2>1
<1>8. ASSUME NEW c \in B
      PROVE  c = p \/ c = n \/ c + 20 + m[c + 4] <= p \/ (m[n + 12] # 0 /\ m[n + 12] <= c)
  <2>1. c \in Int
    BY BlockWords
  <2>2. c < p => c + 20 + m[c + 4] <= p
    BY <1>1, Apart
  <2>3. p < c => n <= c
    BY <1>1 DEF Shape, Ordered
  <2>4. n < c => m[n + 12] # 0 /\ m[n + 12] <= c
    BY <1>1 DEF Shape, Ordered
  <2> QED BY <1>2, <2>1, <2>2, <2>3, <2>4
<1> QED BY <1>2, <1>3, <1>5, <1>6, <1>7, <1>8

(* What the merge leaves as it was. *)
LEMMA JoinKeeps ==
    ASSUME NEW m, NEW m2, NEW e, NEW B, NEW p, NEW n, Shape(m, e, B), Joins(m, e, B, p, n),
           Joined(m, m2, p, n), NEW c \in B
    PROVE  /\ c # n => m2[c] = m[c] /\ m2[c + 8] = m[c + 8]
           /\ c # n /\ c # m[n + 12] => m2[c + 16] = m[c + 16]
           /\ c # n /\ c # p =>
                 /\ m2[c + 4] = m[c + 4] /\ m2[c + 12] = m[c + 12]
                 /\ m2[c + 20 + m[c + 4]] = HEAP_MAGIC
                 /\ \A a \in Words : c + 20 <= a /\ a < c + 20 + m[c + 4] => m2[a] = m[a]
<1>1. /\ c \in Int /\ m[c + 4] \in Int /\ m[c + 4] >= 8 /\ c \in Words /\ c + 4 \in Words
      /\ c + 8 \in Words /\ c + 12 \in Words /\ c + 16 \in Words /\ c + 20 + m[c + 4] \in Words
      /\ m[c] = HEAP_MAGIC /\ m[c + 20 + m[c + 4]] = HEAP_MAGIC
  BY BlockWords
<1>2. PICK t \in Int : /\ t = JoinedEnd(m, p, n) /\ m2[t] = HEAP_MAGIC
                       /\ t = p + 44 + m[p + 4] + m[n + 4]
                       /\ m[n + 12] # 0 => t <= m[n + 12]
  BY JoinPlaces DEF Joins, JoinedEnd, Joined
<1>3. \A a \in Words : a # p + 4 /\ a # p + 12 /\ a # t /\ (m[n + 12] # 0 => a # m[n + 12] + 16)
                       => m2[a] = m[a]
  BY <1>2 DEF Joined
<1>4. /\ p \in Int /\ n \in Int /\ m[p + 4] \in Int /\ m[n + 4] \in Int
      /\ m[p + 4] >= 8 /\ m[n + 4] >= 8 /\ p + 20 + m[p + 4] <= n
      /\ m[n + 12] # 0 => m[n + 12] \in Int /\ n + 20 + m[n + 4] <= m[n + 12]
      /\ c = p \/ c = n \/ c + 20 + m[c + 4] <= p \/ (m[n + 12] # 0 /\ m[n + 12] <= c)
  BY JoinPlaces
<1>5. CASE c = n
  BY <1>5
<1>6. CASE c = p
  BY <1>1, <1>2, <1>3, <1>4, <1>6
<1>7. CASE c + 20 + m[c + 4] <= p
  BY <1>1, <1>2, <1>3, <1>4, <1>7, WordIs
<1>8. CASE m[n + 12] # 0 /\ m[n + 12] <= c
  <2>1. c = m[n + 12] \/ m[n + 12] + 28 <= c
    <3>1. m[n + 12] \in B
      BY <1>8, JoinPlaces
    <3>2. PICK q \in B : q = m[n + 12]
      BY <3>1
    <3>3. q \in Int /\ m[q + 4] \in Int /\ m[q + 4] >= 8
      BY BlockWords
    <3>4. q < c => q + 20 + m[q + 4] <= c
      BY Apart
    <3> QED BY <1>1, <1>8, <3>2, <3>3, <3>4
  <2> QED BY <1>1, <1>2, <1>3, <1>4, <1>8, <2>1, WordIs
<1> QED BY <1>4, <1>5, <1>6, <1>7, <1>8

LEMMA JoinDistinct ==
    ASSUME NEW m, NEW e, NEW B, NEW p, NEW n, Shape(m, e, B), Joins(m, e, B, p, n)
    PROVE  p # n /\ p # 0 /\ n # 0 /\ m[n + 12] # n /\ m[n + 12] # p
<1>1. p \in B /\ n \in B
  BY DEF Joins
<1>2. p # 0 /\ n # 0
  BY <1>1, NotNull
<1>3. /\ p \in Int /\ n \in Int /\ m[p + 4] \in Int /\ m[n + 4] \in Int
      /\ m[p + 4] >= 8 /\ m[n + 4] >= 8 /\ p + 20 + m[p + 4] <= n
      /\ m[n + 12] # 0 => m[n + 12] \in Int /\ n + 20 + m[n + 4] <= m[n + 12]
  BY JoinPlaces
<1> QED BY <1>2, <1>3

(* The heap keeps its shape, without n, and blocks in use are kept. *)
LEMMA JoinShape ==
    ASSUME NEW m, NEW m2, NEW e, NEW B, NEW p, NEW n, Shape(m, e, B), Joins(m, e, B, p, n),
           Joined(m, m2, p, n)
    PROVE  Shape(m2, e, B \ {n}) /\ \A x : Kept(m, B, x, m2, B \ {n})
<1>1. /\ p \in B /\ n \in B /\ p # n /\ m[p + 12] = n /\ m[p + 8] = 1 /\ m[n + 8] = 1
      /\ m[n + 16] = p /\ m[n + 12] \in B \cup {0} /\ m[n + 12] # n
      /\ m[n + 12] # 0 => m[m[n + 12] + 16] = n
      /\ m2[p + 12] = m[n + 12] /\ (m[n + 12] # 0 => m2[m[n + 12] + 16] = p)
  <2>1. p \in B /\ n \in B /\ m[p + 12] = n /\ m[p + 8] = 1 /\ m[n + 8] = 1
    BY DEF Joins
  <2>2. Linked(m, B, p) /\ Linked(m, B, n) /\ n # 0
    BY <2>1, JoinDistinct DEF Shape
  <2>3. p # n /\ m[n + 12] # n
    BY JoinDistinct
  <2> QED BY <2>1, <2>2, <2>3 DEF Linked, Joined
<1>2. ASSUME NEW b \in B \ {n} PROVE BlockOK(m2, e, b)
  <2>1. BlockOK(m, e, b) /\ b \in B /\ b # n /\ BlockOK(m, e, n)
    BY <1>1 DEF Shape
  <2>2. CASE b = p
    <3>1. m2[b] = m[b] /\ m2[b + 8] = 1
      BY <1>1, <2>1, <2>2, JoinKeeps
    <3>2. /\ m[p + 4] \in Nat /\ m[n + 4] \in Nat /\ m[p + 4] % 8 = 0 /\ m[n + 4] % 8 = 0
          /\ m[p + 4] >= 8 /\ p \in Int
      BY <2>1, <2>2, JoinPlaces DEF BlockOK
    <3>3. m2[p + 4] = m[p + 4] + 24 + m[n + 4] /\ m2[JoinedEnd(m, p, n)] = HEAP_MAGIC
      BY DEF Joined
    <3>4. m2[p + 4] \in Nat /\ m2[p + 4] >= 8 /\ m2[p + 4] % 8 = 0
      BY <3>2, <3>3
    <3>5. p + 20 + m2[p + 4] = JoinedEnd(m, p, n)
      BY <3>2, <3>3 DEF JoinedEnd
    <3>6. JoinedEnd(m, p, n) <= e
      BY DEF Joins
    <3> QED BY <2>1, <2>2, <3>1, <3>3, <3>4, <3>5, <3>6 DEF BlockOK, EndOf
  <2>3. CASE b # p
    <3>1. /\ m2[b] = m[b] /\ m2[b + 8] = m[b + 8] /\ m2[b + 4] = m[b + 4]
          /\ m2[b + 12] = m[b + 12] /\ m2[b + 20 + m[b + 4]] = HEAP_MAGIC
      BY <2>1, <2>3, JoinKeeps
    <3> QED BY <2>1, <3>1 DEF BlockOK, EndOf
  <2> QED BY <2>2, <2>3
<1>3. ASSUME NEW b \in B \ {n} PROVE Linked(m2, B \ {n}, b)
  <2>1. Linked(m, B, b) /\ b \in B /\ b # n
    BY DEF Shape
  <2>2. \A c \in B : /\ c # n /\ c # m[n + 12] => m2[c + 16] = m[c + 16]
                     /\ c # n /\ c # p => m2[c + 4] = m[c + 4] /\ m2[c + 12] = m[c + 12]
    BY JoinKeeps
  <2>3. CASE b = p
    <3>1. m[n + 12] # 0 => p + 20 + m2[p + 4] <= m[n + 12]
      <4>1. p \in Int /\ m[p + 4] \in Int /\ m[n + 4] \in Int
        BY JoinPlaces
      <4>2. m2[p + 4] = m[p + 4] + 24 + m[n + 4]
        BY DEF Joined
      <4> QED BY <4>1, <4>2 DEF Joins, JoinedEnd
    <3>2. m[n + 12] # p
      BY JoinDistinct
    <3>3. m2[p + 16] = m[p + 16] /\ m[p + 16] # n /\ m[p + 16] # p
      <4>1. m[n + 12] # p /\ n # 0 /\ p # 0
        BY JoinDistinct
      <4>2. m2[p + 16] = m[p + 16]
        BY <1>1, <2>2, <4>1
      <4>3. m[p + 16] = n => m[n + 12] = p
        BY <2>1, <2>3, <4>1 DEF Linked
      <4>4. m[p + 16] = p => m[p + 12] = p
        BY <2>1, <2>3, <4>1 DEF Linked
      <4> QED BY <1>1, <4>1, <4>2, <4>3, <4>4
    <3> QED BY <1>1, <2>1, <2>2, <2>3, <3>1, <3>2, <3>3 DEF Linked, EndOf
  <2>4. CASE b # p
    <3>1. m2[b + 12] = m[b + 12] /\ m2[b + 4] = m[b + 4]
      BY <2>1, <2>2, <2>4
    <3>2. m[b + 12] # n /\ (m[b + 12] # 0 => m[b + 12] # m[n + 12])
      <4>1. n # 0
        BY JoinDistinct
      <4> QED BY <1>1, <2>1, <2>4, <4>1 DEF Linked
    <3>3. m2[b + 12] # 0 => m2[m2[b + 12] + 16] = b
      BY <2>1, <2>2, <3>1, <3>2 DEF Linked
    <3>4. CASE b = m[n + 12]
      <4>1. b # 0
        BY <2>1, NotNull
      <4> QED BY <1>1, <2>1, <3>1, <3>2, <3>3, <3>4, <4>1 DEF Linked, EndOf
    <3>5. CASE b # m[n + 12]
      <4>1. m2[b + 16] = m[b + 16]
        BY <2>1, <2>2, <3>5
      <4>2. m[b + 16] # 0 => m[b + 16] # n /\ m[b + 16] # p
        BY <1>1, <2>1, <3>5 DEF Linked
      <4>3. m[b + 16] # n
        BY <4>2, JoinDistinct
      <4> QED BY <2>1, <2>2, <3>1, <3>2, <3>3, <4>1, <4>2, <4>3 DEF Linked, EndOf
    <3> QED BY <3>4, <3>5
  <2> QED BY <2>3, <2>4
<1>4. Ordered(m2, B \ {n})
  <2> SUFFICES ASSUME NEW b \in B \ {n}, NEW c \in B \ {n}, b < c
               PROVE  m2[b + 12] # 0 /\ m2[b + 12] <= c
    BY DEF Ordered
  <2>1. m[b + 12] # 0 /\ m[b + 12] <= c
    BY DEF Shape, Ordered
  <2>2. b # p => m2[b + 12] = m[b + 12]
    BY JoinKeeps
  <2>3. b = p => n < c
    BY <1>1, <2>1, BlockWords
  <2>4. n < c => m[n + 12] # 0 /\ m[n + 12] <= c
    BY <1>1 DEF Shape, Ordered
  <2> QED BY <1>1, <2>1, <2>2, <2>3, <2>4
<1>5. ASSUME NEW a \in Words \ (B \ {n}) PROVE NoBlock(m2, a)
  <2>1. PICK t \in Int : t = JoinedEnd(m, p, n) /\ m2[t] = HEAP_MAGIC /\ t >= p + 52
    BY JoinPlaces DEF JoinedEnd, Joined
  <2>2. \A w \in Words : w # p + 4 /\ w # p + 12 /\ w # t /\ (m[n + 12] # 0 => w # m[n + 12] + 16)
                         => m2[w] = m[w]
    BY <2>1 DEF Joined
  <2>3. /\ p \in Int /\ n \in Int /\ m2[p + 4] # 0 /\ p \in Words /\ p # 0 /\ p + 28 <= n
        /\ m[n + 12] # 0 => m[n + 12] \in Int /\ n + 28 <= m[n + 12]
    <3>1. p \in Words /\ HEAP_START <= p
      BY <1>1, BlockWords
    <3>2. /\ p \in Int /\ n \in Int /\ m[p + 4] \in Int /\ m[n + 4] \in Int
          /\ m[p + 4] >= 8 /\ m[n + 4] >= 8 /\ p + 20 + m[p + 4] <= n
          /\ m[n + 12] # 0 => m[n + 12] \in Int /\ n + 20 + m[n + 4] <= m[n + 12]
      BY JoinPlaces
    <3>3. m2[p + 4] = m[p + 4] + 24 + m[n + 4]
      BY DEF Joined
    <3> QED BY <3>1, <3>2, <3>3, Consts
  <2>4. CASE a = n
    <3>1. n + 8 \in Words
      BY <1>1, BlockWords
    <3>2. m2[n + 8] # 0
      BY <1>1, <2>1, <2>2, <2>3, <3>1, Consts
    <3> QED BY <2>4, <3>2, NoBlockFree
  <2>5. CASE a # n
    <3>1. NoBlock(m, a) /\ a \in Int /\ a # p
      BY <1>1, <2>5, WordIs DEF Shape
    <3>2. CASE a + 4 \in {p + 12, t} \/ (m[n + 12] # 0 /\ a + 4 = m[n + 12] + 16)
      <4>1. NotASize(m2[a + 4])
        <5>1. \A q \in B \cup {0} : NotASize(q)
          BY NotSizes DEF Shape
        <5> QED BY <1>1, <2>1, <2>3, <3>1, <3>2, <5>1, NotSizes
      <4> QED BY <4>1, NoBlockSize
    <3>3. CASE a + 8 \in {p + 4, t} \/ (m[n + 12] # 0 /\ a + 8 = m[n + 12] + 16)
      <4>1. m2[a + 8] # 0
        BY <1>1, <2>1, <2>3, <3>1, <3>3, Consts
      <4> QED BY <4>1, NoBlockFree
    <3>4. CASE a + 8 = p + 12
      <4>1. p + 8 \in Words
        BY <1>1, BlockWords
      <4>2. m2[a + 4] = 1
        BY <1>1, <2>1, <2>2, <2>3, <3>1, <3>4, <4>1
      <4> QED BY <4>2, NoBlockSize, NotSizes
    <3>5. CASE /\ a + 4 \notin {p + 4, p + 12, t} /\ (m[n + 12] # 0 => a + 4 # m[n + 12] + 16)
               /\ a + 8 \notin {p + 4, p + 12, t} /\ (m[n + 12] # 0 => a + 8 # m[n + 12] + 16)
      BY <2>2, <3>1, <3>5, NoBlockKept
    <3> QED BY <2>3, <3>1, <3>2, <3>3, <3>4, <3>5
  <2> QED BY <2>4, <2>5
<1>6. Shape(m2, e, B \ {n})
  BY <1>2, <1>3, <1>4, <1>5 DEF Shape, Joined
<1>7. ASSUME NEW x PROVE Kept(m, B, x, m2, B \ {n})
  <2> SUFFICES ASSUME NEW b \in B, m[b + 8] = 0
               PROVE  /\ b \in B \ {n} /\ m2[b + 8] = 0 /\ m2[b + 4] = m[b + 4]
                      /\ \A a \in Words : b + 20 <= a /\ a < b + 20 + m[b + 4] => m2[a] = m[a]
    BY DEF Kept, EndOf
  <2>1. b # n /\ b # p
    BY <1>1
  <2> QED BY <2>1, JoinKeeps
<1> QED BY <1>6, <1>7
-----------------------------------------------------------------------------
(* A free block is cut in two. *)

\* Block b may be cut down to s bytes; another block follows it.
Cuts(m, B, b, s) ==
    /\ b \in B /\ m[b + 8] = 1 /\ m[b + 12] # 0
    /\ s \in Nat /\ s % 8 = 0 /\ s >= 8 /\ m[b + 4] >= s + 32

Divided(m, m2, b, s, q) ==
    /\ Memory(m2) /\ q = b + 20 + s
    /\ m2[q] = HEAP_MAGIC /\ m2[q + 4] = m[b + 4] - s - 24 /\ m2[q + 8] = 1
    /\ m2[q + 12] = m[b + 12] /\ m2[q + 16] = b /\ m2[b + 16 + m[b + 4]] = HEAP_MAGIC
    /\ m2[m[b + 12] + 16] = q /\ m2[b + 4] = s /\ m2[b + 12] = q
    /\ \A a \in Words :
          a \notin {q, q + 4, q + 8, q + 12, q + 16, b + 16 + m[b + 4],
                    m[b + 12] + 16, b + 4, b + 12} => m2[a] = m[a]

(* Where the two parts and the other blocks are. *)
LEMMA CutPlaces ==
    ASSUME NEW m, NEW e, NEW B, NEW b, NEW s, Shape(m, e, B), Cuts(m, B, b, s)
    PROVE  /\ b \in Int /\ b # 0 /\ m[b + 4] \in Nat /\ m[b + 4] % 8 = 0
           /\ m[b + 12] \in B /\ m[b + 12] \in Int /\ b + 20 + m[b + 4] <= m[b + 12]
           /\ b + 20 + s \in Words /\ b + 16 + m[b + 4] \in Words
           /\ \A c \in B : c = b \/ c + 20 + m[c + 4] <= b \/ m[b + 12] <= c
<1>1. b \in B /\ m[b + 12] # 0 /\ s \in Nat /\ s % 8 = 0 /\ m[b + 4] >= s + 32
  BY DEF Cuts
<1>2. BlockOK(m, e, b) /\ Linked(m, B, b)
  BY <1>1 DEF Shape
<1>3. m[b + 4] \in Nat /\ m[b + 4] % 8 = 0
  BY <1>2 DEF BlockOK
<1>4. m[b + 12] \in B /\ b + 20 + m[b + 4] <= m[b + 12]
  BY <1>1, <1>2 DEF Linked, EndOf
<1>5. /\ b \in Int /\ b \in Words /\ HEAP_START <= b /\ b # 0 /\ m[b + 12] \in Int
      /\ m[b + 12] < HEAP_END
  BY <1>1, <1>4, BlockWords, NotNull, WordIs
<1>6. PICK k \in Int, j \in Int : k = 20 + s /\ j = 16 + m[b + 4] /\ k % 4 = 0 /\ j % 4 = 0
  BY <1>1, <1>3
<1>7. b + k \in Words /\ b + j \in Words
  BY <1>1, <1>3, <1>4, <1>5, <1>6, WordStep, Consts
<1>8. ASSUME NEW c \in B PROVE c = b \/ c + 20 + m[c + 4] <= b \/ m[b + 12] <= c
  <2>1. c \in Int /\ (c < b => c + 20 + m[c + 4] <= b)
    BY <1>1, BlockWords, Apart
  <2>2. b < c => m[b + 12] <= c
    BY <1>1 DEF Shape, Ordered
  <2> QED BY <1>5, <2>1, <2>2
<1>9. b + 20 + s = b + k /\ b + 16 + m[b + 4] = b + j
  BY <1>1, <1>3, <1>5, <1>6
<1> QED BY <1>3, <1>4, <1>5, <1>7, <1>8, <1>9

(* What the cut leaves as it was. *)
LEMMA CutKeeps ==
    ASSUME NEW m, NEW m2, NEW e, NEW B, NEW b, NEW s, NEW q, Shape(m, e, B),
           Cuts(m, B, b, s), Divided(m, m2, b, s, q), NEW c \in B
    PROVE  /\ m2[c] = m[c] /\ m2[c + 8] = m[c + 8]
           /\ c # m[b + 12] => m2[c + 16] = m[c + 16]
           /\ c # b => /\ m2[c + 4] = m[c + 4] /\ m2[c + 12] = m[c + 12]
                       /\ m2[c + 20 + m[c + 4]] = HEAP_MAGIC
                       /\ \A a \in Words : c + 20 <= a /\ a < c + 20 + m[c + 4] => m2[a] = m[a]
<1>1. /\ c \in Int /\ m[c + 4] \in Int /\ m[c + 4] >= 8 /\ c \in Words /\ c + 4 \in Words
      /\ c + 8 \in Words /\ c + 12 \in Words /\ c + 16 \in Words /\ c + 20 + m[c + 4] \in Words
      /\ m[c] = HEAP_MAGIC /\ m[c + 20 + m[c + 4]] = HEAP_MAGIC
  BY BlockWords
<1>2. PICK n \in B : n = m[b + 12] /\ n \in Int
  BY CutPlaces
<1>3. PICK z \in Nat : z = m[b + 4]
  BY CutPlaces
<1>4. /\ b \in Int /\ s \in Nat /\ s >= 8 /\ z >= s + 32 /\ b + 20 + z <= n /\ q = b + 20 + s
      /\ c = b \/ c + 20 + m[c + 4] <= b \/ n <= c
  <2>1. s \in Nat /\ s >= 8 /\ z >= s + 32 /\ q = b + 20 + s
    BY <1>3 DEF Cuts, Divided
  <2>2. /\ b \in Int /\ b + 20 + m[b + 4] <= m[b + 12]
        /\ c = b \/ c + 20 + m[c + 4] <= b \/ m[b + 12] <= c
    BY CutPlaces
  <2> QED BY <1>2, <1>3, <2>1, <2>2
<1>5. \A a \in Words :
          a \notin {q, q + 4, q + 8, q + 12, q + 16, b + 16 + z, n + 16, b + 4, b + 12}
          => m2[a] = m[a]
  BY <1>2, <1>3 DEF Divided
<1>6. CASE c = b
  BY <1>1, <1>2, <1>3, <1>4, <1>5, <1>6
<1>7. CASE c + 20 + m[c + 4] <= b
  BY <1>1, <1>2, <1>4, <1>5, <1>7, WordIs
<1>8. CASE n <= c
  <2>1. c = n \/ n + 28 <= c
    <3>1. m[n + 4] \in Int /\ m[n + 4] >= 8
      BY <1>2, BlockWords
    <3>2. n < c => n + 20 + m[n + 4] <= c
      BY <1>2, Apart
    <3> QED BY <1>1, <1>2, <1>8, <3>1, <3>2
  <2> QED BY <1>1, <1>2, <1>4, <1>5, <1>8, <2>1, WordIs
<1> QED BY <1>4, <1>6, <1>7, <1>8

(* The heap keeps its shape, with the new block, and blocks in use are     *)
(* kept.                                                                   *)
LEMMA CutShape ==
    ASSUME NEW m, NEW m2, NEW e, NEW B, NEW b, NEW s, NEW q, Shape(m, e, B),
           Cuts(m, B, b, s), Divided(m, m2, b, s, q)
    PROVE  /\ Shape(m2, e, B \cup {q}) /\ \A x : Kept(m, B, x, m2, B \cup {q})
           /\ LastInUse(m, B) => LastInUse(m2, B \cup {q})
           /\ m2[b + 8] = 1 /\ m2[b + 4] = s /\ m2[b + 12] = q /\ q # 0 /\ q \notin B
<1>1. PICK n \in B : n = m[b + 12] /\ n \in Int
  BY CutPlaces
<1>2. PICK z \in Nat : z = m[b + 4] /\ z % 8 = 0
  BY CutPlaces
<1>3. /\ b \in B /\ b \in Int /\ b # 0 /\ s \in Nat /\ s >= 8 /\ s % 8 = 0 /\ z >= s + 32
      /\ b + 20 + z <= n /\ q = b + 20 + s /\ q \in Words /\ b + 16 + z \in Words /\ m[b + 8] = 1
  <2>1. /\ b \in B /\ s \in Nat /\ s >= 8 /\ s % 8 = 0 /\ z >= s + 32 /\ q = b + 20 + s
        /\ m[b + 8] = 1
    BY <1>2 DEF Cuts, Divided
  <2>2. /\ b \in Int /\ b # 0 /\ b + 20 + m[b + 4] <= m[b + 12]
        /\ b + 20 + s \in Words /\ b + 16 + m[b + 4] \in Words
    BY CutPlaces
  <2> QED BY <1>1, <1>2, <2>1, <2>2
<1>4. /\ m2[q] = HEAP_MAGIC /\ m2[q + 4] = z - s - 24 /\ m2[q + 8] = 1
      /\ m2[q + 12] = n /\ m2[q + 16] = b /\ m2[b + 16 + z] = HEAP_MAGIC
      /\ m2[n + 16] = q /\ m2[b + 4] = s /\ m2[b + 12] = q
      /\ \A a \in Words :
            a \notin {q, q + 4, q + 8, q + 12, q + 16, b + 16 + z, n + 16, b + 4, b + 12}
            => m2[a] = m[a]
  BY <1>1, <1>2 DEF Divided
<1>5. q \in Int /\ q # 0 /\ q # b
  BY <1>3, WordIs, Consts
<1>6. q \notin B
  <2>1. \A c \in B : c = b \/ c + 20 + m[c + 4] <= b \/ n <= c
    BY <1>1, CutPlaces
  <2>2. \A c \in B : c \in Int /\ m[c + 4] \in Int /\ m[c + 4] >= 8
    BY BlockWords
  <2> QED BY <1>1, <1>2, <1>3, <2>1, <2>2
<1>7. \A c \in B : /\ m2[c] = m[c] /\ m2[c + 8] = m[c + 8]
                   /\ c # n => m2[c + 16] = m[c + 16]
                   /\ c # b => /\ m2[c + 4] = m[c + 4] /\ m2[c + 12] = m[c + 12]
                               /\ m2[c + 20 + m[c + 4]] = HEAP_MAGIC
  BY <1>1, CutKeeps
<1>8. n # b /\ n # q /\ m[n + 16] = b
  <2>1. n # 0 /\ Linked(m, B, b)
    BY <1>1, <1>3, NotNull DEF Shape
  <2>2. n # b
    BY <1>1, <1>2, <1>3
  <2> QED BY <1>1, <1>6, <2>1, <2>2 DEF Linked
<1>9. ASSUME NEW c \in B \cup {q} PROVE BlockOK(m2, e, c)
  <2>1. b + 20 + z <= e /\ e \in Int /\ m[b] = HEAP_MAGIC
    <3>1. b \in B /\ z = m[b + 4]
      BY <1>2, <1>3
    <3> QED BY <3>1, BlockWords
  <2>2. CASE c = q
    <3>1. m2[q + 4] \in Nat /\ m2[q + 4] >= 8 /\ m2[q + 4] % 8 = 0
      BY <1>2, <1>3, <1>4
    <3>2. q + 20 + m2[q + 4] = b + 16 + z
      BY <1>2, <1>3, <1>4
    <3>3. b + 16 + z <= e
      BY <1>2, <1>3, <2>1
    <3> QED BY <1>4, <2>2, <3>1, <3>2, <3>3 DEF BlockOK, EndOf
  <2>3. CASE c = b
    <3>1. m2[b + 20 + s] = HEAP_MAGIC /\ b + 20 + s <= e
      BY <1>2, <1>3, <1>4, <2>1
    <3> QED BY <1>3, <1>4, <1>5, <1>7, <2>1, <2>3, <3>1 DEF BlockOK, EndOf
  <2>4. CASE c \in B /\ c # b
    <3>1. BlockOK(m, e, c)
      BY <2>4 DEF Shape
    <3> QED BY <1>7, <2>4, <3>1 DEF BlockOK, EndOf
  <2> QED BY <2>2, <2>3, <2>4
<1>10. ASSUME NEW c \in B \cup {q} PROVE Linked(m2, B \cup {q}, c)
  <2>1. CASE c = q
    <3>1. q + 20 + m2[q + 4] <= n
      BY <1>1, <1>2, <1>3, <1>4
    <3> QED BY <1>1, <1>3, <1>4, <1>5, <2>1, <3>1 DEF Linked, EndOf
  <2>2. CASE c = b
    <3>1. Linked(m, B, b) /\ m2[b + 16] = m[b + 16]
      BY <1>3, <1>7, <1>8 DEF Shape
    <3>2. b + 20 + m2[b + 4] <= q
      BY <1>3, <1>4
    <3>3. m[b + 16] # 0 => m[b + 16] # b
      BY <1>1, <1>3, <1>8, <3>1 DEF Linked
    <3>4. m[b + 16] # 0 => m2[m[b + 16] + 12] = b
      BY <1>7, <3>1, <3>3 DEF Linked
    <3> QED BY <1>3, <1>4, <2>2, <3>1, <3>2, <3>4 DEF Linked, EndOf
  <2>3. CASE c \in B /\ c # b
    <3>1. Linked(m, B, c) /\ m2[c + 12] = m[c + 12] /\ m2[c + 4] = m[c + 4]
      BY <1>7, <2>3 DEF Shape
    <3>2. m[c + 12] # n
      BY <1>1, <1>8, <2>3, <3>1, NotNull DEF Linked
    <3>3. m2[c + 12] # 0 => m2[m2[c + 12] + 16] = c
      BY <1>7, <3>1, <3>2 DEF Linked
    <3>4. m2[c + 16] \in B \cup {q} \cup {0} /\ (m2[c + 16] # 0 => m2[m2[c + 16] + 12] = c)
      <4>1. CASE c = n
        BY <1>4, <4>1
      <4>2. CASE c # n
        <5>1. m2[c + 16] = m[c + 16]
          BY <1>7, <2>3, <4>2
        <5>2. m[c + 16] # 0 => m[c + 16] # b
          BY <1>1, <3>1, <4>2 DEF Linked
        <5> QED BY <1>7, <3>1, <5>1, <5>2 DEF Linked
      <4> QED BY <4>1, <4>2
    <3> QED BY <3>1, <3>3, <3>4 DEF Linked, EndOf
  <2> QED BY <2>1, <2>2, <2>3
<1>11. Ordered(m2, B \cup {q})
  <2> SUFFICES ASSUME NEW c \in B \cup {q}, NEW d \in B \cup {q}, c < d
               PROVE  m2[c + 12] # 0 /\ m2[c + 12] <= d
    BY DEF Ordered
  <2>1. \A x \in B : /\ x \in Int /\ m[x + 4] \in Int /\ m[x + 4] >= 8
                     /\ x = b \/ x + 20 + m[x + 4] <= b \/ n <= x
    BY <1>1, BlockWords, CutPlaces
  <2>2. \A x, y \in B : x < y => m[x + 12] # 0 /\ m[x + 12] <= y
    BY DEF Shape, Ordered
  <2>3. c = b => q <= d
    BY <1>1, <1>2, <1>3, <1>5, <2>1
  <2>4. c = q => n <= d
    BY <1>1, <1>2, <1>3, <1>5, <2>1
  <2>5. c \in B /\ c # b /\ d \in B => m2[c + 12] # 0 /\ m2[c + 12] <= d
    BY <1>7, <2>2
  <2>6. c \in B /\ c # b /\ d = q => m2[c + 12] # 0 /\ m2[c + 12] <= d
    <3> SUFFICES ASSUME c \in B, c # b, d = q PROVE m2[c + 12] # 0 /\ m2[c + 12] <= d
      OBVIOUS
    <3>1. c < b
      BY <1>1, <1>2, <1>3, <1>5, <2>1
    <3>2. m[c + 12] # 0 /\ m[c + 12] <= b /\ m[c + 12] \in B
      BY <1>3, <2>2, <3>1, BlockWords
    <3>3. m[c + 12] \in Int
      BY <2>1, <3>2
    <3> QED BY <1>3, <1>7, <3>2, <3>3
  <2>7. n # 0
    BY <1>1, NotNull
  <2> QED BY <1>4, <1>5, <2>3, <2>4, <2>5, <2>6, <2>7
<1>12. ASSUME NEW a \in Words \ (B \cup {q}) PROVE NoBlock(m2, a)
  <2>1. NoBlock(m, a) /\ a \in Int /\ a # q /\ a # b
    BY <1>3, WordIs DEF Shape
  <2>2. CASE a + 4 \in {q, q + 8, q + 12, q + 16, b + 16 + z, n + 16, b + 12}
    <3>1. NotASize(n) /\ NotASize(b) /\ NotASize(q)
      BY <1>1, <1>3, NotSizes DEF Shape
    <3>2. NotASize(m2[a + 4])
      BY <1>4, <2>2, <3>1, NotSizes
    <3> QED BY <3>2, NoBlockSize
  <2>3. CASE a + 8 \in {q, q + 4, b + 16 + z, n + 16, b + 4, b + 12}
    <3>1. m2[a + 8] # 0
      BY <1>2, <1>3, <1>4, <1>5, <2>3, Consts
    <3> QED BY <3>1, NoBlockFree
  <2>4. CASE /\ a + 4 \notin {q, q + 8, q + 12, q + 16, b + 16 + z, n + 16, b + 12}
             /\ a + 8 \notin {q, q + 4, b + 16 + z, n + 16, b + 4, b + 12}
    <3>1. a + 4 \notin {q + 4, b + 4} /\ a + 8 \notin {q + 8, q + 12, q + 16}
      BY <1>3, <1>5, <2>1, <2>4
    <3>2. /\ a + 4 \in Words => m2[a + 4] = m[a + 4]
          /\ a + 8 \in Words => m2[a + 8] = m[a + 8]
      BY <1>4, <2>4, <3>1
    <3> QED BY <2>1, <3>2, NoBlockKept
  <2> QED BY <2>2, <2>3, <2>4
<1>13. Shape(m2, e, B \cup {q})
  BY <1>3, <1>9, <1>10, <1>11, <1>12 DEF Shape, Divided
<1>14. ASSUME NEW x PROVE Kept(m, B, x, m2, B \cup {q})
  <2> SUFFICES ASSUME NEW c \in B, m[c + 8] = 0
               PROVE  /\ c \in B \cup {q} /\ m2[c + 8] = 0 /\ m2[c + 4] = m[c + 4]
                      /\ \A a \in Words : c + 20 <= a /\ a < c + 20 + m[c + 4] => m2[a] = m[a]
    BY DEF Kept, EndOf
  <2>1. c # b
    BY <1>3
  <2> QED BY <2>1, CutKeeps
<1>15. LastInUse(m, B) => LastInUse(m2, B \cup {q})
  <2>1. n # 0
    BY <1>1, NotNull
  <2> QED BY <1>4, <1>5, <1>7, <2>1 DEF LastInUse
<1> QED BY <1>3, <1>4, <1>5, <1>6, <1>7, <1>13, <1>14, <1>15
-----------------------------------------------------------------------------
(* A block is set up at the end of the heap. *)

\* m2 has a block in use of s bytes at e, after the block c.
SetUp(m2, e, s, c) ==
    /\ Memory(m2)
    /\ m2[e] = HEAP_MAGIC /\ m2[e + 4] = s /\ m2[e + 8] = 0 /\ m2[e + 12] = 0
    /\ m2[e + 16] = c /\ m2[e + 20 + s] = HEAP_MAGIC

\* The words of a block of s bytes at e.
Within(e, s) == {e, e + 4, e + 8, e + 12, e + 16, e + 20 + s}

(* The first block of an empty heap. *)
LEMMA FirstShape ==
    ASSUME NEW m, NEW m2, NEW s \in Nat, Shape(m, HEAP_START, {}), s % 8 = 0, s >= 8,
           HEAP_START + 20 + s < HEAP_END, SetUp(m2, HEAP_START, s, 0),
           \A a \in Words : a \notin Within(HEAP_START, s) => m2[a] = m[a]
    PROVE  Shape(m2, HEAP_START + 20 + s, {HEAP_START}) /\ LastInUse(m2, {HEAP_START})
<1>1. PICK b \in Words : b = HEAP_START /\ b \in Nat /\ b > 0
  BY Consts DEF Words
<1>2. BlockOK(m2, b + 20 + s, b) /\ Linked(m2, {b}, b)
  BY <1>1 DEF BlockOK, Linked, EndOf, SetUp
<1>3. PICK k \in Int : k = 20 + s /\ k % 4 = 0
  OBVIOUS
<1>4. b + 20 + s = b + k /\ b + k \in Words /\ b + k \in HEAP_START .. HEAP_END - 1
  BY <1>1, <1>3, WordStep, Consts
<1>5. (b + 20 + s - HEAP_START) % 4 = 0
  <2>1. PICK w \in Words : w = b + 20 + s
    BY <1>4
  <2>2. (w - HEAP_START) % 4 = 0 /\ w \in Int
    BY WordIs DEF Words
  <2> QED BY <1>1, <2>1, <2>2, Consts
<1>6. ASSUME NEW a \in Words \ {b} PROVE NoBlock(m2, a)
  <2>1. NoBlock(m, a) /\ a \in Int /\ a # b
    BY WordIs DEF Shape
  <2>2. /\ m2[b] = HEAP_MAGIC /\ m2[b + 4] = s /\ m2[b + 8] = 0 /\ m2[b + 12] = 0
        /\ m2[b + 16] = 0 /\ m2[b + 20 + s] = HEAP_MAGIC
        /\ \A w \in Words : w \notin {b, b + 4, b + 8, b + 12, b + 16, b + 20 + s} => m2[w] = m[w]
    BY <1>1 DEF SetUp, Within
  <2>3. CASE a + 4 \in {b, b + 8, b + 12, b + 16, b + 20 + s}
    <3>1. NotASize(m2[a + 4])
      BY <2>2, <2>3, NotSizes
    <3> QED BY <3>1, NoBlockSize
  <2>4. CASE a + 8 \in {b, b + 4, b + 20 + s}
    <3>1. m2[a + 8] # 0
      BY <2>2, <2>4, Consts
    <3> QED BY <3>1, NoBlockFree
  <2>5. CASE a + 4 \notin {b, b + 8, b + 12, b + 16, b + 20 + s} /\ a + 8 \notin {b, b + 4, b + 20 + s}
    <3>1. a + 4 \notin {b + 4} /\ a + 8 \notin {b + 8, b + 12, b + 16}
      BY <1>1, <2>1, <2>5
    <3>2. /\ a + 4 \in Words => m2[a + 4] = m[a + 4]
          /\ a + 8 \in Words => m2[a + 8] = m[a + 8]
      BY <2>2, <2>5, <3>1
    <3> QED BY <2>1, <3>2, NoBlockKept
  <2> QED BY <2>3, <2>4, <2>5
<1>7. Ordered(m2, {b})
  BY <1>1 DEF Ordered
<1>8. LastInUse(m2, {b}) /\ Memory(m2)
  BY <1>1 DEF LastInUse, SetUp
<1>9. b + 20 + s \in HEAP_START .. HEAP_END - 1
  BY <1>4
<1> QED BY <1>1, <1>2, <1>5, <1>6, <1>7, <1>8, <1>9 DEF Shape

\* m2 is m with a block of s bytes at e, linked behind c.
Extended(m, m2, e, s, c) ==
    /\ SetUp(m2, e, s, c) /\ m2[c + 12] = e
    /\ \A a \in Words : a \notin Within(e, s) \cup {c + 12} => m2[a] = m[a]

(* Another block, linked behind the last one. *)
LEMMA AppendShape ==
    ASSUME NEW m, NEW m2, NEW e, NEW B, NEW c \in B, NEW s \in Nat, Shape(m, e, B),
           s % 8 = 0, s >= 8, m[c + 12] = 0, LastInUse(m, B),
           e + 24 + s < HEAP_END, Extended(m, m2, e, s, c)
    PROVE  /\ Shape(m2, e + 24 + s, B \cup {e}) /\ LastInUse(m2, B \cup {e})
           /\ e \notin B /\ \A x : Kept(m, B, x, m2, B \cup {e})
<1>1. /\ c \in Int /\ m[c + 4] \in Int /\ m[c + 4] >= 8 /\ e \in Int /\ e < HEAP_END
      /\ HEAP_START <= c /\ c \in Words /\ c + 20 + m[c + 4] <= e
  BY BlockWords
<1>2. e \in Words /\ e # 0 /\ e # HEAP_START /\ (e - HEAP_START) % 4 = 0
  BY <1>1, Consts DEF Words, Shape
<1>3. /\ m2[e] = HEAP_MAGIC /\ m2[e + 4] = s /\ m2[e + 8] = 0 /\ m2[e + 12] = 0
      /\ m2[e + 16] = c /\ m2[e + 20 + s] = HEAP_MAGIC
      /\ \A a \in Words :
            a \notin {e, e + 4, e + 8, e + 12, e + 16, e + 20 + s, c + 12} => m2[a] = m[a]
      /\ m2[c + 12] = e /\ Memory(m2)
  BY DEF Extended, SetUp, Within
<1>4. ASSUME NEW d \in B
      PROVE  /\ m2[d] = m[d] /\ m2[d + 4] = m[d + 4] /\ m2[d + 8] = m[d + 8]
             /\ d # c => m2[d + 12] = m[d + 12] /\ d + 20 + m[d + 4] <= c
             /\ m2[d + 16] = m[d + 16] /\ m2[d + 20 + m[d + 4]] = HEAP_MAGIC
             /\ \A a \in Words : d + 20 <= a /\ a < d + 20 + m[d + 4] => m2[a] = m[a]
  <2>1. /\ d \in Int /\ m[d + 4] \in Int /\ m[d + 4] >= 8 /\ d \in Words /\ d + 4 \in Words
        /\ d + 8 \in Words /\ d + 12 \in Words /\ d + 16 \in Words /\ d + 20 + m[d + 4] \in Words
        /\ m[d + 20 + m[d + 4]] = HEAP_MAGIC /\ d + 20 + m[d + 4] <= e
    BY BlockWords
  <2>2. ~ (c < d)
    BY DEF Shape, Ordered
  <2>3. d < c => d + 20 + m[d + 4] <= c
    BY Apart
  <2> QED BY <1>1, <1>3, <2>1, <2>2, <2>3, WordIs
<1>5. e \notin B
  BY <1>1, <1>2, BlockWords
<1>6. ASSUME NEW d \in B \cup {e} PROVE BlockOK(m2, e + 24 + s, d)
  <2>1. CASE d = e
    BY <1>1, <1>3, <2>1 DEF BlockOK, EndOf
  <2>2. CASE d \in B
    <3>1. BlockOK(m, e, d) /\ (d # c => m2[d + 12] = m[d + 12]) /\ d \in Int
      BY <1>4, <2>2, BlockWords DEF Shape
    <3>2. m[d + 4] \in Nat /\ d + 20 + m[d + 4] <= e
      BY <3>1 DEF BlockOK, EndOf
    <3>3. d + 20 + m[d + 4] <= e + 24 + s
      BY <1>1, <3>1, <3>2
    <3>4. d + 20 + m[d + 4] + 4 <= e => d + 20 + m[d + 4] + 4 <= e + 24 + s
      BY <1>1, <3>1, <3>2
    <3> QED BY <1>2, <1>4, <2>2, <3>1, <3>3, <3>4 DEF BlockOK, EndOf
  <2> QED BY <2>1, <2>2
<1>7. ASSUME NEW d \in B \cup {e} PROVE Linked(m2, B \cup {e}, d)
  <2>1. CASE d = e
    BY <1>3, <2>1 DEF Linked, EndOf
  <2>2. CASE d \in B
    <3>1. Linked(m, B, d)
      BY <2>2 DEF Shape
    <3>2. m2[d + 12] # 0 => d + 20 + m2[d + 4] <= m2[d + 12] /\ m2[m2[d + 12] + 16] = d
      <4>1. CASE d = c
        BY <1>1, <1>3, <1>4, <4>1
      <4>2. CASE d # c
        <5>1. m2[d + 12] = m[d + 12] /\ m2[d + 4] = m[d + 4]
          BY <1>4, <2>2, <4>2
        <5> QED BY <1>4, <3>1, <5>1 DEF Linked, EndOf
      <4> QED BY <4>1, <4>2
    <3>3. m[d + 16] # 0 => m[d + 16] # c
      BY <2>2, <3>1, NotNull DEF Linked
    <3>4. m2[d + 16] # 0 => m2[m2[d + 16] + 12] = d
      BY <1>4, <2>2, <3>1, <3>3 DEF Linked
    <3>5. m2[d + 12] \in B \cup {e} \cup {0} /\ m2[d + 16] \in B \cup {e} \cup {0}
      BY <1>3, <1>4, <2>2, <3>1 DEF Linked
    <3> QED BY <3>2, <3>4, <3>5 DEF Linked, EndOf
  <2> QED BY <2>1, <2>2
<1>8. Ordered(m2, B \cup {e})
  <2> SUFFICES ASSUME NEW x \in B \cup {e}, NEW y \in B \cup {e}, x < y
               PROVE  m2[x + 12] # 0 /\ m2[x + 12] <= y
    BY DEF Ordered
  <2>1. \A d \in B : /\ d \in Int /\ m[d + 4] \in Int /\ m[d + 4] >= 8 /\ d + 20 + m[d + 4] <= e
                     /\ m[d + 12] # 0 => m[d + 12] \in B
    BY BlockWords
  <2>2. \A u, v \in B : u < v => m[u + 12] # 0 /\ m[u + 12] <= v
    BY DEF Shape, Ordered
  <2>3. x \in B
    BY <1>1, <2>1
  <2>4. CASE x = c
    <3>1. y = e
      BY <2>2, <2>4
    <3> QED BY <1>1, <1>2, <1>3, <2>4, <3>1
  <2>5. CASE x # c
    <3>1. m2[x + 12] = m[x + 12] /\ x + 20 + m[x + 4] <= c
      BY <1>4, <2>3, <2>5
    <3>2. x < c
      BY <1>1, <2>1, <2>3, <3>1
    <3>3. m[x + 12] # 0 /\ m[x + 12] <= c /\ m[x + 12] \in Int
      BY <2>1, <2>2, <2>3, <3>2
    <3> QED BY <1>1, <2>1, <2>2, <2>3, <3>1, <3>3
  <2> QED BY <2>4, <2>5
<1>9. ASSUME NEW a \in Words \ (B \cup {e}) PROVE NoBlock(m2, a)
  <2>1. NoBlock(m, a) /\ a \in Int /\ a # e /\ a # c
    BY WordIs DEF Shape
  <2>2. CASE a + 4 \in {e, e + 8, e + 12, e + 16, e + 20 + s, c + 12}
    <3>1. NotASize(m2[a + 4])
      BY <1>1, <1>2, <1>3, <2>2, NotSizes
    <3> QED BY <3>1, NoBlockSize
  <2>3. CASE a + 8 \in {e, e + 4, e + 20 + s, c + 12}
    <3>1. m2[a + 8] # 0
      BY <1>2, <1>3, <2>3, Consts
    <3> QED BY <3>1, NoBlockFree
  <2>4. CASE /\ a + 4 \notin {e, e + 8, e + 12, e + 16, e + 20 + s, c + 12}
             /\ a + 8 \notin {e, e + 4, e + 20 + s, c + 12}
    <3>1. a + 4 \notin {e + 4} /\ a + 8 \notin {e + 8, e + 12, e + 16}
      BY <1>1, <2>1, <2>4
    <3>2. /\ a + 4 \in Words => m2[a + 4] = m[a + 4]
          /\ a + 8 \in Words => m2[a + 8] = m[a + 8]
      BY <1>3, <2>4, <3>1
    <3> QED BY <2>1, <3>2, NoBlockKept
  <2> QED BY <2>2, <2>3, <2>4
<1>10. e + 24 + s \in HEAP_START .. HEAP_END - 1 /\ (e + 24 + s - HEAP_START) % 4 = 0
  <2>1. PICK k \in Int : k = 24 + s /\ k % 4 = 0
    OBVIOUS
  <2>2. e + 24 + s = e + k /\ e + k \in Words
    BY <1>1, <1>2, <2>1, WordStep, Consts
  <2> QED BY <1>1, <2>2, Consts DEF Words
<1>11. Shape(m2, e + 24 + s, B \cup {e})
  <2>1. Memory(m2) /\ B \cup {e} \subseteq Words
    BY <1>2, <1>3 DEF Shape
  <2>2. PICK e2 \in Int : e2 = e + 24 + s
    BY <1>1
  <2>3. /\ e2 \in HEAP_START .. HEAP_END - 1 /\ (e2 - HEAP_START) % 4 = 0
        /\ \A d \in B \cup {e} : BlockOK(m2, e2, d)
    BY <1>1, <1>6, <1>10, <2>2, Consts
  <2> QED BY <1>7, <1>8, <1>9, <2>1, <2>2, <2>3 DEF Shape
<1>12. LastInUse(m2, B \cup {e})
  BY <1>2, <1>3, <1>4 DEF LastInUse
<1>13. ASSUME NEW x PROVE Kept(m, B, x, m2, B \cup {e})
  BY <1>4 DEF Kept, EndOf
<1> QED BY <1>5, <1>11, <1>12, <1>13
-----------------------------------------------------------------------------
(* What the code writes. *)

(* The address of a guard word in the window does not wrap around. *)
LEMMA TailIs ==
    ASSUME NEW b \in Nat, NEW s \in Nat, b + 20 + s < U32
    PROVE  tail(b, s) = b + 20 + s
<1>1. PICK t \in Nat : t = b + 20 + s
  OBVIOUS
<1>2. t % U32 = t
  BY <1>1, Consts
<1> QED BY <1>1, <1>2 DEF tail

Value == 0 .. U32 - 1

LEMMA Values ==
    /\ 0 \in Value /\ 1 \in Value /\ HEAP_MAGIC \in Value
    /\ \A a \in Words : a \in Value
    /\ \A i \in Nat : i <= HEAP_END + HEAP_END => i \in Value
BY Consts, WordIs DEF Value

\* m2 is m with a header at b and the guard word that belongs to it.
Sets(m, m2, b, s, f, n, p) ==
    /\ Memory(m2)
    /\ m2[b] = HEAP_MAGIC /\ m2[b + 4] = s /\ m2[b + 8] = f /\ m2[b + 12] = n
    /\ m2[b + 16] = p /\ m2[b + 20 + s] = HEAP_MAGIC
    /\ \A a \in Words : a \notin Within(b, s) => m2[a] = m[a]

LEMMA BlockWrites ==
    ASSUME NEW m, Memory(m), NEW b \in Words, NEW s \in Nat, b + 20 + s \in Words,
           NEW f \in Value, NEW n \in Value, NEW p \in Value
    PROVE  Sets(m, Block(m, b, s, f, n, p), b, s, f, n, p)
<1>1. b \in Nat /\ b + 20 + s < HEAP_END /\ HEAP_START <= b
  BY WordIs, Consts
<1>2. tail(b, s) = b + 20 + s
  BY <1>1, TailIs, Consts
<1>3. b + 4 \in Words /\ b + 8 \in Words /\ b + 12 \in Words /\ b + 16 \in Words
  BY <1>1, WordStep, Consts
<1>4. s \in Value /\ HEAP_MAGIC \in Value
  BY <1>1, Values, Consts
<1>5. PICK t \in Words : t = b + 20 + s
  OBVIOUS
<1>6. PICK m2 : m2 = [m EXCEPT ![b] = HEAP_MAGIC, ![b + 4] = s, ![b + 8] = f,
                              ![b + 12] = n, ![b + 16] = p, ![t] = HEAP_MAGIC]
  OBVIOUS
<1>7. m2 = Block(m, b, s, f, n, p)
  BY <1>2, <1>5, <1>6 DEF Block
<1>8. m \in [Words -> Value]
  BY DEF Memory, Value
<1>9. m2 \in [Words -> Value]
  BY <1>3, <1>4, <1>6, <1>8
<1>10. /\ m2[b] = HEAP_MAGIC /\ m2[b + 4] = s /\ m2[b + 8] = f /\ m2[b + 12] = n
       /\ m2[b + 16] = p /\ m2[t] = HEAP_MAGIC
  BY <1>1, <1>3, <1>5, <1>6, <1>8
<1>11. \A a \in Words : a \notin {b, b + 4, b + 8, b + 12, b + 16, t} => m2[a] = m[a]
  BY <1>6, <1>8
<1>12. Sets(m, m2, b, s, f, n, p)
  BY <1>5, <1>9, <1>10, <1>11 DEF Sets, Within, Memory, Value
<1> QED BY <1>7, <1>12

(* The first allocation sets up the first block. *)
LEMMA FirstWrites ==
    ASSUME NEW m, NEW s \in Nat, Memory(m), s % 8 = 0, HEAP_START + 20 + s < HEAP_END
    PROVE  /\ SetUp(Block(m, HEAP_START, s, 0, 0, 0), HEAP_START, s, 0)
           /\ \A a \in Words : a \notin Within(HEAP_START, s)
                  => Block(m, HEAP_START, s, 0, 0, 0)[a] = m[a]
<1>1. PICK b \in Words : b = HEAP_START /\ b \in Nat
  BY Consts DEF Words
<1>2. PICK k \in Int : k = 20 + s /\ k % 4 = 0
  OBVIOUS
<1>3. b + k \in Words /\ b + 20 + s = b + k
  BY <1>1, <1>2, WordStep, Consts
<1>4. Sets(m, Block(m, b, s, 0, 0, 0), b, s, 0, 0, 0)
  BY <1>3, BlockWrites, Values
<1> QED BY <1>1, <1>4 DEF SetUp, Sets

\* What Append writes.
LinkedBehind(m, e, s, c) == [Block(m, e, s, 0, 0, c) EXCEPT ![next(c)] = e]

(* A later one sets up the last block, and links it behind c. *)
LEMMA AppendWrites ==
    ASSUME NEW m, NEW e, NEW B, NEW c \in B, NEW s \in Nat, Shape(m, e, B),
           s % 8 = 0, e + 24 + s < HEAP_END
    PROVE  Extended(m, LinkedBehind(m, e, s, c), e, s, c)
<1> PICK m2 : m2 = LinkedBehind(m, e, s, c)
  OBVIOUS
<1>1. /\ c \in Int /\ m[c + 4] \in Int /\ m[c + 4] >= 8 /\ e \in Int /\ e < HEAP_END
      /\ HEAP_START <= c /\ c \in Words /\ c + 12 \in Words /\ c + 20 + m[c + 4] <= e
  BY BlockWords
<1>2. e \in Words
  BY <1>1, Consts DEF Words, Shape
<1>3. PICK k \in Int : k = 20 + s /\ k % 4 = 0
  OBVIOUS
<1>4. e + k \in Words /\ e + 20 + s = e + k
  BY <1>1, <1>2, <1>3, WordStep, Consts
<1>5. PICK m1 : m1 = Block(m, e, s, 0, 0, c)
  OBVIOUS
<1>6. /\ Memory(m1) /\ m1[e] = HEAP_MAGIC /\ m1[e + 4] = s /\ m1[e + 8] = 0 /\ m1[e + 12] = 0
      /\ m1[e + 16] = c /\ m1[e + 20 + s] = HEAP_MAGIC
      /\ \A a \in Words : a \notin Within(e, s) => m1[a] = m[a]
  <2>1. Memory(m) /\ c \in Value
    BY <1>1, Values DEF Shape
  <2>2. Sets(m, m1, e, s, 0, 0, c)
    BY <1>2, <1>4, <1>5, <2>1, BlockWrites, Values
  <2> QED BY <2>2 DEF Sets
<1>7. m1 \in [Words -> Value] /\ m2 = [m1 EXCEPT ![c + 12] = e] /\ e \in Value
  BY <1>2, <1>5, <1>6, Values DEF Memory, Value, LinkedBehind
<1>8. m2 \in [Words -> Value] /\ m2[c + 12] = e /\ \A a : a # c + 12 /\ a \in Words => m2[a] = m1[a]
  BY <1>1, <1>7
<1>9. /\ e + 4 \in Words /\ e + 8 \in Words /\ e + 12 \in Words /\ e + 16 \in Words
  BY <1>1, <1>2, WordStep, Consts
<1>10. SetUp(m2, e, s, c)
  BY <1>1, <1>2, <1>4, <1>6, <1>8, <1>9 DEF SetUp, Memory, Value
<1>11. Extended(m, m2, e, s, c)
  BY <1>6, <1>8, <1>10 DEF Extended
<1> QED BY <1>11

(* A block that is taken and is much too large is cut in two. *)
LEMMA SplitWrites ==
    ASSUME NEW B, NEW b, NEW s, Shape(mem, heap_end, B), Cuts(mem, B, b, s)
    PROVE  Divided(mem, Split(b, s), b, s, b + 20 + s)
<1>1. PICK n \in B : n = mem[b + 12] /\ n \in Int
  BY CutPlaces
<1>2. PICK z \in Nat : z = mem[b + 4] /\ z % 8 = 0
  BY CutPlaces
<1>3. PICK q \in Words : q = b + 20 + s
  BY CutPlaces
<1>4. /\ b \in B /\ b \in Int /\ b # 0 /\ s \in Nat /\ s >= 8 /\ z >= s + 32
      /\ b + 20 + z <= n /\ b + 16 + z \in Words /\ q \in Int
  <2>1. b \in B /\ s \in Nat /\ s >= 8 /\ z >= s + 32
    BY <1>2 DEF Cuts
  <2>2. b \in Int /\ b # 0 /\ b + 20 + mem[b + 4] <= mem[b + 12] /\ b + 16 + mem[b + 4] \in Words
    BY CutPlaces
  <2> QED BY <1>1, <1>2, <2>1, <2>2, WordIs
<1>5. /\ b \in Words /\ b + 4 \in Words /\ b + 12 \in Words /\ HEAP_START <= b
      /\ n \in Words /\ n + 16 \in Words /\ n # 0
  <2>1. b \in Words /\ b + 4 \in Words /\ b + 12 \in Words /\ HEAP_START <= b
    BY <1>4, BlockWords
  <2>2. n \in Words /\ n + 16 \in Words /\ n # 0
    BY BlockWords, NotNull
  <2> QED BY <2>1, <2>2
<1>6. PICK r \in Nat : r = z - s - 24 /\ q + 20 + r = b + 16 + z
  BY <1>2, <1>3, <1>4
<1>7. PICK m1 : m1 = Block(mem, q, r, 1, n, b)
  OBVIOUS
<1>8. Sets(mem, m1, q, r, 1, n, b)
  <2>1. Memory(mem) /\ n \in Value /\ b \in Value
    BY <1>5, Values DEF Shape
  <2> QED BY <1>4, <1>6, <1>7, <2>1, BlockWrites, Values
<1>9. tail(b, s) = q
  <2>1. b \in Nat /\ b + 20 + s < U32
    BY <1>3, <1>4, <1>5, WordIs, Consts
  <2> QED BY <1>3, <1>4, <2>1, TailIs
<1>10. PICK m2 : m2 = [m1 EXCEPT ![n + 16] = q]
  OBVIOUS
<1>11. PICK m3 : m3 = [m2 EXCEPT ![b + 4] = s, ![b + 12] = q, ![q] = HEAP_MAGIC]
  OBVIOUS
<1>12. Split(b, s) = m3
  <2>1. payload(b) + s = q /\ mem[size(b)] - s - HEADER - WORD = r
    BY <1>2, <1>3, <1>4, <1>6
  <2>2. SetPrev(m1, n, q) = m2
    BY <1>5, <1>10 DEF SetPrev
  <2> QED BY <1>1, <1>7, <1>9, <1>11, <2>1, <2>2 DEF Split
<1>13. s \in Value /\ q \in Value /\ HEAP_MAGIC \in Value
  BY <1>3, <1>4, <1>5, Values, WordIs, Consts
<1>14. m1 \in [Words -> Value]
  BY <1>8 DEF Sets, Memory, Value
<1>15. m2 \in [Words -> Value] /\ m2[n + 16] = q /\ \A a \in Words : a # n + 16 => m2[a] = m1[a]
  BY <1>5, <1>10, <1>13, <1>14
<1>16. /\ m3 \in [Words -> Value] /\ m3[b + 4] = s /\ m3[b + 12] = q /\ m3[q] = HEAP_MAGIC
       /\ \A a \in Words : a \notin {b + 4, b + 12, q} => m3[a] = m2[a]
  BY <1>3, <1>4, <1>5, <1>11, <1>13, <1>15
<1>17. /\ m1[q] = HEAP_MAGIC /\ m1[q + 4] = r /\ m1[q + 8] = 1 /\ m1[q + 12] = n
       /\ m1[q + 16] = b /\ m1[b + 16 + z] = HEAP_MAGIC
       /\ \A a \in Words : a \notin {q, q + 4, q + 8, q + 12, q + 16, b + 16 + z} => m1[a] = mem[a]
  BY <1>6, <1>8 DEF Sets, Within
<1>18. q + 4 \in Words /\ q + 8 \in Words /\ q + 12 \in Words /\ q + 16 \in Words
  <2>1. n < HEAP_END /\ q + 16 < HEAP_END /\ HEAP_START <= q
    BY <1>2, <1>3, <1>4, <1>5, WordIs, Consts
  <2>2. q \in Words /\ q \in Int
    BY <1>3, <1>4, WordIs
  <2>3. HEAP_START \in Nat /\ HEAP_END \in Nat
    BY Consts
  <2> QED BY <2>1, <2>2, <2>3, WordStep
<1>19. /\ m3[q + 4] = r /\ m3[q + 8] = 1 /\ m3[q + 12] = n
       /\ m3[q + 16] = b /\ m3[b + 16 + z] = HEAP_MAGIC /\ m3[n + 16] = q
  BY <1>1, <1>2, <1>3, <1>4, <1>5, <1>6, <1>15, <1>16, <1>17, <1>18
<1>20. \A a \in Words :
          a \notin {q, q + 4, q + 8, q + 12, q + 16, b + 16 + z, n + 16, b + 4, b + 12}
          => m3[a] = mem[a]
  BY <1>15, <1>16, <1>17
<1>21. Divided(mem, m3, b, s, q)
  BY <1>1, <1>2, <1>3, <1>6, <1>16, <1>19, <1>20 DEF Divided, Memory, Value
<1> QED BY <1>3, <1>12, <1>21

(* The merges write what Joined says, also when the block after n is       *)
(* reached.                                                                *)
LEMMA MergedIs ==
    ASSUME NEW m, NEW e, NEW B, Shape(m, e, B), NEW p \in B, NEW n \in B,
           JoinedEnd(m, p, n) < U32
    PROVE  /\ Merged(m, p, n) = m[p + 4] + 24 + m[n + 4]
           /\ tail(p, Merged(m, p, n)) = JoinedEnd(m, p, n)
<1>1. /\ p \in Int /\ p + 4 \in Words /\ n + 4 \in Words /\ HEAP_START <= p
      /\ m[p + 4] \in Int /\ m[p + 4] >= 8 /\ m[n + 4] \in Int /\ m[n + 4] >= 8
  BY BlockWords
<1>2. PICK s \in Nat : s = m[p + 4] + 24 + m[n + 4] /\ s = m[p + 4] + 20 + m[n + 4] + 4
  BY <1>1
<1>3. p \in Nat /\ p + 20 + s = JoinedEnd(m, p, n) /\ s < U32
  BY <1>1, <1>2, Consts DEF JoinedEnd
<1>4. s % U32 = s
  BY <1>3, Consts
<1>5. Merged(m, p, n) = s
  BY <1>1, <1>2, <1>4 DEF Merged, Rd
<1> QED BY <1>2, <1>3, <1>5, TailIs

\* The places that a merge writes to are different words of the window.
JoinApart(m, B, p, n) ==
    /\ p \in B /\ n \in B /\ p + 28 <= n /\ JoinedEnd(m, p, n) \in Words
    /\ p + 52 <= JoinedEnd(m, p, n)
    /\ m[n + 12] # 0 => m[n + 12] \in B /\ n + 28 <= m[n + 12] /\ JoinedEnd(m, p, n) <= m[n + 12] + 4

LEMMA JoinWrites ==
    ASSUME NEW m, NEW e, NEW B, NEW p, NEW n, Shape(m, e, B), JoinApart(m, B, p, n), NEW m1,
           \/ m1 = [m EXCEPT ![size(p)] = Merged(m, p, n), ![next(p)] = m[n + 12],
                             ![tail(p, Merged(m, p, n))] = HEAP_MAGIC]
           \/ m1 = [m EXCEPT ![size(p)] = Merged(m, p, n),
                             ![tail(p, Merged(m, p, n))] = HEAP_MAGIC, ![next(p)] = m[n + 12]]
    PROVE  Joined(m, SetPrev(m1, m[n + 12], p), p, n)
<1>1. PICK t \in Words : t = JoinedEnd(m, p, n) /\ t \in Int /\ t < HEAP_END
  BY WordIs DEF JoinApart
<1>2. p \in B /\ n \in B /\ p + 28 <= n /\ p + 52 <= t
  BY <1>1 DEF JoinApart
<1>3. t < U32
  BY <1>1, Consts
<1>4. PICK s : s = m[p + 4] + 24 + m[n + 4] /\ Merged(m, p, n) = s /\ tail(p, s) = t
  BY <1>1, <1>2, <1>3, MergedIs
<1>5. /\ p \in Int /\ p \in Words /\ p + 4 \in Words /\ p + 12 \in Words /\ HEAP_START <= p
      /\ m[p + 4] \in Int /\ m[p + 4] >= 8
  BY <1>2, BlockWords
<1>6. /\ n \in Int /\ m[n + 4] \in Int /\ m[n + 4] >= 8 /\ m[n + 12] \in B \cup {0}
  BY <1>2, BlockWords
<1>7. s \in Value /\ HEAP_MAGIC \in Value /\ p \in Value
  <2>1. s \in Nat /\ s < t
    BY <1>1, <1>4, <1>5, <1>6, Consts DEF JoinedEnd
  <2>2. s <= HEAP_END + HEAP_END
    BY <1>1, <2>1, Consts
  <2> QED BY <1>5, <2>1, <2>2, Values
<1>8. PICK k : k = m[n + 12] /\ k \in B \cup {0}
  BY <1>6
<1>9. k \in Value
  BY <1>8, Values DEF Shape
<1>10. m \in [Words -> Value]
  BY DEF Shape, Memory, Value
<1>11. /\ m1 \in [Words -> Value] /\ m1[p + 4] = s /\ m1[p + 12] = k /\ m1[t] = HEAP_MAGIC
       /\ \A a \in Words : a \notin {p + 4, p + 12, t} => m1[a] = m[a]
  <2>1. \/ m1 = [m EXCEPT ![p + 4] = s, ![p + 12] = k, ![t] = HEAP_MAGIC]
        \/ m1 = [m EXCEPT ![p + 4] = s, ![t] = HEAP_MAGIC, ![p + 12] = k]
    BY <1>4, <1>8
  <2>2. CASE m1 = [m EXCEPT ![p + 4] = s, ![p + 12] = k, ![t] = HEAP_MAGIC]
    BY <1>1, <1>2, <1>5, <1>7, <1>9, <1>10, <2>2
  <2>3. CASE m1 = [m EXCEPT ![p + 4] = s, ![t] = HEAP_MAGIC, ![p + 12] = k]
    BY <1>1, <1>2, <1>5, <1>7, <1>9, <1>10, <2>3
  <2> QED BY <2>1, <2>2, <2>3
<1>12. CASE k = 0
  <2>1. SetPrev(m1, k, p) = m1
    BY <1>12 DEF SetPrev
  <2>2. Joined(m, m1, p, n)
    BY <1>1, <1>4, <1>8, <1>11, <1>12 DEF Joined, Memory, Value
  <2> QED BY <1>8, <2>1, <2>2
<1>13. CASE k # 0
  <2>1. k \in B /\ k \in Int /\ k + 16 \in Words
    BY <1>8, <1>13, BlockWords
  <2>2. n + 28 <= k /\ t <= k + 4
    BY <1>1, <1>8, <1>13 DEF JoinApart
  <2>3. PICK m2 : m2 = [m1 EXCEPT ![k + 16] = p] /\ SetPrev(m1, k, p) = m2
    BY <1>13 DEF SetPrev
  <2>4. m2 \in [Words -> Value] /\ m2[k + 16] = p /\ \A a \in Words : a # k + 16 => m2[a] = m1[a]
    BY <1>7, <1>11, <2>1, <2>3
  <2>5. m2[p + 4] = s /\ m2[p + 12] = k /\ m2[t] = HEAP_MAGIC
    BY <1>1, <1>2, <1>5, <1>6, <1>11, <2>1, <2>2, <2>4
  <2>6. \A a \in Words : a \notin {p + 4, p + 12, t, k + 16} => m2[a] = m[a]
    BY <1>11, <2>4
  <2>7. Joined(m, m2, p, n)
    BY <1>1, <1>4, <1>8, <1>13, <2>4, <2>5, <2>6 DEF Joined, Memory, Value
  <2> QED BY <1>8, <2>3, <2>7
<1> QED BY <1>12, <1>13
-----------------------------------------------------------------------------
(* kmalloc. *)

(* The caller gets block b, which nobody holds. *)
LEMMA ReturnsHeld ==
    ASSUME NEW m, NEW e, NEW B, NEW b \in B, NEW n \in Sizes \ {0}, Shape(m, e, B),
           m[b + 8] = 0, n <= m[b + 4], Held(m, B, live, stale \ {b + 20}),
           \A l \in live : l.ptr # b + 20, Returns(b, n, m)
    PROVE  /\ Shape(mem', e, B) /\ Held(mem', B, live', stale')
           /\ LastInUse(m, B) => LastInUse(mem', B)
<1>1. PICK w \in BOOLEAN :
         /\ mem' = IF w THEN Fill(m, b + 20, n) ELSE m
         /\ live' = live \cup {[ptr |-> b + 20, size |-> n, written |-> w]}
         /\ stale' = stale \ {b + 20}
  BY DEF Returns
<1>2. n \in Nat /\ b \in Int /\ m[b + 4] \in Int
  BY SizeIs, BlockWords
<1>3. /\ Shape(mem', e, B) /\ (LastInUse(m, B) => LastInUse(mem', B))
      /\ Held(mem', B, live, stale') /\ Same(m, mem', b)
      /\ w => \A a \in Words : b + 20 <= a /\ a < b + 20 + n => mem'[a] = DATA
  <2>1. CASE w
    <3>1. PICK m2 : m2 = Fill(m, b + 20, n)
      OBVIOUS
    <3>2. /\ Shape(m2, e, B) /\ (LastInUse(m, B) => LastInUse(m2, B)) /\ Kept(m, B, b, m2, B)
          /\ \A c \in B : Same(m, m2, c)
          /\ \A a \in Words : b + 20 <= a /\ a < b + 20 + n => m2[a] = DATA
      BY <1>2, <3>1, Filled
    <3>3. ASSUME NEW p \in stale \ {b + 20} PROVE StaleOK(m2, B, p)
      <4>1. StaleOK(m, B, p)
        BY DEF Held
      <4>2. p - 20 \in B => m2[p - 20 + 8] = m[p - 20 + 8]
        BY <3>2 DEF Same
      <4> QED BY <4>1, <4>2 DEF StaleOK
    <3>4. \A l \in live : l.ptr - 20 # b
      <4>1. \A l \in live : l.ptr \in Int
        BY DEF Held, LiveOK
      <4> QED BY <1>2, <4>1
    <3>5. Held(m2, B, live, stale \ {b + 20})
      BY <3>2, <3>3, <3>4, HeldKept
    <3> QED BY <1>1, <2>1, <3>1, <3>2, <3>5
  <2>2. CASE ~ w
    BY <1>1, <2>2 DEF Same
  <2> QED BY <2>1, <2>2
<1>4. PICK r : r = [ptr |-> b + 20, size |-> n, written |-> w]
  OBVIOUS
<1>5. r.ptr = b + 20 /\ r.size = n /\ r.written = w
  BY <1>4
<1>6. LiveOK(mem', B, r)
  <2>1. b + 20 \in Int /\ b + 20 - 20 = b
    BY <1>2
  <2>2. mem'[b + 8] = 0 /\ n <= mem'[b + 4]
    BY <1>3 DEF Same
  <2>3. r.ptr \in Int /\ r.ptr - 20 = b
    <3>1. r.ptr = b + 20
      BY <1>5
    <3> QED BY <1>2, <3>1
  <2>4. r.written \in BOOLEAN
    BY <1>5
  <2>5. r.written => \A a \in Words : r.ptr <= a /\ a < r.ptr + r.size => mem'[a] = DATA
    BY <1>3, <1>5
  <2> QED BY <1>5, <2>2, <2>3, <2>4, <2>5 DEF LiveOK
<1>7. Held(mem', B, live \cup {r}, stale')
  BY <1>3, <1>5, <1>6 DEF Held
<1> QED BY <1>1, <1>3, <1>4, <1>7

(* A free block, which is not the last one, is taken. *)
LEMMA Taken ==
    ASSUME NEW m, NEW e, NEW B, NEW b \in B, NEW n \in Sizes \ {0}, Shape(m, e, B),
           m[b + 8] = 1, n <= m[b + 4], Held(m, B, live, stale), LastInUse(m, B),
           Returns(b, n, [m EXCEPT ![free(b)] = 0])
    PROVE  Shape(mem', e, B) /\ Held(mem', B, live', stale') /\ LastInUse(mem', B)
<1>1. PICK m2 : m2 = [m EXCEPT ![free(b)] = 0]
  OBVIOUS
<1>2. b \in Int /\ b + 4 \in Words /\ b + 8 \in Words /\ m[b + 12] # 0
  BY BlockWords DEF LastInUse
<1>3. Flagged(m, m2, b, 0)
  BY <1>1, <1>2, FlagWrites DEF Shape
<1>4. /\ Shape(m2, e, B) /\ Kept(m, B, b, m2, B) /\ LastInUse(m2, B)
      /\ \A c \in B : c # b => Same(m, m2, c)
  BY <1>2, <1>3, FlagShape
<1>5. m2[b + 8] = 0 /\ m2[b + 4] = m[b + 4]
  BY <1>2, <1>3 DEF Flagged
<1>6. \A l \in live : l.ptr \in Int /\ l.ptr - 20 # b
  BY DEF Held, LiveOK
<1>7. ASSUME NEW p \in stale \ {b + 20} PROVE StaleOK(m2, B, p)
  <2>1. StaleOK(m, B, p)
    BY DEF Held
  <2>2. p - 20 # b
    BY <1>2, <2>1 DEF StaleOK
  <2>3. p - 20 \in B => m2[p - 20 + 8] = m[p - 20 + 8]
    BY <1>4, <2>2 DEF Same
  <2> QED BY <2>1, <2>3 DEF StaleOK
<1>8. Held(m2, B, live, stale \ {b + 20})
  BY <1>4, <1>6, <1>7, HeldKept
<1>9. \A l \in live : l.ptr # b + 20
  BY <1>2, <1>6
<1> QED BY <1>1, <1>4, <1>5, <1>8, <1>9, ReturnsHeld

\* What HeapInv says of the blocks.
Good(B) ==
    /\ B \subseteq Words
    /\ Shape(mem, heap_end, B)
    /\ Held(mem, B, live, stale)
    /\ Anchored(heap_head, heap_end, B)
    /\ Walking(mem, B)

LEMMA InvIsGood == HeapInv /\ Sound => \E B : Good(B)
BY DEF HeapInv, Good

LEMMA GoodIsInv == (\E B : Good(B)) => HeapInv
BY DEF HeapInv, Good

LEMMA GoodIsInvNext == (\E B : Good(B))' => HeapInv'
BY GoodIsInv, PTL

(* A block that fits is found. *)
LEMMA TakeBlockKeeps ==
    ASSUME NEW B, Good(B), TakeBlock
    PROVE  HeapInv'
<1>1. PICK b \in B, n \in Sizes \ {0} : b = current /\ n = want
  BY DEF Good, Walking, TakeBlock
<1>2. PICK s \in Nat : s = aligned(n) /\ s % 8 = 0 /\ s >= 8 /\ n <= s
  BY Rounded
<1>3. /\ Shape(mem, heap_end, B) /\ Held(mem, B, live, stale) /\ LastInUse(mem, B)
      /\ Anchored(heap_head, heap_end, B)
  BY DEF Good, Walking, TakeBlock
<1>4. /\ mem[b + 4] \in Int /\ b + 4 \in Words /\ b + 8 \in Words /\ mem[b + 8] \in {0, 1}
      /\ n \in Nat
  BY <1>3, BlockWords, SizeIs
<1>5. mem[b + 8] = 1 /\ mem[b + 4] >= s
  BY <1>1, <1>2, <1>4 DEF TakeBlock, Fits, Rd
<1>6. mem[b + 12] # 0
  BY <1>3, <1>5 DEF LastInUse
<1>7. /\ Returns(b, n, [(IF Splits(b, s) THEN Split(b, s) ELSE mem) EXCEPT ![free(b)] = 0])
      /\ op' = "idle" /\ heap_head' = heap_head /\ heap_end' = heap_end
  BY <1>1, <1>2 DEF TakeBlock, Done
<1>8. PICK C : /\ B \subseteq C /\ C \subseteq Words
               /\ Shape(mem', heap_end, C) /\ Held(mem', C, live', stale') /\ LastInUse(mem', C)
  <2>1. CASE Splits(b, s)
    <3>1. Cuts(mem, B, b, s)
      BY <1>2, <1>4, <1>5, <1>6, <2>1 DEF Cuts, Splits
    <3>2. PICK m : m = Split(b, s)
      OBVIOUS
    <3>3. PICK q : q = b + 20 + s /\ Divided(mem, m, b, s, q)
      BY <1>3, <3>1, <3>2, SplitWrites
    <3>4. /\ Shape(m, heap_end, B \cup {q}) /\ Kept(mem, B, q, m, B \cup {q})
          /\ LastInUse(m, B \cup {q}) /\ m[b + 8] = 1 /\ m[b + 4] = s /\ q \notin B
      <4>1. /\ Shape(m, heap_end, B \cup {q}) /\ \A x : Kept(mem, B, x, m, B \cup {q})
            /\ LastInUse(mem, B) => LastInUse(m, B \cup {q})
            /\ m[b + 8] = 1 /\ m[b + 4] = s /\ m[b + 12] = q /\ q # 0 /\ q \notin B
        BY <1>3, <3>1, <3>3, CutShape
      <4> QED BY <1>3, <4>1
    <3>5. ASSUME NEW p \in stale PROVE StaleOK(m, B \cup {q}, p)
      <4>1. StaleOK(mem, B, p)
        BY <1>3 DEF Held
      <4>2. p - 20 = q => m[p - 20 + 8] = 1
        BY <3>3 DEF Divided
      <4>3. p - 20 \in B => m[p - 20 + 8] = mem[p - 20 + 8]
        BY <1>3, <3>1, <3>3, CutKeeps
      <4> QED BY <4>1, <4>2, <4>3 DEF StaleOK
    <3>6. \A l \in live : l.ptr - 20 # q
      BY <1>3, <3>4 DEF Held, LiveOK
    <3>7. Held(m, B \cup {q}, live, stale)
      BY <1>3, <3>4, <3>5, <3>6, HeldKept
    <3>8. Returns(b, n, [m EXCEPT ![free(b)] = 0])
      BY <1>7, <2>1, <3>2
    <3>9. /\ Shape(mem', heap_end, B \cup {q}) /\ Held(mem', B \cup {q}, live', stale')
          /\ LastInUse(mem', B \cup {q})
      BY <1>2, <3>4, <3>7, <3>8, Taken
    <3> QED BY <3>9 DEF Shape
  <2>2. CASE ~ Splits(b, s)
    <3>1. Returns(b, n, [mem EXCEPT ![free(b)] = 0])
      BY <1>7, <2>2
    <3>2. n <= mem[b + 4]
      BY <1>2, <1>4, <1>5
    <3>3. Shape(mem', heap_end, B) /\ Held(mem', B, live', stale') /\ LastInUse(mem', B)
      BY <1>3, <1>5, <3>1, <3>2, Taken
    <3> QED BY <3>3 DEF Shape
  <2> QED BY <2>1, <2>2
<1>9. Anchored(heap_head', heap_end', C)
  BY <1>1, <1>3, <1>7, <1>8 DEF Anchored
<1>10. Good(C)'
  BY <1>7, <1>8, <1>9 DEF Good, Walking
<1> QED BY <1>10, GoodIsInvNext

(* The heap is empty: the first block is set up. *)
LEMMA KmallocFirstKeeps ==
    ASSUME NEW B, Good(B), NEW n \in Sizes, KmallocFirst(n)
    PROVE  HeapInv'
<1>1. n \in Sizes \ {0} /\ op = "idle" /\ op' = op /\ current' = current /\ want' = want
  BY DEF KmallocFirst, Refused, Kmalloc, Idle
<1>2. PICK s \in Nat : s = aligned(n) /\ s % 8 = 0 /\ s >= 8 /\ n <= s
  BY <1>1, Rounded
<1>3. B = {} /\ heap_end = HEAP_START
  BY Consts DEF Good, Anchored, KmallocFirst
<1>4. CASE UNCHANGED <<mem, live, stale, heap_head, heap_end>>
  <2>1. Good(B)'
    BY <1>1, <1>4 DEF Good, Walking
  <2> QED BY <2>1, GoodIsInvNext
<1>5. CASE /\ HEAP_START + 20 + s < HEAP_END
           /\ Returns(HEAP_START, n, Block(mem, HEAP_START, s, 0, 0, 0))
           /\ heap_head' = HEAP_START /\ heap_end' = HEAP_START + 20 + s
  <2>1. PICK m : m = Block(mem, HEAP_START, s, 0, 0, 0)
    OBVIOUS
  <2>2. PICK e : e = HEAP_START + 20 + s
    OBVIOUS
  <2>3. Shape(mem, HEAP_START, {}) /\ Memory(mem)
    BY <1>3 DEF Good, Shape
  <2>4. /\ SetUp(m, HEAP_START, s, 0)
        /\ \A a \in Words : a \notin Within(HEAP_START, s) => m[a] = mem[a]
    BY <1>2, <1>5, <2>1, <2>3, FirstWrites
  <2>5. Shape(m, e, {HEAP_START}) /\ LastInUse(m, {HEAP_START})
    BY <1>2, <1>5, <2>2, <2>3, <2>4, FirstShape
  <2>6. PICK b \in {HEAP_START} : b = HEAP_START /\ b \in Int
    BY Consts
  <2>7. live = {}
    BY <1>3 DEF Good, Held, LiveOK
  <2>8. ASSUME NEW p \in stale \ {b + 20} PROVE StaleOK(m, {HEAP_START}, p)
    <3>1. StaleOK(mem, B, p)
      BY DEF Good, Held
    <3>2. p - 20 # b
      BY <2>6, <3>1 DEF StaleOK
    <3> QED BY <2>6, <3>1, <3>2 DEF StaleOK
  <2>9. Held(m, {HEAP_START}, live, stale \ {b + 20})
    BY <2>7, <2>8 DEF Held
  <2>10. m[b + 8] = 0 /\ n <= m[b + 4]
    BY <1>2, <2>4, <2>6 DEF SetUp
  <2>11. Returns(b, n, m)
    BY <1>5, <2>1, <2>6
  <2>12. /\ Shape(mem', e, {HEAP_START}) /\ Held(mem', {HEAP_START}, live', stale')
         /\ LastInUse(mem', {HEAP_START})
    BY <1>1, <2>5, <2>7, <2>9, <2>10, <2>11, ReturnsHeld
  <2>13. {HEAP_START} \subseteq Words
    BY <2>12 DEF Shape
  <2>14. Good({HEAP_START})'
    BY <1>1, <1>5, <2>2, <2>12, <2>13 DEF Good, Walking, Anchored
  <2> QED BY <2>14, GoodIsInvNext
<1>6. HEAP_START + 20 + s \in Int /\ HEAP_END \in Int
  BY <1>2, Consts
<1> QED BY <1>2, <1>3, <1>4, <1>5, <1>6 DEF KmallocFirst, ReturnsNull

LEMMA KmallocSearchKeeps ==
    ASSUME NEW B, Good(B), NEW n \in Sizes, KmallocSearch(n)
    PROVE  HeapInv'
<1>1. /\ n # 0 /\ op = "idle" /\ op' = "search" /\ current' = heap_head /\ want' = n
      /\ heap_head # 0 /\ UNCHANGED <<mem, heap_head, heap_end, live, stale>>
  BY DEF KmallocSearch, Refused, Kmalloc, Idle
<1>2. heap_head \in B
  BY <1>1 DEF Good, Anchored
<1>3. Good(B)'
  BY <1>1, <1>2 DEF Good, Walking
<1> QED BY <1>3, GoodIsInvNext

(* The walks go from block to block. *)
LEMMA NextBlockKeeps ==
    ASSUME NEW B, Good(B), NextBlock \/ ScanNext
    PROVE  HeapInv'
<1>1. /\ op \in {"search", "scan"} /\ mem[current + 12] # 0 /\ current' = mem[current + 12]
      /\ UNCHANGED <<mem, heap_head, heap_end, op, want, live, stale>>
  BY DEF NextBlock, ScanNext
<1>2. PICK b \in B : b = current
  BY <1>1 DEF Good, Walking
<1>3. mem[b + 12] \in B
  BY <1>1, <1>2, BlockWords DEF Good
<1>4. Good(B)'
  BY <1>1, <1>2, <1>3 DEF Good, Walking
<1> QED BY <1>4, GoodIsInvNext

(* The sums of kmalloc do not wrap around for the sizes that callers ask   *)
(* for, when a block is appended.                                          *)
LEMMA AppendEndIs ==
    ASSUME NEW s \in Nat, 2 * s < U32 + 14, heap_end \in HEAP_START .. HEAP_END - 1, AppendFits(s)
    PROVE  AppendEnd(s) = heap_end + 24 + s /\ heap_end + 24 + s < HEAP_END
<1>1. PICK x \in Nat : x = heap_end + 20 + s + 4 /\ x = heap_end + 24 + s
  BY Consts
<1>2. AppendEnd(s) = x % U32 /\ x % U32 >= heap_end /\ x % U32 < HEAP_END
  BY <1>1 DEF AppendFits, AppendEnd
<1>3. x < 2 * U32
  BY <1>1, Consts
<1>4. x % U32 = x \/ (x >= U32 /\ x % U32 = x - U32)
  BY <1>3, Consts
<1>5. ~ (x >= U32 /\ x % U32 = x - U32)
  BY <1>1, <1>2, Consts
<1> QED BY <1>1, <1>2, <1>4, <1>5

LEMMA AppendKeeps ==
    ASSUME NEW B, Good(B), Append
    PROVE  HeapInv'
<1>1. PICK c \in B, n \in Sizes \ {0} : c = current /\ n = want
  BY DEF Good, Walking, Append
<1>2. PICK s \in Nat : s = aligned(n) /\ s % 8 = 0 /\ s >= 8 /\ n <= s /\ 2 * s < U32 + 14
  BY Rounded
<1>3. /\ Shape(mem, heap_end, B) /\ Held(mem, B, live, stale) /\ LastInUse(mem, B)
      /\ Anchored(heap_head, heap_end, B) /\ heap_end \in HEAP_START .. HEAP_END - 1
  BY DEF Good, Walking, Append, Shape
<1>4. mem[c + 12] = 0 /\ op' = "idle" /\ heap_head' = heap_head
  BY <1>1 DEF Append, Done
<1>5. CASE UNCHANGED <<mem, live, stale, heap_end>>
  <2>1. Good(B)'
    BY <1>3, <1>4, <1>5 DEF Good, Walking
  <2> QED BY <2>1, GoodIsInvNext
<1>6. CASE /\ AppendFits(s) /\ heap_end' = AppendEnd(s)
           /\ Returns(heap_end, n, [Block(mem, heap_end, s, 0, 0, c) EXCEPT ![next(c)] = heap_end])
  <2>1. PICK e \in Int : e = heap_end
    BY <1>3, Consts
  <2>2. AppendEnd(s) = e + 24 + s /\ e + 24 + s < HEAP_END
    BY <1>2, <1>3, <1>6, <2>1, AppendEndIs
  <2>3. PICK m : m = LinkedBehind(mem, e, s, c)
    OBVIOUS
  <2>4. Shape(mem, e, B)
    BY <1>3, <2>1
  <2>5. Extended(mem, m, e, s, c)
    BY <1>2, <2>2, <2>3, <2>4, AppendWrites
  <2>6. PICK e2 : e2 = e + 24 + s
    OBVIOUS
  <2>7. /\ Shape(m, e2, B \cup {e}) /\ LastInUse(m, B \cup {e})
        /\ e \notin B /\ \A x : Kept(mem, B, x, m, B \cup {e})
    BY <1>2, <1>3, <1>4, <2>2, <2>4, <2>5, <2>6, AppendShape
  <2>8. m[e + 8] = 0 /\ n <= m[e + 4]
    BY <1>2, <2>5 DEF SetUp, Extended
  <2>9. \A l \in live : l.ptr \in Int /\ l.ptr - 20 # e
    BY <1>3, <2>7 DEF Held, LiveOK
  <2>10. ASSUME NEW p \in stale \ {e + 20} PROVE StaleOK(m, B \cup {e}, p)
    <3>1. StaleOK(mem, B, p)
      BY <1>3 DEF Held
    <3>2. p - 20 # e
      BY <2>1, <3>1 DEF StaleOK
    <3>3. p - 20 \in B => m[p - 20 + 8] = mem[p - 20 + 8]
      <4> SUFFICES ASSUME NEW d \in B PROVE m[d + 8] = mem[d + 8]
        OBVIOUS
      <4>1. d \in Int /\ d + 28 <= e /\ d + 8 \in Words /\ c \in Int
        BY <2>4, BlockWords
      <4>2. d + 8 # c + 12
        <5>1. d = c \/ d < c \/ c < d
          BY <4>1
        <5>2. d < c => d + 20 + mem[d + 4] <= c
          BY <2>4, Apart
        <5>3. c < d => c + 20 + mem[c + 4] <= d
          BY <2>4, Apart
        <5>4. mem[d + 4] \in Int /\ mem[d + 4] >= 8 /\ mem[c + 4] \in Int /\ mem[c + 4] >= 8
          BY <2>4, BlockWords
        <5> QED BY <4>1, <5>1, <5>2, <5>3, <5>4
      <4>3. d + 8 \notin Within(e, s)
        BY <1>2, <2>1, <4>1 DEF Within
      <4> QED BY <2>5, <4>1, <4>2, <4>3 DEF Extended
    <3> QED BY <3>1, <3>2, <3>3 DEF StaleOK
  <2>11. Held(m, B \cup {e}, live, stale \ {e + 20})
    <3>1. Kept(mem, B, e, m, B \cup {e})
      BY <2>7
    <3>2. \A l \in live : l.ptr - 20 # e
      BY <2>9
    <3>3. \A p \in stale \ {e + 20} : StaleOK(m, B \cup {e}, p)
      BY <2>10
    <3>4. Held(mem, B, live, stale)
      BY <1>3
    <3> QED BY <2>4, <3>1, <3>2, <3>3, <3>4, HeldKept
  <2>12. \A l \in live : l.ptr # e + 20
    BY <2>1, <2>9
  <2>13. Returns(e, n, m)
    BY <1>6, <2>1, <2>3 DEF LinkedBehind
  <2>14. /\ Shape(mem', e2, B \cup {e}) /\ Held(mem', B \cup {e}, live', stale')
         /\ LastInUse(mem', B \cup {e})
    BY <2>7, <2>8, <2>11, <2>12, <2>13, ReturnsHeld
  <2>15. B \cup {e} \subseteq Words /\ Anchored(heap_head', heap_end', B \cup {e})
    BY <1>1, <1>3, <1>4, <2>14 DEF Shape, Anchored
  <2>16. Good(B \cup {e})'
    BY <1>4, <1>6, <2>2, <2>6, <2>14, <2>15 DEF Good, Walking
  <2> QED BY <2>16, GoodIsInvNext
<1> QED BY <1>1, <1>2, <1>5, <1>6 DEF Append, ReturnsNull

(* A step that leaves the heap alone. *)
LEMMA SameKeeps ==
    ASSUME NEW B, Good(B),
           UNCHANGED <<mem, heap_head, heap_end, op, current, want, live, stale>>
    PROVE  HeapInv'
<1>1. Good(B)'
  BY DEF Good, Walking
<1> QED BY <1>1, GoodIsInvNext
-----------------------------------------------------------------------------
(* kfree. *)

(* The last block of the list is in use, or the scan breaks the list. *)
LEMMA ScanEndsKeeps ==
    ASSUME NEW B, Good(B), ScanEnds, Sound'
    PROVE  HeapInv'
<1>1. /\ Shape(mem, heap_end, B) /\ Held(mem, B, live, stale)
      /\ Anchored(heap_head, heap_end, B) /\ B \subseteq Words
  BY DEF Good
<1>2. PICK c \in B : c = current
  BY DEF Good, Walking, ScanEnds
<1>3. mem[c + 12] = 0 /\ op' = "idle" /\ UNCHANGED <<mem, heap_head, live, stale>>
  BY <1>2 DEF ScanEnds, Done
<1>4. mem[c + 8] = 0
  BY <1>2 DEF ScanEnds, Sound
<1>5. heap_end' = heap_end
  BY <1>2, <1>4 DEF ScanEnds
<1>6. ASSUME NEW b \in B, mem[b + 12] = 0 PROVE mem[b + 8] = 0
  <2>1. b \in Int /\ c \in Int
    BY <1>1, BlockWords
  <2>2. ~ (b < c) /\ ~ (c < b)
    BY <1>1, <1>3, <1>6 DEF Shape, Ordered
  <2> QED BY <1>4, <2>1, <2>2
<1>7. Good(B)'
  BY <1>1, <1>3, <1>5, <1>6 DEF Good, Walking, LastInUse
<1> QED BY <1>7, GoodIsInvNext

(* Where a value that is no size has kfree look for the guard word. *)
LEMMA NotASizeTail ==
    ASSUME NEW b \in Words, NEW v \in Value, v # 0, NotASize(v)
    PROVE  tail(b, v) \notin Words
<1>1. b \in Int /\ HEAP_START <= b /\ b < HEAP_END /\ (b - HEAP_START) % 4 = 0
  BY WordIs DEF Words
<1>2. v \in Nat /\ v < U32
  BY Consts DEF Value
<1>3. PICK x \in Nat : x = b + 20 + v
  BY <1>1, <1>2, Consts
<1>4. tail(b, v) = x % U32
  BY <1>3 DEF tail
<1>5. CASE v \in HEAP_START .. U32 - 1 - HEAP_END - HEADER
  <2>1. HEAP_END <= x /\ x < U32
    BY <1>1, <1>3, <1>5, Consts
  <2>2. x % U32 = x
    BY <2>1, Consts
  <2> QED BY <1>4, <2>1, <2>2, Consts, WordIs
<1>6. CASE v = 1
  <2>1. x < U32
    BY <1>1, <1>3, <1>6, Consts
  <2>2. x % U32 = x
    BY <2>1, Consts
  <2>3. PICK h \in Nat : h = HEAP_START
    BY Consts
  <2>4. (x - h) % 4 # 0
    BY <1>1, <1>3, <1>6, <2>3
  <2> QED BY <1>4, <2>2, <2>3, <2>4 DEF Words
<1> QED BY <1>5, <1>6 DEF NotASize

(* What a caller holds passes the checks of kfree. *)
LEMMA LivePasses ==
    ASSUME NEW B, Good(B), NEW l \in live
    PROVE  Passes(l.ptr - 20) /\ ~ Faults(l.ptr - 20)
<1>1. Shape(mem, heap_end, B) /\ LiveOK(mem, B, l)
  BY DEF Good, Held
<1>2. PICK b \in B : b = l.ptr - 20 /\ mem[b + 8] = 0
  BY <1>1 DEF LiveOK
<1>3. /\ b \in Int /\ HEAP_START <= b /\ b + 28 <= heap_end /\ heap_end \in Int
      /\ heap_end < HEAP_END /\ b \in Words /\ b + 4 \in Words
  BY <1>1, BlockWords
<1>4. /\ mem[b + 4] \in Int /\ mem[b + 4] >= 8 /\ b + 20 + mem[b + 4] \in Words
      /\ b + 20 + mem[b + 4] <= heap_end
      /\ mem[b] = HEAP_MAGIC /\ mem[b + 20 + mem[b + 4]] = HEAP_MAGIC
  BY <1>1, BlockWords
<1>5. tail(b, mem[b + 4]) = b + 20 + mem[b + 4]
  BY <1>3, <1>4, TailIs, Consts
<1>6. InHeap(b)
  BY <1>3 DEF InHeap, heap_start
<1>7. Rd(mem, b) = HEAP_MAGIC /\ Rd(mem, b + 4) = mem[b + 4]
  BY <1>3, <1>4 DEF Rd
<1>8. Rd(mem, tail(b, mem[b + 4])) = HEAP_MAGIC
  BY <1>4, <1>5 DEF Rd
<1>9. (b + 20 + mem[b + 4]) % U32 <= heap_end /\ mem[b + 4] # 0
  BY <1>3, <1>4, <1>5 DEF tail
<1>10. Passes(b)
  BY <1>2, <1>6, <1>7, <1>8, <1>9 DEF Passes
<1>11. ~ Faults(b)
  BY <1>3, <1>4, <1>5, <1>7, Consts DEF Faults
<1> QED BY <1>2, <1>10, <1>11

(* What was freed does not. *)
LEMMA StaleFails ==
    ASSUME NEW B, Good(B), NEW p \in stale
    PROVE  ~ Passes(p - 20)
<1>1. Shape(mem, heap_end, B) /\ StaleOK(mem, B, p)
  BY DEF Good, Held
<1>2. PICK b \in Words : b = p - 20 /\ b + 16 \in Words /\ (b \in B => mem[b + 8] # 0)
  BY <1>1 DEF StaleOK
<1>3. b \in Int /\ b + 4 \in Words /\ b + 8 \in Words
  <2>1. b \in Int /\ HEAP_START <= b /\ b + 16 < HEAP_END
    BY <1>2, WordIs
  <2> QED BY <2>1, WordStep, Consts
<1>4. mem[b + 4] \in Value
  BY <1>1, <1>3 DEF Shape, Memory, Value
<1>5. CASE mem[b + 8] # 0
  BY <1>2, <1>5 DEF Passes
<1>6. CASE mem[b + 8] = 0
  <2>1. NoBlock(mem, b)
    BY <1>1, <1>2, <1>6 DEF Shape
  <2>2. NotASize(mem[b + 4])
    BY <1>3, <1>6, <2>1 DEF NoBlock, Rd
  <2>3. CASE mem[b + 4] = 0
    BY <1>2, <2>3 DEF Passes
  <2>4. CASE mem[b + 4] # 0
    <3>1. tail(b, mem[b + 4]) \notin Words
      BY <1>4, <2>2, <2>4, NotASizeTail
    <3>2. Rd(mem, tail(b, Rd(mem, b + 4))) # HEAP_MAGIC
      BY <1>3, <3>1, Consts DEF Rd
    <3> QED BY <1>2, <3>2 DEF Passes
  <2> QED BY <2>3, <2>4
<1> QED BY <1>5, <1>6

LEMMA KfreeRejectsKeeps ==
    ASSUME NEW B, Good(B), NEW p, KfreeRejects(p)
    PROVE  HeapInv'
<1>1. p \in stale \cup {l.ptr : l \in live} /\ ~ Passes(p - 20)
  BY DEF KfreeRejects, Kfree, Rejected
<1>2. \A l \in live : l.ptr # p
  BY <1>1, LivePasses
<1>3. live' = live /\ stale' = stale
  BY <1>1, <1>2 DEF KfreeRejects, Forget
<1> QED BY <1>3, SameKeeps DEF KfreeRejects

(* A fault in the checks leaves the heap as it is. *)
LEMMA KfreeFaultsKeeps ==
    ASSUME NEW B, Good(B), NEW p, KfreeFaults(p)
    PROVE  HeapInv'
<1>1. op = "idle" /\ op' = "fault" /\ UNCHANGED <<mem, heap_head, heap_end, live, stale>>
  BY DEF KfreeFaults, Kfree, Idle
<1>2. Walking(mem, B)'
  BY <1>1 DEF Good, Walking, LastInUse
<1>3. Good(B)'
  BY <1>1, <1>2 DEF Good
<1> QED BY <1>3, GoodIsInvNext

\* Block b is being freed: it may be the last one, and then it was in use.
Freeing(m, e, B, b) ==
    /\ Shape(m, e, B) /\ b \in B /\ HEAP_START \in B /\ m[b + 8] = 1
    /\ \A c \in B : c # b /\ m[c + 12] = 0 => m[c + 8] = 0
    /\ m[b + 12] = 0 /\ b # HEAP_START => b + 24 + m[b + 4] <= e

\* What the merges do to the blocks: those in use, and the free flags, stay.
Shrinks(m, B, m2, C) ==
    C \subseteq B /\ (\A x : Kept(m, B, x, m2, C)) /\ \A c \in C : m2[c + 8] = m[c + 8]

LEMMA HeldShrinks ==
    ASSUME NEW m, NEW e, NEW B, NEW m2, NEW C, NEW L, NEW S,
           Shape(m, e, B), Held(m, B, L, S), Shrinks(m, B, m2, C)
    PROVE  Held(m2, C, L, S)
<1>1. Kept(m, B, 0, m2, C)
  BY DEF Shrinks
<1>2. \A l \in L : l.ptr - 20 # 0
  BY NotNull DEF Held, LiveOK
<1>3. ASSUME NEW p \in S PROVE StaleOK(m2, C, p)
  BY DEF Held, StaleOK, Shrinks
<1> QED BY <1>1, <1>2, <1>3, HeldKept

LEMMA SameShrinks == ASSUME NEW m, NEW B PROVE Shrinks(m, B, m, B)
BY DEF Shrinks, Kept

(* A block absorbs the one after it. *)
LEMMA JoinShrinks ==
    ASSUME NEW m, NEW m2, NEW e, NEW B, NEW p, NEW n, Shape(m, e, B), Joins(m, e, B, p, n),
           Joined(m, m2, p, n), HEAP_START \in B
    PROVE  /\ Shape(m2, e, B \ {n}) /\ HEAP_START \in B \ {n} /\ p \in B \ {n}
           /\ Shrinks(m, B, m2, B \ {n})
<1>1. Shape(m2, e, B \ {n}) /\ \A x : Kept(m, B, x, m2, B \ {n})
  BY JoinShape
<1>2. p \in B /\ n \in B /\ p # n
  BY JoinDistinct DEF Joins
<1>3. n # HEAP_START
  <2>1. /\ p \in Int /\ n \in Int /\ m[p + 4] \in Int /\ m[p + 4] >= 8 /\ p + 20 + m[p + 4] <= n
    BY JoinPlaces
  <2>2. HEAP_START <= p
    BY <1>2, BlockWords
  <2> QED BY <2>1, <2>2, Consts
<1>4. \A c \in B \ {n} : m2[c + 8] = m[c + 8]
  BY JoinKeeps
<1> QED BY <1>1, <1>2, <1>3, <1>4 DEF Shrinks

(* The first merge of kfree writes what Joined says, and reaches at most   *)
(* into the header of the block after the two.                             *)
LEMMA MergeNextWrites ==
    ASSUME NEW m, NEW B, NEW b, NEW m2, NEW n, Freeing(m, heap_end, B, b), m2 = MergeNext(m, b),
           n = m[b + 12], Absorbs(m, n)
    PROVE  /\ n \in B /\ m[n + 8] = 1 /\ b + 20 + m[b + 4] <= n /\ Joined(m, m2, b, n)
           /\ m[n + 12] \in B /\ m[n + 12] # 0 /\ n + 20 + m[n + 4] <= m[n + 12]
           /\ JoinedEnd(m, b, n) \in Words /\ JoinedEnd(m, b, n) <= m[n + 12] + 4
<1>1. Shape(m, heap_end, B) /\ b \in B /\ HEAP_START \in B /\ m[b + 8] = 1
  BY DEF Freeing
<1>2. /\ b \in Int /\ b + 12 \in Words /\ m[b + 4] \in Int /\ m[b + 4] >= 8
      /\ m[b + 4] % 4 = 0 /\ b + 20 + m[b + 4] \in Words /\ m[b + 12] \in B \cup {0}
      /\ HEAP_START <= b
  BY <1>1, BlockWords
<1>3. n = Rd(m, b + 12)
  BY <1>2 DEF Rd
<1>4. n \in B /\ n # 0
  BY <1>2 DEF Absorbs
<1>5. /\ n \in Int /\ n + 8 \in Words /\ n + 12 \in Words /\ m[n + 8] \in {0, 1}
      /\ m[n + 4] \in Int /\ m[n + 4] >= 8 /\ m[n + 4] % 4 = 0 /\ m[n + 12] \in B \cup {0}
  BY <1>1, <1>4, BlockWords
<1>6. m[n + 8] = 1
  BY <1>5 DEF Absorbs, Rd
<1>7. b + 20 + m[b + 4] <= n
  BY <1>1, <1>4 DEF Shape, Linked, EndOf
<1>8. n # b
  BY <1>2, <1>5, <1>7
<1>9. PICK k \in B : k = m[n + 12] /\ k # 0 /\ n + 20 + m[n + 4] <= k
  <2>1. m[n + 12] # 0
    BY <1>4, <1>6, <1>8 DEF Freeing
  <2>2. Linked(m, B, n)
    BY <1>1, <1>4 DEF Shape
  <2> QED BY <1>5, <2>1, <2>2 DEF Linked, EndOf
<1>10. k \in Int /\ k + 28 <= heap_end /\ heap_end \in Int /\ heap_end < HEAP_END
  BY <1>1, BlockWords
<1>11. PICK t \in Int : /\ t = b + 44 + m[b + 4] + m[n + 4] /\ t = JoinedEnd(m, b, n)
                        /\ t <= k + 4 /\ t >= b + 60
  <2>1. PICK t \in Int : t = b + 44 + m[b + 4] + m[n + 4]
    BY <1>2, <1>5
  <2>2. t <= k + 4 /\ t >= b + 60
    BY <1>2, <1>5, <1>7, <1>9, <1>10, <2>1
  <2> QED BY <2>1, <2>2 DEF JoinedEnd
<1>12. t \in Words
  <2>1. PICK a \in Words, j \in Int : a = b + 20 + m[b + 4] /\ j = 24 + m[n + 4] /\ j % 4 = 0
    BY <1>2, <1>5
  <2>2. t = a + j
    BY <1>2, <1>5, <1>11, <2>1, WordIs
  <2>3. HEAP_START <= t /\ t < HEAP_END
    BY <1>2, <1>10, <1>11, Consts
  <2> QED BY <2>1, <2>2, <2>3, WordStep
<1>13. JoinApart(m, B, b, n)
  BY <1>1, <1>2, <1>4, <1>5, <1>7, <1>9, <1>10, <1>11, <1>12 DEF JoinApart
<1>14. Joined(m, m2, b, n)
  <2>1. PICK m1 : m1 = [m EXCEPT ![size(b)] = Merged(m, b, n), ![next(b)] = m[n + 12],
                                 ![tail(b, Merged(m, b, n))] = HEAP_MAGIC]
    OBVIOUS
  <2>2. Joined(m, SetPrev(m1, m[n + 12], b), b, n)
    BY <1>1, <1>13, <2>1, JoinWrites
  <2>3. Rd(m, n + 12) = m[n + 12]
    BY <1>5 DEF Rd
  <2>4. m2 = SetPrev(m1, m[n + 12], b)
    BY <1>3, <2>1, <2>3 DEF MergeNext
  <2> QED BY <2>2, <2>4
<1> QED BY <1>4, <1>6, <1>7, <1>9, <1>11, <1>12, <1>14

(* The heap keeps its shape, unless the block then overruns the next. *)
LEMMA MergeNextKeeps ==
    ASSUME NEW m, NEW B, NEW b, NEW m2, Freeing(m, heap_end, B, b), m2 = MergeNext(m, b),
           ~ Overruns(m2, b)
    PROVE  \E C : Freeing(m2, heap_end, C, b) /\ Shrinks(m, B, m2, C)
<1>1. Shape(m, heap_end, B) /\ b \in B /\ HEAP_START \in B /\ m[b + 8] = 1
  BY DEF Freeing
<1>2. /\ b \in Int /\ b + 4 \in Words /\ b + 12 \in Words /\ m[b + 4] \in Int
      /\ heap_end \in Int
  BY <1>1, BlockWords
<1>3. PICK n : n = m[b + 12] /\ n = Rd(m, b + 12)
  BY <1>2 DEF Rd
<1>4. CASE ~ Absorbs(m, n)
  <2>1. m2 = m
    BY <1>3, <1>4 DEF MergeNext
  <2> QED BY <2>1, SameShrinks
<1>5. CASE Absorbs(m, n)
  <2>1. n \in B /\ m[n + 8] = 1 /\ Joined(m, m2, b, n) /\ m[n + 12] \in B /\ m[n + 12] # 0
    <3>1. n = m[b + 12]
      BY <1>3
    <3> QED BY <1>5, <3>1, MergeNextWrites
  <2>2. PICK k \in B : k = m[n + 12] /\ k # 0
    BY <2>1
  <2>3. k \in Int /\ k + 28 <= heap_end /\ m[n + 4] \in Int
    BY <1>1, <2>1, BlockWords
  <2>4. m2[b + 12] = k /\ m2[b + 4] = m[b + 4] + 24 + m[n + 4]
    BY <2>1, <2>2 DEF Joined
  <2>5. PICK t \in Int : t = b + 44 + m[b + 4] + m[n + 4] /\ t = JoinedEnd(m, b, n)
    BY <1>2, <2>3 DEF JoinedEnd
  <2>6. t <= k
    <3>1. ~ (b + 20 + m2[b + 4] > k)
      BY <1>2, <2>2, <2>4 DEF Overruns, Rd
    <3> QED BY <1>2, <2>3, <2>4, <2>5, <3>1
  <2>7. Joins(m, heap_end, B, b, n)
    BY <1>1, <1>2, <1>3, <2>1, <2>2, <2>3, <2>5, <2>6 DEF Joins
  <2>8. /\ Shape(m2, heap_end, B \ {n}) /\ HEAP_START \in B \ {n} /\ b \in B \ {n}
        /\ Shrinks(m, B, m2, B \ {n})
    BY <1>1, <2>1, <2>7, JoinShrinks
  <2>9. m2[b + 8] = 1
    BY <1>1, <2>8 DEF Shrinks
  <2>10. ASSUME NEW c \in B \ {n}, c # b, m2[c + 12] = 0 PROVE m2[c + 8] = 0
    <3>1. m2[c + 12] = m[c + 12] /\ m2[c + 8] = m[c + 8]
      BY <1>1, <2>1, <2>7, <2>10, JoinKeeps
    <3> QED BY <2>10, <3>1 DEF Freeing
  <2>11. Freeing(m2, heap_end, B \ {n}, b)
    BY <2>2, <2>4, <2>8, <2>9, <2>10 DEF Freeing
  <2> QED BY <2>8, <2>11
<1> QED BY <1>4, <1>5

(* The second merge of kfree, unless the block before then overruns the    *)
(* next.                                                                   *)
LEMMA MergePrevKeeps ==
    ASSUME NEW m, NEW B, NEW b, NEW m2, Freeing(m, heap_end, B, b), m2 = MergePrev(m, b),
           ~ (Absorbs(m, Rd(m, prev(b))) /\ Overruns(m2, Rd(m, prev(b))))
    PROVE  \E C : Shape(m2, heap_end, C) /\ HEAP_START \in C /\ Shrinks(m, B, m2, C)
<1>1. Shape(m, heap_end, B) /\ b \in B /\ HEAP_START \in B /\ m[b + 8] = 1
  BY DEF Freeing
<1>2. /\ b \in Int /\ b + 12 \in Words /\ b + 16 \in Words /\ m[b + 4] \in Int /\ m[b + 4] >= 8
      /\ m[b + 4] % 4 = 0 /\ m[b + 12] \in B \cup {0} /\ m[b + 16] \in B \cup {0}
      /\ heap_end \in Int /\ heap_end < HEAP_END
  BY <1>1, BlockWords
<1>3. PICK p : p = m[b + 16] /\ p = Rd(m, b + 16)
  BY <1>2 DEF Rd
<1>4. CASE ~ Absorbs(m, p)
  <2>1. m2 = m
    BY <1>3, <1>4 DEF MergePrev
  <2> QED BY <1>1, <2>1, SameShrinks
<1>5. CASE Absorbs(m, p)
  <2>1. p \in B /\ p # 0
    BY <1>2, <1>3, <1>5 DEF Absorbs
  <2>2. /\ p \in Int /\ p + 8 \in Words /\ p + 4 \in Words /\ p + 12 \in Words
        /\ m[p + 8] \in {0, 1} /\ HEAP_START <= p
        /\ m[p + 4] \in Int /\ m[p + 4] >= 8 /\ p + 20 + m[p + 4] \in Words
    BY <1>1, <2>1, BlockWords
  <2>3. m[p + 8] = 1
    BY <1>5, <2>2 DEF Absorbs, Rd
  <2>4. m[p + 12] = b /\ b # 0
    BY <1>1, <1>3, <2>1, NotNull DEF Shape, Linked
  <2>5. p + 20 + m[p + 4] <= b
    BY <1>1, <2>1, <2>4 DEF Shape, Linked, EndOf
  <2>6. PICK k : k = m[b + 12] /\ k \in B \cup {0} /\ (k # 0 => b + 20 + m[b + 4] <= k)
    BY <1>1, <1>2 DEF Shape, Linked, EndOf
  <2>7. k # 0 => k \in Int /\ k + 28 <= heap_end
    BY <1>1, <2>6, BlockWords
  <2>8. k = 0 => b + 24 + m[b + 4] <= heap_end
    <3>1. b # HEAP_START
      BY <1>2, <2>2, <2>5, Consts
    <3> QED BY <2>6, <3>1 DEF Freeing
  <2>9. PICK t \in Int : /\ t = p + 44 + m[p + 4] + m[b + 4] /\ t = JoinedEnd(m, p, b)
                         /\ t <= heap_end /\ t >= p + 60 /\ (k # 0 => t <= k + 4)
    BY <1>2, <2>2, <2>5, <2>6, <2>7, <2>8 DEF JoinedEnd
  <2>10. t \in Words
    <3>1. PICK a \in Words, j \in Int : a = p + 20 + m[p + 4] /\ j = 24 + m[b + 4] /\ j % 4 = 0
      BY <1>2, <2>2
    <3>2. t = a + j
      BY <1>2, <2>2, <2>9, <3>1, WordIs
    <3>3. HEAP_START <= t /\ t < HEAP_END
      BY <1>2, <2>2, <2>9, Consts
    <3> QED BY <3>1, <3>2, <3>3, WordStep
  <2>11. JoinApart(m, B, p, b)
    <3>1. p + 28 <= b /\ p + 52 <= t /\ (k # 0 => k \in B /\ b + 28 <= k /\ t <= k + 4)
      BY <1>2, <2>2, <2>5, <2>6, <2>7, <2>9
    <3> QED BY <1>1, <2>1, <2>6, <2>9, <2>10, <3>1 DEF JoinApart
  <2>12. Joined(m, m2, p, b)
    <3>1. PICK m1 : m1 = [m EXCEPT ![size(p)] = Merged(m, p, b),
                                   ![tail(p, Merged(m, p, b))] = HEAP_MAGIC, ![next(p)] = m[b + 12]]
      OBVIOUS
    <3>2. Joined(m, SetPrev(m1, m[b + 12], p), p, b)
      BY <1>1, <2>11, <3>1, JoinWrites
    <3>3. Rd(m, b + 12) = m[b + 12]
      BY <1>2 DEF Rd
    <3>4. m2 = SetPrev(m1, m[b + 12], p)
      BY <1>3, <1>5, <3>1, <3>3 DEF MergePrev
    <3> QED BY <3>2, <3>4
  <2>13. m2[p + 12] = k /\ m2[p + 4] = m[p + 4] + 24 + m[b + 4]
    BY <2>6, <2>12 DEF Joined
  <2>14. k # 0 => t <= k
    <3>1. k # 0 => ~ (p + 20 + m2[p + 4] > k)
      BY <1>3, <1>5, <2>2, <2>13 DEF Overruns, Rd
    <3> QED BY <1>2, <2>2, <2>7, <2>9, <2>13, <3>1
  <2>15. Joins(m, heap_end, B, p, b)
    BY <1>1, <2>1, <2>3, <2>4, <2>6, <2>9, <2>14 DEF Joins
  <2>16. Shape(m2, heap_end, B \ {b}) /\ HEAP_START \in B \ {b} /\ Shrinks(m, B, m2, B \ {b})
    BY <1>1, <2>12, <2>15, JoinShrinks
  <2> QED BY <2>16
<1> QED BY <1>4, <1>5

(* Block b, which a caller holds, is marked free. *)
LEMMA FreedIs ==
    ASSUME NEW B, Good(B), op = "idle", NEW l \in live, NEW b, b = l.ptr - 20, NEW m, m = Freed(b)
    PROVE  /\ b \in B /\ mem[b + 8] = 0 /\ l.ptr = b + 20
           /\ Freeing(m, heap_end, B, b) /\ Flagged(mem, m, b, 1)
           /\ Kept(mem, B, b, m, B) /\ \A c \in B : c # b => Same(mem, m, c)
<1>1. /\ Shape(mem, heap_end, B) /\ LastInUse(mem, B)
      /\ Anchored(heap_head, heap_end, B) /\ LiveOK(mem, B, l)
  BY DEF Good, Walking, Held
<1>2. b \in B /\ mem[b + 8] = 0 /\ l.ptr = b + 20
  BY <1>1 DEF LiveOK
<1>3. b \in Int /\ b + 4 \in Words /\ b + 8 \in Words /\ b + 12 \in Words
  BY <1>1, <1>2, BlockWords
<1>4. Flagged(mem, m, b, 1)
  BY <1>1, <1>3, FlagWrites DEF Freed, Shape
<1>5. /\ Shape(m, heap_end, B) /\ Kept(mem, B, b, m, B)
      /\ \A c \in B : c # b => Same(mem, m, c)
  BY <1>1, <1>2, <1>4, FlagShape
<1>6. m[b + 8] = 1 /\ m[b + 12] = mem[b + 12] /\ m[b + 4] = mem[b + 4]
  BY <1>3, <1>4 DEF Flagged
<1>7. HEAP_START \in B
  BY <1>1, <1>2 DEF Anchored
<1>8. \A c \in B : c # b /\ m[c + 12] = 0 => m[c + 8] = 0
  BY <1>1, <1>5 DEF Same, LastInUse
<1>9. mem[b + 12] = 0 /\ b # HEAP_START => b + 20 + mem[b + 4] + 4 <= heap_end
  BY <1>1, <1>2 DEF Shape, BlockOK, EndOf
<1>10. mem[b + 4] \in Int
  BY <1>1, <1>2, BlockWords
<1>11. b + 20 + mem[b + 4] + 4 = b + 24 + mem[b + 4]
  BY <1>3, <1>10
<1>12. Freeing(m, heap_end, B, b)
  BY <1>2, <1>5, <1>6, <1>7, <1>8, <1>9, <1>11 DEF Freeing
<1> QED BY <1>2, <1>4, <1>5, <1>12

(* The other callers keep what they hold, and the block is stale. *)
LEMMA FreedKeeps ==
    ASSUME NEW B, Good(B), op = "idle", NEW l \in live, NEW b, b = l.ptr - 20, Forget(l.ptr)
    PROVE  Freeing(Freed(b), heap_end, B, b) /\ Held(Freed(b), B, live', stale')
<1>1. Shape(mem, heap_end, B) /\ Held(mem, B, live, stale)
  BY DEF Good
<1>2. PICK m : m = Freed(b)
  OBVIOUS
<1>3. /\ b \in B /\ l.ptr = b + 20 /\ Freeing(m, heap_end, B, b) /\ Flagged(mem, m, b, 1)
      /\ Kept(mem, B, b, m, B) /\ \A c \in B : c # b => Same(mem, m, c)
  BY <1>2, FreedIs
<1>4. b \in Int /\ b \in Words /\ b + 16 \in Words /\ m[b + 8] = 1
  BY <1>1, <1>3, BlockWords DEF Flagged
<1>5. live' \subseteq live /\ \A k \in live' : k.ptr # l.ptr
  BY DEF Forget
<1>6. \A k \in live' : k.ptr - 20 # b
  <2>1. \A k \in live : k.ptr \in Int
    BY <1>1 DEF Held, LiveOK
  <2> QED BY <1>3, <1>4, <1>5, <2>1
<1>7. ASSUME NEW p \in stale' PROVE StaleOK(m, B, p)
  <2>1. p \in stale \/ p = l.ptr
    BY DEF Forget
  <2>2. CASE p - 20 = b
    <3>1. p \in Int
      BY <1>1, <1>3, <1>4, <2>1 DEF Held, StaleOK
    <3> QED BY <1>4, <2>2, <3>1 DEF StaleOK
  <2>3. CASE p - 20 # b
    <3>1. StaleOK(mem, B, p)
      BY <1>1, <2>1, <2>3 DEF Held
    <3>2. p - 20 \in B => m[p - 20 + 8] = mem[p - 20 + 8]
      BY <1>3, <2>3 DEF Same
    <3> QED BY <3>1, <3>2 DEF StaleOK
  <2> QED BY <2>2, <2>3
<1>8. Held(m, B, live', stale')
  BY <1>1, <1>3, <1>5, <1>6, <1>7, HeldKept
<1> QED BY <1>2, <1>3, <1>8

(* What is left when the first block is free and the last one. *)
LEMMA ResetKeeps ==
    ASSUME NEW e, NEW C, Shape(mem', e, C), Held(mem', C, live', stale'), HEAP_START \in C,
           mem'[HEAP_START + 8] # 0, mem'[HEAP_START + 12] = 0,
           heap_end' = HEAP_START, heap_head' = 0, op' = "idle"
    PROVE  Good({})'
<1>1. C = {HEAP_START}
  <2> SUFFICES ASSUME NEW c \in C PROVE c = HEAP_START
    OBVIOUS
  <2>1. c \in Int /\ HEAP_START <= c /\ HEAP_START \in Int
    BY BlockWords, Consts
  <2>2. ~ (HEAP_START < c)
    BY DEF Shape, Ordered
  <2> QED BY <2>1, <2>2
<1>2. live' = {}
  BY <1>1 DEF Held, LiveOK
<1>3. \A p \in stale' : StaleOK(mem', {}, p)
  BY DEF Held, StaleOK
<1>4. Held(mem', {}, live', stale')
  BY <1>2, <1>3 DEF Held
<1>5. \A a \in Words : NoBlock(mem', a)
  <2>1. \A a \in Words \ C : NoBlock(mem', a)
    BY DEF Shape
  <2>2. NoBlock(mem', HEAP_START)
    BY NoBlockFree
  <2> QED BY <1>1, <2>1, <2>2
<1>6. HEAP_START \in HEAP_START .. HEAP_END - 1 /\ (HEAP_START - HEAP_START) % 4 = 0
  BY Consts
<1>7. Shape(mem', HEAP_START, {})
  BY <1>5, <1>6 DEF Shape, Ordered
<1> QED BY <1>4, <1>7 DEF Good, Anchored, Walking, LastInUse

(* A block is freed and the list is not broken. *)
LEMMA KfreeFreesKeeps ==
    ASSUME NEW B, Good(B), NEW p, KfreeFrees(p), Sound'
    PROVE  HeapInv'
<1>1. op = "idle" /\ p \in stale \cup {l.ptr : l \in live} /\ Passes(p - 20) /\ Forget(p)
  BY DEF KfreeFrees, Kfree, Idle
<1>2. PICK l \in live : p = l.ptr
  BY <1>1, StaleFails
<1>3. PICK b : b = p - 20
  OBVIOUS
<1>4. PICK m1 : m1 = Freed(b)
  OBVIOUS
<1>5. Freeing(m1, heap_end, B, b) /\ Held(m1, B, live', stale')
  BY <1>1, <1>2, <1>3, <1>4, FreedKeeps
<1>6. PICK m2 : m2 = MergeNext(m1, b)
  OBVIOUS
<1>7. PICK m3 : m3 = MergePrev(m2, b)
  OBVIOUS
<1>8. /\ mem' = m3 /\ UNCHANGED want
      /\ ~ Overruns(m2, b) /\ ~ (Absorbs(m2, Rd(m2, prev(b))) /\ Overruns(m3, Rd(m2, prev(b))))
      /\ IF m3[free(heap_head)] # 0 /\ m3[next(heap_head)] = NULL
         THEN heap_end' = heap_start /\ heap_head' = NULL /\ UNCHANGED <<op, current>>
         ELSE op' = "scan" /\ current' = heap_head /\ UNCHANGED <<heap_head, heap_end>>
  BY <1>3, <1>4, <1>6, <1>7 DEF KfreeFrees, Sound
<1>9. PICK C : Freeing(m2, heap_end, C, b) /\ Shrinks(m1, B, m2, C)
  BY <1>5, <1>6, <1>8, MergeNextKeeps
<1>10. PICK D : Shape(m3, heap_end, D) /\ HEAP_START \in D /\ Shrinks(m2, C, m3, D)
  BY <1>7, <1>8, <1>9, MergePrevKeeps
<1>11. Held(mem', D, live', stale')
  <2>1. Held(m2, C, live', stale')
    BY <1>5, <1>9, HeldShrinks DEF Freeing
  <2> QED BY <1>8, <1>9, <1>10, <2>1, HeldShrinks DEF Freeing
<1>12. heap_head = HEAP_START /\ Shape(mem', heap_end, D)
  BY <1>5, <1>8, <1>10 DEF Good, Anchored, Freeing
<1>13. CASE m3[HEAP_START + 8] # 0 /\ m3[HEAP_START + 12] = 0
  <2>1. Good({})'
    BY <1>1, <1>8, <1>10, <1>11, <1>12, <1>13, ResetKeeps DEF heap_start
  <2> QED BY <2>1, GoodIsInvNext
<1>14. CASE ~ (m3[HEAP_START + 8] # 0 /\ m3[HEAP_START + 12] = 0)
  <2>1. op' = "scan" /\ current' = HEAP_START /\ UNCHANGED <<heap_head, heap_end>>
    BY <1>8, <1>12, <1>14
  <2>2. D \subseteq Words
    BY <1>10 DEF Shape
  <2>3. Good(D)'
    BY <1>10, <1>11, <1>12, <2>1, <2>2 DEF Good, Anchored, Walking
  <2> QED BY <2>3, GoodIsInvNext
<1> QED BY <1>13, <1>14
-----------------------------------------------------------------------------
(* HeapInv holds. *)

LEMMA InitKeeps == HeapInit => HeapInv
<1> SUFFICES ASSUME HeapInit PROVE HeapInv
  OBVIOUS
<1>1. Memory(mem) /\ \A a \in Words : mem[a] = 0
  BY Consts DEF HeapInit, Memory
<1>2. \A a \in Words : NoBlock(mem, a)
  BY <1>1, NoBlockSize, NotSizes
<1>3. HEAP_START \in HEAP_START .. HEAP_END - 1 /\ (HEAP_START - HEAP_START) % 4 = 0
  BY Consts
<1>4. Shape(mem, heap_end, {})
  BY <1>1, <1>2, <1>3 DEF HeapInit, Shape, Ordered
<1>5. Good({})
  BY <1>4 DEF Good, HeapInit, Held, Anchored, Walking, LastInUse
<1> QED BY <1>5, GoodIsInv

LEMMA NextKeeps == HeapInv /\ [HeapNext]_heap_vars => HeapInv'
<1> SUFFICES ASSUME HeapInv, [HeapNext]_heap_vars, Sound' PROVE HeapInv'
  BY DEF HeapInv
<1>1. Sound
  BY DEF HeapNext, Step, KmallocRefused, KmallocFirst, KmallocSearch, KfreeRejects, KfreeFaults,
         KfreeFrees, TakeBlock, NextBlock, Append, ScanNext, ScanEnds, Sound, heap_vars
<1>2. PICK B : Good(B)
  BY <1>1, InvIsGood
<1>3. CASE UNCHANGED heap_vars
  BY <1>2, <1>3, SameKeeps DEF heap_vars
<1>4. ASSUME NEW n \in Sizes, KmallocRefused(n) PROVE HeapInv'
  BY <1>2, <1>4, SameKeeps DEF KmallocRefused, ReturnsNull
<1>5. ASSUME NEW n \in Sizes, KmallocFirst(n) PROVE HeapInv'
  BY <1>2, <1>5, KmallocFirstKeeps
<1>6. ASSUME NEW n \in Sizes, KmallocSearch(n) PROVE HeapInv'
  BY <1>2, <1>6, KmallocSearchKeeps
<1>7. ASSUME NEW p, KfreeRejects(p) PROVE HeapInv'
  BY <1>2, <1>7, KfreeRejectsKeeps
<1>8. ASSUME NEW p, KfreeFrees(p) PROVE HeapInv'
  BY <1>2, <1>8, KfreeFreesKeeps
<1>13. ASSUME NEW p, KfreeFaults(p) PROVE HeapInv'
  BY <1>2, <1>13, KfreeFaultsKeeps
<1>9. CASE TakeBlock
  BY <1>2, <1>9, TakeBlockKeeps
<1>10. CASE NextBlock \/ ScanNext
  BY <1>2, <1>10, NextBlockKeeps
<1>11. CASE Append
  BY <1>2, <1>11, AppendKeeps
<1>12. CASE ScanEnds
  BY <1>2, <1>12, ScanEndsKeeps
<1> QED BY <1>3, <1>4, <1>5, <1>6, <1>7, <1>8, <1>9, <1>10, <1>11, <1>12, <1>13
        DEF HeapNext, Step

(* Whatever callers ask for and free, in whatever order: until kfree moves *)
(* heap_end behind a block that stays in the list, or merges blocks into   *)
(* one that reaches into the next, the memory of kmalloc and kfree is a    *)
(* well-formed list of blocks, one behind the other, and what callers hold *)
(* is in use.                                                              *)
THEOREM HeapWellFormed == HeapSpec => []HeapInv
BY InitKeeps, NextKeeps, PTL DEF HeapSpec
-----------------------------------------------------------------------------
(* The properties. *)

(* While the list is not broken the heap's variables have their types: the *)
(* list starts at heap_start or there is none, and heap_end stays in the   *)
(* window.                                                                 *)
THEOREM HeapTypeCorrect == HeapSpec => [](Sound => HeapTypeOK)
<1>1. HeapInv => (Sound => HeapTypeOK)
  <2> SUFFICES ASSUME HeapInv, Sound PROVE HeapTypeOK
    OBVIOUS
  <2>1. PICK B : Good(B)
    BY InvIsGood
  <2>2. mem \in [Words -> 0 .. U32 - 1] /\ heap_end \in HEAP_START .. HEAP_END - 1
    BY <2>1 DEF Good, Shape, Memory
  <2>3. heap_head \in {NULL, HEAP_START} /\ op \in {"idle", "search", "scan", "fault"}
    BY <2>1 DEF Good, Anchored, Walking
  <2>4. \A l \in live : l.size \in Sizes /\ l.written \in BOOLEAN
    BY <2>1 DEF Good, Held, LiveOK
  <2> QED BY <2>2, <2>3, <2>4 DEF HeapTypeOK
<1> QED BY <1>1, HeapWellFormed, PTL

(* Where what a caller holds lies. *)
LEMMA LivePlaces ==
    ASSUME NEW B, Good(B), NEW l \in live
    PROVE  /\ l.ptr \in Int /\ l.size \in Int /\ l.size > 0 /\ l.ptr - 20 \in B
           /\ HEAP_START <= l.ptr - 20 /\ mem[l.ptr - 20 + 4] \in Int
           /\ l.size <= mem[l.ptr - 20 + 4] /\ l.ptr + l.size < HEAP_END
<1>1. Shape(mem, heap_end, B) /\ LiveOK(mem, B, l)
  BY DEF Good, Held
<1>2. PICK b \in B : b = l.ptr - 20 /\ l.size <= mem[b + 4]
  BY <1>1 DEF LiveOK
<1>3. l.ptr \in Int /\ l.size \in Sizes \ {0}
  BY <1>1 DEF LiveOK
<1>4. l.size \in Nat /\ l.size > 0
  BY <1>3, SizeIs
<1>5. /\ b \in Int /\ HEAP_START <= b /\ mem[b + 4] \in Int /\ b + 20 + mem[b + 4] <= heap_end
      /\ heap_end \in Int /\ heap_end < HEAP_END
  BY <1>1, BlockWords
<1> QED BY <1>2, <1>3, <1>4, <1>5, Consts

(* No two callers of kmalloc share memory, no block in use holds another's *)
(* header, and what a caller wrote stays: splitting, merging and guard     *)
(* words never touch memory in use.                                        *)
THEOREM CallersKeepTheirMemory == HeapSpec => []PayloadIntact
<1>1. HeapInv => PayloadIntact
  <2> SUFFICES ASSUME HeapInv, Sound
               PROVE  /\ LiveDisjoint
                      /\ \A l \in live : l.written =>
                            \A a \in Words \cap CallerBytes(l) : mem[a] = DATA
    BY DEF PayloadIntact
  <2>1. PICK B : Good(B)
    BY InvIsGood
  <2>2. ASSUME NEW l \in live PROVE Bytes(l) \subseteq HEAP_START .. HEAP_END - 1
    <3>1. /\ l.ptr \in Int /\ l.size \in Int /\ HEAP_START <= l.ptr - 20
          /\ l.ptr + l.size < HEAP_END /\ l.size > 0
      BY <2>1, LivePlaces
    <3> QED BY <3>1, Consts DEF Bytes, HeaderBytes, CallerBytes
  <2>3. ASSUME NEW k \in live, NEW l \in live, k # l PROVE Bytes(k) \cap Bytes(l) = {}
    <3>1. /\ k.ptr \in Int /\ k.size \in Int /\ mem[k.ptr - 20 + 4] \in Int
          /\ k.size <= mem[k.ptr - 20 + 4] /\ k.ptr - 20 \in B /\ k.size > 0
      BY <2>1, LivePlaces
    <3>2. /\ l.ptr \in Int /\ l.size \in Int /\ mem[l.ptr - 20 + 4] \in Int
          /\ l.size <= mem[l.ptr - 20 + 4] /\ l.ptr - 20 \in B /\ l.size > 0
      BY <2>1, LivePlaces
    <3>3. k.ptr # l.ptr
      BY <2>1, <2>3 DEF Good, Held
    <3>4. \A b, c \in B : b < c => b + 20 + mem[b + 4] <= c
      BY <2>1, Apart DEF Good
    <3>5. CASE k.ptr < l.ptr
      <4>1. k.ptr - 20 + 20 + mem[k.ptr - 20 + 4] <= l.ptr - 20
        BY <3>1, <3>2, <3>4, <3>5
      <4>2. k.ptr + k.size <= l.ptr - 20
        BY <3>1, <3>2, <4>1
      <4> QED BY <3>1, <3>2, <4>2 DEF Bytes, HeaderBytes, CallerBytes
    <3>6. CASE l.ptr < k.ptr
      <4>1. l.ptr - 20 + 20 + mem[l.ptr - 20 + 4] <= k.ptr - 20
        BY <3>1, <3>2, <3>4, <3>6
      <4>2. l.ptr + l.size <= k.ptr - 20
        BY <3>1, <3>2, <4>1
      <4> QED BY <3>1, <3>2, <4>2 DEF Bytes, HeaderBytes, CallerBytes
    <3> QED BY <3>1, <3>2, <3>3, <3>5, <3>6
  <2>4. ASSUME NEW l \in live, l.written, NEW a \in Words \cap CallerBytes(l)
        PROVE  mem[a] = DATA
    <3>1. \A w \in Words : l.ptr <= w /\ w < l.ptr + l.size => mem[w] = DATA
      BY <2>1, <2>4 DEF Good, Held, LiveOK
    <3>2. l.ptr <= a /\ a < l.ptr + l.size
      <4>1. l.ptr \in Int /\ l.size \in Int
        BY <2>1, LivePlaces
      <4> QED BY <4>1 DEF CallerBytes
    <3> QED BY <3>1, <3>2
  <2> QED BY <2>2, <2>3, <2>4 DEF LiveDisjoint
<1> QED BY <1>1, HeapWellFormed, PTL

(* The checks of kfree are exact: what a caller holds is freed, and what   *)
(* was freed and not handed out again is not, also when its address now    *)
(* lies inside another block or in memory that a caller wrote to.          *)
THEOREM FreeIsExact == HeapSpec => []FreeChecksExact
<1>1. HeapInv => FreeChecksExact
  BY InvIsGood, LivePasses, StaleFails DEF FreeChecksExact
<1> QED BY <1>1, HeapWellFormed, PTL
-----------------------------------------------------------------------------
(* heap_validate. *)

(* A set of natural numbers that is not empty has a least one. *)
LEMMA LeastNat ==
    ASSUME NEW T, T \subseteq Nat, T # {}
    PROVE  \E x \in T : \A y \in T : x <= y
<1> DEFINE R == {ss \in Nat \X Nat : ss[1] < ss[2]}
<1>1. IsWellFoundedOn(R, Nat)
  BY ONLY NatLessThanWellFounded, Zenon DEF OpToRel
<1>2. \E x \in T : \A y \in T : ~ (<<y, x>> \in R)
  <2> HIDE DEF R
  <2> QED BY <1>1, WFMin
<1>3. \A x, y \in T : ~ (<<y, x>> \in R) => x <= y
  OBVIOUS
<1> QED BY <1>2, <1>3

After(b) == IF b = NULL THEN NULL ELSE Rd(mem, next(b))

\* w is the list, followed from its head for m blocks.
IsList(w, m) == w = [k \in 0 .. m |-> IF k = 0 THEN heap_head ELSE After(w[k - 1])]

LEMMA MaxBlocks ==
    MAX_BLOCKS \in Nat /\ HEAP_END - HEAP_START < 20 * (MAX_BLOCKS + 1)
<1>1. PICK d \in Nat : d = HEAP_END - HEAP_START
  BY Consts
<1>2. d \div 20 \in Nat /\ d < 20 * (d \div 20 + 1)
  BY <1>1
<1> QED BY <1>1, <1>2 DEF MAX_BLOCKS

(* The function Nth, defined by recursion on the position, exists. *)
LEMMA NthIs ==
    \A k \in 0 .. MAX_BLOCKS : Nth[k] = IF k = 0 THEN heap_head ELSE After(Nth[k - 1])
<1> DEFINE T == {m \in Nat : ~ \E w : IsList(w, m)}
<1>1. T = {}
  <2> SUFFICES ASSUME T # {} PROVE FALSE
    OBVIOUS
  <2>1. T \subseteq Nat
    OBVIOUS
  <2>2. PICK m \in T : \A y \in T : m <= y
    <3> HIDE DEF T
    <3> QED BY <2>1, LeastNat
  <2>3. m \in Nat /\ ~ \E w : IsList(w, m)
    OBVIOUS
  <2>4. CASE m = 0
    <3>1. IsList([k \in 0 .. 0 |-> heap_head], 0)
      BY DEF IsList
    <3> QED BY <2>3, <2>4, <3>1
  <2>5. CASE m # 0
    <3>1. m - 1 \in Nat /\ m - 1 \notin T
      BY <2>2, <2>3, <2>5
    <3>2. PICK v : IsList(v, m - 1)
      BY <3>1
    <3> DEFINE w == [k \in 0 .. m |-> IF k = m THEN After(v[m - 1]) ELSE v[k]]
    <3>3. \A k \in 0 .. m - 1 : w[k] = v[k]
      BY <2>3
    <3>4. \A k \in 0 .. m - 1 : v[k] = IF k = 0 THEN heap_head ELSE After(v[k - 1])
      BY <3>2 DEF IsList
    <3>5. w[m] = After(v[m - 1])
      BY <2>3
    <3>6. \A k \in 0 .. m : w[k] = IF k = 0 THEN heap_head ELSE After(w[k - 1])
      <4> HIDE DEF w
      <4> TAKE k \in 0 .. m
      <4>1. CASE k = m
        BY <2>3, <2>5, <3>3, <3>5, <4>1
      <4>2. CASE k # m
        <5>1. k \in 0 .. m - 1 /\ (k # 0 => k - 1 \in 0 .. m - 1)
          BY <2>3, <4>2
        <5> QED BY <3>3, <3>4, <5>1
      <4> QED BY <4>1, <4>2
    <3>7. IsList(w, m)
      <4>1. w = [k \in 0 .. m |-> w[k]]
        OBVIOUS
      <4> HIDE DEF w
      <4> QED BY <3>6, <4>1 DEF IsList
    <3> QED BY <2>3, <3>7
  <2> QED BY <2>4, <2>5
<1>2. \E w : IsList(w, MAX_BLOCKS)
  BY <1>1, MaxBlocks
<1> DEFINE List == CHOOSE w : IsList(w, MAX_BLOCKS)
<1>3. IsList(List, MAX_BLOCKS)
  <2> HIDE DEF T
  <2> QED BY <1>2
<1>4. Nth = List
  BY Zenon DEF Nth, IsList, After
<1>5. IsList(Nth, MAX_BLOCKS)
  BY <1>3, <1>4
<1> HIDE DEF T, List
<1> QED BY <1>5 DEF IsList

(* The list goes through the blocks, and each lies behind the one before. *)
LEMMA NthPlaces ==
    ASSUME NEW B, Good(B)
    PROVE  \A k \in 0 .. MAX_BLOCKS : Nth[k] = 0 \/ (Nth[k] \in B /\ HEAP_START + 28 * k <= Nth[k])
<1>1. Shape(mem, heap_end, B) /\ Anchored(heap_head, heap_end, B)
  BY DEF Good
<1> DEFINE Fine(k) == Nth[k] = 0 \/ (Nth[k] \in B /\ HEAP_START + 28 * k <= Nth[k])
<1> DEFINE T == {k \in 0 .. MAX_BLOCKS : ~ Fine(k)}
<1> SUFFICES ASSUME T # {} PROVE FALSE
  OBVIOUS
<1>2. T \subseteq Nat
  BY MaxBlocks
<1>3. PICK k \in T : \A y \in T : k <= y
  <2> HIDE DEF T
  <2> QED BY <1>2, LeastNat
<1>4. k \in 0 .. MAX_BLOCKS /\ ~ Fine(k) /\ k \in Nat
  BY MaxBlocks
<1>5. CASE k = 0
  <2>1. Nth[k] = heap_head
    BY <1>4, <1>5, NthIs
  <2> QED BY <1>1, <1>4, <1>5, <2>1, Consts DEF Anchored
<1>6. CASE k # 0
  <2>1. PICK j \in 0 .. MAX_BLOCKS : j = k - 1 /\ j \in Nat /\ k = j + 1 /\ j \notin T
    BY <1>3, <1>4, <1>6, MaxBlocks
  <2>2. Fine(j) /\ Nth[k] = After(Nth[j])
    BY <1>4, <1>6, <2>1, NthIs
  <2>3. CASE Nth[j] = 0
    BY <1>4, <2>2, <2>3 DEF After
  <2>4. CASE Nth[j] # 0
    <3>1. PICK b \in B : b = Nth[j] /\ HEAP_START + 28 * j <= b
      BY <2>2, <2>4
    <3>2. b \in Int /\ b + 12 \in Words /\ mem[b + 4] \in Int /\ mem[b + 4] >= 8
      BY <1>1, BlockWords
    <3>3. Nth[k] = mem[b + 12]
      BY <2>2, <2>4, <3>1, <3>2 DEF After, Rd
    <3>4. Linked(mem, B, b)
      BY <1>1 DEF Shape
    <3>5. PICK n \in B : n = mem[b + 12] /\ b + 20 + mem[b + 4] <= n
      BY <1>4, <3>3, <3>4 DEF Linked, EndOf
    <3>6. n \in Int
      BY <1>1, BlockWords
    <3>7. HEAP_START + 28 * k <= n
      BY <2>1, <3>1, <3>2, <3>5, <3>6, Consts
    <3> QED BY <1>4, <3>3, <3>5, <3>7
  <2> QED BY <2>3, <2>4
<1> QED BY <1>5, <1>6

(* What heap_validate checks of a block. *)
LEMMA BlocksValid ==
    ASSUME NEW B, Good(B), NEW b \in B
    PROVE  BlockValid(b)
<1>1. Shape(mem, heap_end, B)
  BY DEF Good
<1>2. /\ b \in Int /\ HEAP_START <= b /\ b + 28 <= heap_end /\ heap_end \in Int
      /\ b \in Words /\ b + 4 \in Words /\ b + 8 \in Words
      /\ b + 12 \in Words /\ b + 16 \in Words /\ mem[b] = HEAP_MAGIC
      /\ heap_end < HEAP_END
  BY <1>1, BlockWords
<1>3. mem[b + 4] \in Int /\ mem[b + 4] >= 8 /\ b + 20 + mem[b + 4] <= heap_end
  BY <1>1, BlockWords
<1>4. Fields(b) \subseteq Words
  BY <1>2 DEF Fields
<1>5. mem[b + 12] # 0 => Rd(mem, mem[b + 12] + 16) = b
  <2> SUFFICES ASSUME mem[b + 12] # 0 PROVE Rd(mem, mem[b + 12] + 16) = b
    OBVIOUS
  <2>1. Linked(mem, B, b)
    BY <1>1 DEF Shape
  <2>2. PICK n \in B : n = mem[b + 12] /\ mem[n + 16] = b
    BY <2>1 DEF Linked
  <2>3. n + 16 \in Words
    BY <1>1, BlockWords
  <2> QED BY <2>2, <2>3 DEF Rd
<1>6. InHeap(b)
  BY <1>2 DEF InHeap, heap_start
<1>7. tail(b, mem[b + 4]) = b + 20 + mem[b + 4]
  BY <1>2, <1>3, TailIs, Consts
<1>8. (b + 20 + mem[b + 4]) % U32 <= heap_end
  BY <1>3, <1>7 DEF tail
<1> QED BY <1>2, <1>4, <1>5, <1>6, <1>8 DEF BlockValid

(* heap_validate, called between two calls, prints "Heap structure         *)
(* valid.": following next from heap_head it meets only blocks with the    *)
(* magic number, a back link and an end before heap_end, and reaches NULL  *)
(* before it has counted more blocks than fit in the window.               *)
THEOREM HeapStaysValid == HeapSpec => []HeapValidWhileSound
<1>1. HeapInv => HeapValidWhileSound
  <2> SUFFICES ASSUME HeapInv, Sound PROVE heap_validate
    BY DEF HeapValidWhileSound
  <2>1. PICK B : Good(B)
    BY InvIsGood
  <2>2. \A k \in 0 .. MAX_BLOCKS : Nth[k] = 0 \/ (Nth[k] \in B /\ HEAP_START + 28 * k <= Nth[k])
    BY <2>1, NthPlaces
  <2>3. MAX_BLOCKS \in Nat /\ HEAP_END - HEAP_START < 20 * (MAX_BLOCKS + 1)
    BY MaxBlocks
  <2>4. Nth[MAX_BLOCKS] = 0
    <3> SUFFICES ASSUME Nth[MAX_BLOCKS] # 0 PROVE FALSE
      OBVIOUS
    <3>1. PICK b \in B : b = Nth[MAX_BLOCKS] /\ HEAP_START + 28 * MAX_BLOCKS <= b
      BY <2>2, <2>3
    <3>2. b \in Int /\ b + 28 <= heap_end /\ heap_end \in Int /\ heap_end < HEAP_END
      BY <2>1, BlockWords DEF Good
    <3> QED BY <2>3, <3>1, <3>2, Consts
  <2> DEFINE T == {k \in 0 .. MAX_BLOCKS : Nth[k] = 0}
  <2>5. T \subseteq Nat /\ T # {}
    BY <2>3, <2>4
  <2>6. PICK k \in T : \A y \in T : k <= y
    <3> HIDE DEF T
    <3> QED BY <2>5, LeastNat
  <2>7. ASSUME NEW j \in 0 .. k - 1 PROVE BlockValid(Nth[j])
    <3>1. j \in 0 .. MAX_BLOCKS /\ j \notin T
      BY <2>3, <2>6
    <3>2. Nth[j] \in B
      BY <2>2, <3>1
    <3> QED BY <2>1, <3>2, BlocksValid
  <2>8. k \in 0 .. MAX_BLOCKS /\ Nth[k] = 0
    OBVIOUS
  <2> HIDE DEF T
  <2> QED BY <2>7, <2>8 DEF heap_validate
<1> QED BY <1>1, HeapWellFormed, PTL
-----------------------------------------------------------------------------
(* What the calls read and write. *)

LEMMA FieldsIn ==
    ASSUME NEW B, Good(B), NEW b \in B
    PROVE  Fields(b) \subseteq Words /\ {prev(b)} \subseteq Words
BY BlocksValid DEF BlockValid, Fields

LEMMA PrevIn ==
    ASSUME NEW B, Good(B), NEW n, n \in B \cup {0}
    PROVE  PrevField(n) \subseteq Words
BY FieldsIn DEF PrevField

(* A step of the search stays in the window, also when it cuts a block. *)
LEMMA SearchIn ==
    ASSUME NEW B, Good(B), op = "search"
    PROVE  SearchTouches(current, aligned(want)) \subseteq Words
<1>1. PICK b \in B, n \in Sizes \ {0} : b = current /\ n = want
  BY DEF Good, Walking
<1>2. PICK s \in Nat : s = aligned(n) /\ s % 8 = 0 /\ s >= 8
  BY Rounded
<1>3. Shape(mem, heap_end, B) /\ LastInUse(mem, B)
  BY DEF Good, Walking
<1>4. Fields(b) \subseteq Words
  BY FieldsIn
<1>5. CASE ~ (Fits(b, s) /\ Splits(b, s))
  BY <1>1, <1>2, <1>4, <1>5 DEF SearchTouches
<1>6. CASE Fits(b, s) /\ Splits(b, s)
  <2>1. b + 4 \in Words /\ b + 8 \in Words /\ mem[b + 8] \in {0, 1} /\ mem[b + 4] \in Int
    BY <1>3, BlockWords
  <2>2. mem[b + 8] = 1 /\ mem[b + 4] >= s + 32
    BY <1>2, <1>6, <2>1 DEF Fits, Splits, Rd
  <2>3. Cuts(mem, B, b, s)
    BY <1>2, <1>3, <2>2 DEF Cuts, LastInUse
  <2>4. /\ mem[b + 12] \in B /\ mem[b + 12] \in Int /\ b + 20 + mem[b + 4] <= mem[b + 12]
        /\ b + 20 + s \in Words /\ b + 16 + mem[b + 4] \in Words /\ b \in Int
    BY <1>3, <2>3, CutPlaces
  <2>5. PICK q \in Words : q = b + 20 + s
    BY <2>4
  <2>6. q \in Int /\ HEAP_START <= q /\ q + 16 < HEAP_END
    <3>1. mem[b + 12] < HEAP_END
      BY <1>3, <2>4, WordIs DEF Shape
    <3> QED BY <1>2, <2>1, <2>2, <2>4, <2>5, <3>1, WordIs, Consts
  <2>7. q + 4 \in Words /\ q + 8 \in Words /\ q + 12 \in Words /\ q + 16 \in Words
    BY <2>6, WordStep, Consts
  <2>8. Fields(b + 20 + s) \subseteq Words
    BY <2>5, <2>7 DEF Fields
  <2>9. tail(b, mem[b + 4] - 4) = b + 16 + mem[b + 4]
    <3>1. PICK z \in Nat : z = mem[b + 4] - 4 /\ b + 20 + z = b + 16 + mem[b + 4]
      BY <1>2, <2>1, <2>2, <2>4
    <3>2. b \in Nat /\ b + 20 + z < U32
      <4>1. HEAP_START <= b /\ b + 16 + mem[b + 4] < HEAP_END
        BY <1>3, <2>4, BlockWords, WordIs
      <4>2. HEAP_START \in Nat /\ HEAP_END \in Nat /\ 2 * HEAP_END + 48 <= U32 /\ U32 \in Nat
        BY Consts
      <4> QED BY <2>4, <3>1, <4>1, <4>2
    <3> QED BY <3>1, <3>2, TailIs
  <2>10. PrevField(mem[b + 12]) \subseteq Words
    BY <2>4, PrevIn
  <2>11. {tail(b, mem[b + 4] - 4)} \subseteq Words
    BY <2>4, <2>9
  <2> QED BY <1>1, <1>2, <1>4, <2>8, <2>10, <2>11 DEF SearchTouches
<1> QED BY <1>5, <1>6

(* Block b after the first merge, whether it reaches into the next block   *)
(* or not.                                                                 *)
LEMMA MergedNext ==
    ASSUME NEW m, NEW B, NEW b, NEW m2, Freeing(m, heap_end, B, b), m2 = MergeNext(m, b)
    PROVE  /\ m2[b + 16] = m[b + 16] /\ m2[b + 12] \in B \cup {0}
           /\ m2[b + 4] \in Nat /\ m2[b + 4] % 4 = 0
           /\ b # HEAP_START => b + 24 + m2[b + 4] < HEAP_END
           /\ \A p \in B : p < b => m2[p + 4] = m[p + 4]
<1>1. Shape(m, heap_end, B) /\ b \in B
  BY DEF Freeing
<1>2. /\ b \in Int /\ b + 4 \in Words /\ b + 12 \in Words /\ b + 16 \in Words
      /\ m[b + 4] \in Int /\ m[b + 4] >= 8 /\ m[b + 4] % 4 = 0
      /\ m[b + 12] \in B \cup {0} /\ heap_end \in Int /\ heap_end < HEAP_END
  BY <1>1, BlockWords
<1>3. PICK n : n = m[b + 12]
  OBVIOUS
<1>4. CASE ~ Absorbs(m, n)
  <2>1. m2 = m
    BY <1>2, <1>3, <1>4 DEF MergeNext, Rd
  <2>2. n # 0 => n \in Int /\ n + 28 <= heap_end /\ b + 20 + m[b + 4] <= n
    <3> SUFFICES ASSUME n # 0
                 PROVE n \in Int /\ n + 28 <= heap_end /\ b + 20 + m[b + 4] <= n
      OBVIOUS
    <3>1. n \in B
      BY <1>2, <1>3
    <3>2. Linked(m, B, b)
      BY <1>1 DEF Shape
    <3>3. b + 20 + m[b + 4] <= n
      BY <1>3, <3>2 DEF Linked, EndOf
    <3> QED BY <1>1, <3>1, <3>3, BlockWords
  <2>3. n = 0 /\ b # HEAP_START => b + 24 + m[b + 4] <= heap_end
    BY <1>3 DEF Freeing
  <2>4. b # HEAP_START => b + 24 + m[b + 4] < HEAP_END
    BY <1>2, <2>2, <2>3, Consts
  <2> QED BY <1>2, <2>1, <2>4
<1>5. CASE Absorbs(m, n)
  <2>1. /\ n \in B /\ m[n + 8] = 1 /\ b + 20 + m[b + 4] <= n /\ Joined(m, m2, b, n)
        /\ m[n + 12] \in B /\ m[n + 12] # 0 /\ n + 20 + m[n + 4] <= m[n + 12]
        /\ JoinedEnd(m, b, n) \in Words /\ JoinedEnd(m, b, n) <= m[n + 12] + 4
    BY <1>3, <1>5, MergeNextWrites
  <2>2. PICK k \in B : k = m[n + 12]
    BY <2>1
  <2>3. n \in Int /\ m[n + 4] \in Int /\ m[n + 4] >= 8 /\ m[n + 4] % 4 = 0
    BY <1>1, <2>1, BlockWords
  <2>4. k \in Int /\ k + 28 <= heap_end
    BY <1>1, BlockWords
  <2>5. PICK t \in Int : /\ t = b + 44 + m[b + 4] + m[n + 4] /\ t = JoinedEnd(m, b, n)
                         /\ t <= k + 4 /\ n + 28 <= k /\ b + 28 <= n
    BY <1>2, <2>1, <2>2, <2>3, <2>4 DEF JoinedEnd
  <2>6. /\ m2[b + 4] = m[b + 4] + 24 + m[n + 4] /\ m2[b + 12] = k
        /\ \A a \in Words : a # b + 4 /\ a # b + 12 /\ a # t /\ a # k + 16 => m2[a] = m[a]
    BY <2>1, <2>2, <2>5 DEF Joined
  <2>7. m2[b + 16] = m[b + 16]
    BY <1>2, <2>3, <2>4, <2>5, <2>6
  <2>8. m2[b + 4] \in Nat /\ m2[b + 4] % 4 = 0
    BY <1>2, <2>3, <2>6
  <2>9. b + 24 + m2[b + 4] < HEAP_END
    BY <1>2, <2>3, <2>4, <2>5, <2>6, Consts
  <2>10. ASSUME NEW p \in B, p < b PROVE m2[p + 4] = m[p + 4]
    <3>1. p \in Int /\ p + 4 \in Words
      BY <1>1, BlockWords
    <3> QED BY <1>2, <2>3, <2>4, <2>5, <2>6, <2>10, <3>1
  <2> QED BY <2>6, <2>7, <2>8, <2>9, <2>10
<1> QED BY <1>4, <1>5

(* kfree stays in the window, also when a merge reaches into the next      *)
(* block.                                                                  *)
LEMMA KfreeIn ==
    ASSUME NEW B, Good(B), op = "idle", NEW l \in live
    PROVE  KfreeTouches(l.ptr - 20) \subseteq Words
<1>1. Shape(mem, heap_end, B)
  BY DEF Good
<1>2. PICK b : b = l.ptr - 20
  OBVIOUS
<1>3. PICK f : f = Freed(b)
  OBVIOUS
<1>4. /\ b \in B /\ mem[b + 8] = 0 /\ Freeing(f, heap_end, B, b) /\ Flagged(mem, f, b, 1)
      /\ \A c \in B : c # b => Same(mem, f, c)
  BY <1>2, <1>3, FreedIs
<1>5. PICK m : m = MergeNext(f, b)
  OBVIOUS
<1>6. /\ m[b + 16] = f[b + 16] /\ m[b + 12] \in B \cup {0}
      /\ m[b + 4] \in Nat /\ m[b + 4] % 4 = 0
      /\ b # HEAP_START => b + 24 + m[b + 4] < HEAP_END
      /\ \A p \in B : p < b => m[p + 4] = f[p + 4]
  BY <1>4, <1>5, MergedNext
<1>7. /\ b \in Int /\ HEAP_START <= b /\ b + 4 \in Words /\ b + 12 \in Words /\ b + 16 \in Words
      /\ mem[b + 4] \in Int /\ mem[b + 4] >= 8 /\ b + 20 + mem[b + 4] \in Words
      /\ mem[b + 12] \in B \cup {0} /\ mem[b + 16] \in B \cup {0}
  BY <1>1, <1>4, BlockWords
<1>8. f[b + 4] = mem[b + 4] /\ f[b + 12] = mem[b + 12] /\ f[b + 16] = mem[b + 16]
  BY <1>4, <1>7 DEF Flagged
<1>9. PICK n : n = mem[b + 12] /\ n = Rd(mem, b + 12)
  BY <1>7 DEF Rd
<1>10. PICK p : p = m[b + 16] /\ p = Rd(m, b + 16) /\ p = mem[b + 16]
  BY <1>6, <1>7, <1>8 DEF Rd
<1>11. Fields(b) \subseteq Words
  BY <1>4, FieldsIn
<1>12. tail(b, Rd(mem, b + 4)) \in Words
  <2>1. tail(b, mem[b + 4]) = b + 20 + mem[b + 4]
    BY <1>7, TailIs, WordIs, Consts
  <2> QED BY <1>7, <2>1 DEF Rd
<1>13. n # 0 => Fields(n) \subseteq Words
  BY <1>7, <1>9, FieldsIn
<1>14. p # 0 => Fields(p) \subseteq Words
  BY <1>7, <1>10, FieldsIn
<1>15. ASSUME Absorbs(mem, n)
       PROVE  tail(b, Merged(mem, b, n)) \in Words /\ PrevField(Rd(mem, n + 12)) \subseteq Words
  <2>1. n \in B /\ n # 0
    BY <1>7, <1>9, <1>15 DEF Absorbs
  <2>2. n + 8 \in Words /\ n + 12 \in Words /\ mem[n + 12] \in B \cup {0}
    BY <1>1, <2>1, BlockWords
  <2>3. n # b
    BY <1>4, <1>15, <2>2 DEF Absorbs, Rd
  <2>4. f[n + 8] = mem[n + 8] /\ f[n + 4] = mem[n + 4]
    BY <1>4, <2>1, <2>3 DEF Same
  <2>5. Absorbs(f, n)
    BY <1>15, <2>2, <2>4 DEF Absorbs, Rd
  <2>6. JoinedEnd(f, b, n) \in Words
    BY <1>4, <1>5, <1>8, <1>9, <2>5, MergeNextWrites
  <2>7. JoinedEnd(mem, b, n) \in Words
    BY <1>8, <2>4, <2>6 DEF JoinedEnd
  <2>8. JoinedEnd(mem, b, n) < U32
    BY <2>7, WordIs, Consts
  <2>9. tail(b, Merged(mem, b, n)) = JoinedEnd(mem, b, n)
    BY <1>1, <1>4, <2>1, <2>8, MergedIs
  <2>10. PrevField(Rd(mem, n + 12)) \subseteq Words
    BY <2>2, PrevIn DEF Rd
  <2> QED BY <2>7, <2>9, <2>10
<1>16. ASSUME Absorbs(m, p)
       PROVE  tail(p, Merged(m, p, b)) \in Words /\ PrevField(Rd(m, b + 12)) \subseteq Words
  <2>1. p \in B /\ p # 0
    BY <1>7, <1>10, <1>16 DEF Absorbs
  <2>2. /\ p \in Int /\ HEAP_START <= p /\ p + 4 \in Words /\ mem[p + 4] \in Int /\ mem[p + 4] >= 8
        /\ p + 20 + mem[p + 4] \in Words
    BY <1>1, <2>1, BlockWords
  <2>3. p + 20 + mem[p + 4] <= b
    <3>1. Linked(mem, B, b) /\ Linked(mem, B, p) /\ b # 0
      BY <1>1, <1>4, <2>1, NotNull DEF Shape
    <3> QED BY <1>10, <2>1, <3>1 DEF Linked, EndOf
  <2>4. p < b /\ p # b /\ b # HEAP_START
    BY <1>7, <2>2, <2>3, Consts
  <2>5. m[p + 4] = mem[p + 4]
    BY <1>4, <1>6, <2>1, <2>4 DEF Same
  <2>6. PICK z \in Nat : z = m[p + 4] + 20 + m[b + 4] + 4
    BY <1>6, <2>2, <2>5
  <2>7. p \in Nat /\ p + 20 + z < HEAP_END
    BY <1>6, <1>7, <2>2, <2>3, <2>4, <2>5, <2>6, Consts
  <2>8. z % U32 = z
    BY <2>6, <2>7, Consts
  <2>9. Merged(m, p, b) = z
    BY <1>7, <2>2, <2>6, <2>8 DEF Merged, Rd
  <2>10. tail(p, z) = p + 20 + z
    BY <2>6, <2>7, TailIs, Consts
  <2>11. p + 20 + z \in Words
    <3>1. PICK a \in Words, j \in Int : a = p + 20 + mem[p + 4] /\ j = 24 + m[b + 4] /\ j % 4 = 0
      BY <1>6, <2>2
    <3>2. p + 20 + z = a + j
      BY <1>6, <2>2, <2>5, <2>6, <3>1
    <3>3. HEAP_START <= a + j /\ a + j < HEAP_END
      BY <2>2, <2>7, <3>2, Consts
    <3> QED BY <3>1, <3>2, <3>3, WordStep
  <2>12. PrevField(Rd(m, b + 12)) \subseteq Words
    BY <1>6, <1>7, PrevIn DEF Rd
  <2> QED BY <2>9, <2>10, <2>11, <2>12
<1>17. KfreeTouches(b) =
         UNION {Fields(b), {tail(b, Rd(mem, b + 4))},
                IF n # 0 /\ InHeap(n) THEN Fields(n) ELSE {},
                IF Absorbs(mem, n)
                THEN {tail(b, Merged(mem, b, n))} \cup PrevField(Rd(mem, n + 12)) ELSE {},
                IF p # 0 /\ InHeap(p) THEN Fields(p) ELSE {},
                IF Absorbs(m, p)
                THEN {tail(p, Merged(m, p, b))} \cup PrevField(Rd(m, b + 12)) ELSE {}}
  BY <1>3, <1>5, <1>9, <1>10 DEF KfreeTouches
<1> QED BY <1>2, <1>11, <1>12, <1>13, <1>14, <1>15, <1>16, <1>17

(* No call follows a pointer out of the window, which would be a page      *)
(* fault: neither the walks, nor the split, nor the two merges of kfree,   *)
(* not even the one that first overruns another block.                     *)
THEOREM HeapStaysInWindow == HeapSpec => []NoWildAccess
<1>1. HeapInv => NoWildAccess
  <2> SUFFICES ASSUME HeapInv, Sound, NEW B, Good(B) PROVE NoWildAccess
    BY InvIsGood DEF NoWildAccess
  <2>1. op = "search" => SearchTouches(current, aligned(want)) \subseteq Words
    BY SearchIn
  <2>2. op = "scan" => Fields(current) \subseteq Words
    BY FieldsIn DEF Good, Walking
  <2>3. op = "idle" => \A l \in live : KfreeTouches(l.ptr - HEADER) \subseteq Words
    BY KfreeIn
  <2> QED BY <2>1, <2>2, <2>3 DEF NoWildAccess
<1> QED BY <1>1, HeapWellFormed, PTL
=============================================================================
