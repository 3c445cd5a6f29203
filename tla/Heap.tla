-------------------------------- MODULE Heap --------------------------------
(***************************************************************************)
(* The kernel heap, src/kernel/mm/heap.c: a doubly linked list of blocks,  *)
(* each a header (magic, size, free, next, prev), the payload and a guard  *)
(* word, in the window from KERNEL_HEAP_START to KERNEL_HEAP_END.          *)
(*                                                                         *)
(* mem is the memory of the window, one entry per 32-bit word, and every   *)
(* field is read from and written to it: a block that overlaps another     *)
(* changes what is read from the other.  Above the window nothing is       *)
(* mapped, and an access is a fatal page fault: kfree takes one when the   *)
(* size it reads sends it there for the guard word.  NoWildAccess says     *)
(* where that cannot happen.                                               *)
(*                                                                         *)
(* Only the main program uses the heap, so that a call is not interrupted  *)
(* by another; the walks over the list are separate steps, so that a walk  *)
(* that does not end shows.  The callers are the file system, which only   *)
(* allocates, and the shell's alloc, free and freelast, which may also     *)
(* free an address again.                                                  *)
(***************************************************************************)
EXTENDS Integers, FiniteSets

CONSTANTS
    HEAP_START,     \* KERNEL_HEAP_START
    HEAP_END,       \* KERNEL_HEAP_END
    HEAP_MAGIC,
    DATA,           \* what callers write to their memory
    U32,            \* number of values of a uint32_t
    Sizes,          \* what callers ask for, in bytes
    MAX_LIVE,       \* bound: blocks that callers hold at a time
    MAX_DEFECTS     \* bound: defects after which there are further calls

NULL == 0
HEADER == 20        \* sizeof(block_header_t)
WORD == 4           \* sizeof(uint32_t)
MIN_BLOCK_SIZE == 8

Words == {a \in HEAP_START .. HEAP_END - 1 : (a - HEAP_START) % WORD = 0}

\* KERNEL_HEAP_START is 0x400000, KERNEL_HEAP_END 0x800000 and HEAP_MAGIC
\* 0xDEADBEEF (vm.h, heap.c).  The shell asks for a positive int, the file
\* system for less.  What a caller writes is text, of which no word is a
\* size that fits in the heap: kfree could not tell such data from a header.
\* Neither a word of text nor HEAP_MAGIC, added to an address, wraps around.
ASSUME HeapAssumption ==
    /\ HEAP_START \in Nat \ {0} /\ HEAP_END \in Nat /\ U32 \in Nat /\ U32 % 8 = 0
    /\ HEAP_START + HEADER + WORD <= HEAP_END
    /\ HEAP_END <= 2 * HEAP_START
    /\ 2 * (HEAP_END + HEADER + WORD) <= U32
    /\ HEAP_MAGIC \in HEAP_END .. U32 - 1 - HEAP_END - HEADER
    /\ DATA \in HEAP_END .. U32 - 1 - HEAP_END - HEADER /\ DATA # HEAP_MAGIC
    /\ Sizes \subseteq 0 .. (U32 \div 2) - 1
    /\ MAX_LIVE \in Nat /\ MAX_DEFECTS \in Nat

VARIABLES
    mem,
    heap_head,
    heap_end,
    op,         \* "idle", "search" in kmalloc, "scan" in kfree, "fault"
    current,    \* the block that the walk has reached
    want,       \* kmalloc: the bytes asked for
    live,       \* what callers hold: [ptr, size, written] (history)
    stale,      \* addresses that were freed and not handed out again (history)
    defects     \* what kfree has done that breaks the list (history)

heap_vars ==
    <<mem, heap_head, heap_end, op, current, want, live, stale, defects>>

heap_start == HEAP_START

\* Fields of the block at b.
magic(b) == b
size(b) == b + 4
free(b) == b + 8
next(b) == b + 12
prev(b) == b + 16

Fields(b) == {magic(b), size(b), free(b), next(b), prev(b)}
payload(b) == b + HEADER
tail(b, s) == (b + HEADER + s) % U32

\* What is read at a.  The bytes at an address that is not aligned belong to
\* two words, and outside the window there is none of the heap's: neither is
\* taken for the guard word.
Rd(m, a) == IF a \in Words THEN m[a] ELSE DATA

\* m after a block is set up: its header, then the guard word after its
\* payload.  A write outside the window changes nothing in it.
Block(m, b, s, f, n, p) ==
    [m EXCEPT ![magic(b)] = HEAP_MAGIC, ![size(b)] = s, ![free(b)] = f,
              ![next(b)] = n, ![prev(b)] = p, ![tail(b, s)] = HEAP_MAGIC]

\* n->prev = b, if there is an n.
SetPrev(m, n, b) == IF n = NULL THEN m ELSE [m EXCEPT ![prev(n)] = b]

\* m after a caller wrote to all of its n bytes at p.
Fill(m, p, n) == [a \in Words |-> IF p <= a /\ a < p + n THEN DATA ELSE m[a]]

HeapInit ==
    /\ mem = [a \in Words |-> 0]
    /\ heap_head = NULL
    /\ heap_end = HEAP_START            \* heap_init
    /\ op = "idle" /\ current = NULL /\ want = 0
    /\ live = {} /\ stale = {} /\ defects = {}
-----------------------------------------------------------------------------
(* kmalloc. *)

aligned(n) == (((n + 7) % U32) \div 8) * 8

\* The size checks before the search.
Refused(n) ==
    \/ n = 0
    \/ aligned(n) < n
    \/ aligned(n) > (HEAP_END - heap_end - HEADER - WORD) % U32

\* kmalloc returns payload(b), m being the memory it leaves.  The caller may
\* write to all of it.
Returns(b, n, m) ==
    \E w \in BOOLEAN :
        /\ mem' = IF w THEN Fill(m, payload(b), n) ELSE m
        /\ live' = live \cup {[ptr |-> payload(b), size |-> n, written |-> w]}
        /\ stale' = stale \ {payload(b)}

ReturnsNull == UNCHANGED <<mem, live, stale>>

Done == op' = "idle" /\ current' = NULL /\ want' = 0

Idle == op = "idle" /\ Cardinality(defects) <= MAX_DEFECTS

Kmalloc(n) == Idle /\ Cardinality(live) < MAX_LIVE

KmallocRefused(n) ==
    /\ Kmalloc(n)
    /\ Refused(n)
    /\ ReturnsNull
    /\ UNCHANGED <<heap_head, heap_end, op, current, want, defects>>

\* The first block: no room is kept for its guard word.
KmallocFirst(n) ==
    LET s == aligned(n)
        new_end == heap_end + HEADER + s IN
    /\ Kmalloc(n)
    /\ ~ Refused(n)
    /\ heap_head = NULL
    /\ IF new_end >= HEAP_END
       THEN ReturnsNull /\ UNCHANGED <<heap_head, heap_end>>
       ELSE /\ Returns(heap_end, n, Block(mem, heap_end, s, 0, NULL, NULL))
            /\ heap_head' = heap_end
            /\ heap_end' = new_end
    /\ UNCHANGED <<op, current, want, defects>>

KmallocSearch(n) ==
    /\ Kmalloc(n)
    /\ ~ Refused(n)
    /\ heap_head # NULL
    /\ op' = "search" /\ current' = heap_head /\ want' = n
    /\ UNCHANGED <<mem, heap_head, heap_end, live, stale, defects>>

Fits(b, s) == Rd(mem, free(b)) # 0 /\ Rd(mem, size(b)) >= s

Splits(b, s) == mem[size(b)] >= s + HEADER + WORD + MIN_BLOCK_SIZE

\* Block b, which is large enough, is cut down to s bytes.
Split_LinkedFirst(b, s) ==
    LET new_block == payload(b) + s
        rest == mem[size(b)] - s - HEADER - WORD
        m == Block(mem, new_block, rest, 1, new_block, b) IN
    [m EXCEPT ![size(b)] = s, ![next(b)] = new_block, ![tail(b, s)] = HEAP_MAGIC]

Split(b, s) ==
    LET new_block == payload(b) + s
        rest == mem[size(b)] - s - HEADER - WORD
        n == mem[next(b)]
        m == SetPrev(Block(mem, new_block, rest, 1, n, b), n, new_block) IN
    [m EXCEPT ![size(b)] = s, ![next(b)] = new_block, ![tail(b, s)] = HEAP_MAGIC]

TakeBlock ==
    LET s == aligned(want)
        m == IF Splits(current, s) THEN Split(current, s) ELSE mem IN
    /\ op = "search"
    /\ Fits(current, s)
    /\ Returns(current, want, [m EXCEPT ![free(current)] = 0])
    /\ Done
    /\ UNCHANGED <<heap_head, heap_end, defects>>

NextBlock ==
    /\ op = "search"
    /\ ~ Fits(current, aligned(want))
    /\ mem[next(current)] # NULL
    /\ current' = mem[next(current)]
    /\ UNCHANGED <<mem, heap_head, heap_end, op, want, live, stale, defects>>

AppendEnd(s) == (heap_end + HEADER + s + WORD) % U32

AppendFits_NoLimit(s) == AppendEnd(s) >= heap_end

AppendFits(s) == AppendEnd(s) >= heap_end /\ AppendEnd(s) < HEAP_END

Append ==
    LET s == aligned(want)
        m == Block(mem, heap_end, s, 0, NULL, current) IN
    /\ op = "search"
    /\ ~ Fits(current, s)
    /\ mem[next(current)] = NULL
    /\ IF AppendFits(s)
       THEN /\ Returns(heap_end, want, [m EXCEPT ![next(current)] = heap_end])
            /\ heap_end' = AppendEnd(s)
       ELSE ReturnsNull /\ UNCHANGED heap_end
    /\ Done
    /\ UNCHANGED <<heap_head, defects>>
-----------------------------------------------------------------------------
(* kfree. *)

InHeap(b) == heap_start <= b /\ b < heap_end

\* The checks of kfree, in order.  The block passes them all and is freed ...
Passes_NoDoubleFree(b) ==
    /\ InHeap(b)
    /\ Rd(mem, magic(b)) = HEAP_MAGIC
    /\ Rd(mem, tail(b, Rd(mem, size(b)))) = HEAP_MAGIC
    /\ mem[size(b)] # 0 /\ (payload(b) + mem[size(b)]) % U32 <= heap_end

Passes(b) ==
    /\ InHeap(b)
    /\ Rd(mem, magic(b)) = HEAP_MAGIC
    /\ Rd(mem, tail(b, Rd(mem, size(b)))) = HEAP_MAGIC
    /\ mem[size(b)] # 0 /\ (payload(b) + mem[size(b)]) % U32 <= heap_end
    /\ mem[free(b)] = 0

\* ... or the read of its guard word, at whatever address the size gives,
\* is above the window, where nothing is mapped ...
Faults(b) ==
    /\ InHeap(b)
    /\ Rd(mem, magic(b)) = HEAP_MAGIC
    /\ tail(b, Rd(mem, size(b))) >= HEAP_END

\* ... or kfree prints a message and returns.
Rejected(b) == ~ Passes(b) /\ ~ Faults(b)

Absorbs_InUse(m, n) == n # NULL /\ InHeap(n)

Absorbs_Unchecked(m, n) == Rd(m, free(n)) # 0

Absorbs(m, n) == n # NULL /\ InHeap(n) /\ Rd(m, free(n)) # 0

Merged(m, b, n) == (Rd(m, size(b)) + HEADER + Rd(m, size(n)) + WORD) % U32

\* Block b absorbs the block after it, if that is free.
MergeNext_NoBackLink(m, b) ==
    LET n == Rd(m, next(b))
        s == Merged(m, b, n) IN
    IF Absorbs(m, n)
    THEN [m EXCEPT ![size(b)] = s, ![next(b)] = Rd(m, next(n)), ![tail(b, s)] = HEAP_MAGIC]
    ELSE m

MergeNext(m, b) ==
    LET n == Rd(m, next(b))
        nn == Rd(m, next(n))
        s == Merged(m, b, n) IN
    IF Absorbs(m, n)
    THEN SetPrev([m EXCEPT ![size(b)] = s, ![next(b)] = nn, ![tail(b, s)] = HEAP_MAGIC],
                 nn, b)
    ELSE m

\* The block before b absorbs it, if that is free.
MergePrev(m, b) ==
    LET p == Rd(m, prev(b))
        n == Rd(m, next(b))
        s == Merged(m, p, b) IN
    IF Absorbs(m, p)
    THEN SetPrev([m EXCEPT ![size(p)] = s, ![tail(p, s)] = HEAP_MAGIC, ![next(p)] = n],
                 n, p)
    ELSE m

Freed(b) == [mem EXCEPT ![free(b)] = 1]

\* In m, block b reaches into the block after it.
Overruns(m, b) == Rd(m, next(b)) # NULL /\ payload(b) + Rd(m, size(b)) > Rd(m, next(b))

Forget(p) ==
    /\ live' = {l \in live : l.ptr # p}
    /\ stale' = stale \cup {p}

Kfree(p) == Idle /\ p \in stale \cup {l.ptr : l \in live}

KfreeRejects(p) ==
    /\ Kfree(p)
    /\ Rejected(p - HEADER)
    /\ Forget(p)
    /\ UNCHANGED <<mem, heap_head, heap_end, op, current, want, defects>>

\* "Unhandled Page Fault": the kernel has stopped.
KfreeFaults(p) ==
    /\ Kfree(p)
    /\ Faults(p - HEADER)
    /\ op' = "fault"
    /\ UNCHANGED <<mem, heap_head, heap_end, current, want, live, stale, defects>>

\* The heap is empty again when its first block is free and the last one.
KfreeFrees(p) ==
    LET b == p - HEADER
        merged == MergeNext(Freed(b), b)
        m == MergePrev(merged, b)
        before == Rd(merged, prev(b)) IN
    /\ Kfree(p)
    /\ Passes(b)
    /\ mem' = m
    /\ Forget(p)
    /\ IF m[free(heap_head)] # 0 /\ m[next(heap_head)] = NULL
       THEN /\ heap_end' = heap_start
            /\ heap_head' = NULL
            /\ UNCHANGED <<op, current>>
       ELSE /\ op' = "scan" /\ current' = heap_head
            /\ UNCHANGED <<heap_head, heap_end>>
    /\ defects' =
          IF Overruns(merged, b) \/ (Absorbs(merged, before) /\ Overruns(m, before))
          THEN defects \cup {"overrun"} ELSE defects
    /\ UNCHANGED want

\* The loop that looks for the last block.
ScanNext ==
    /\ op = "scan"
    /\ mem[next(current)] # NULL
    /\ current' = mem[next(current)]
    /\ UNCHANGED <<mem, heap_head, heap_end, op, want, live, stale, defects>>

\* A last block that is free gives its memory back, and stays in the list.
ScanEnds ==
    /\ op = "scan"
    /\ mem[next(current)] = NULL
    /\ heap_end' = IF mem[free(current)] # 0 THEN current ELSE heap_end
    /\ defects' =
          IF mem[free(current)] # 0 THEN defects \cup {"retracted"} ELSE defects
    /\ Done
    /\ UNCHANGED <<mem, heap_head, live, stale>>

Step ==
    \/ TakeBlock \/ NextBlock \/ Append
    \/ ScanNext \/ ScanEnds

HeapNext ==
    \/ \E n \in Sizes : KmallocRefused(n) \/ KmallocFirst(n) \/ KmallocSearch(n)
    \/ \E p \in stale \cup {l.ptr : l \in live} :
          KfreeRejects(p) \/ KfreeFaults(p) \/ KfreeFrees(p)
    \/ Step

HeapSpec == HeapInit /\ [][HeapNext]_heap_vars /\ WF_heap_vars(Step)
-----------------------------------------------------------------------------
(* heap_validate. *)

MAX_BLOCKS == (HEAP_END - HEAP_START) \div HEADER

\* The k-th block of the list, counted from 0.
Nth[k \in 0 .. MAX_BLOCKS] ==
    IF k = 0 THEN heap_head
    ELSE IF Nth[k - 1] = NULL THEN NULL ELSE Rd(mem, next(Nth[k - 1]))

BlockValid(b) ==
    /\ Fields(b) \subseteq Words
    /\ mem[magic(b)] = HEAP_MAGIC
    /\ mem[next(b)] # NULL => Rd(mem, prev(mem[next(b)])) = b
    /\ InHeap(b)
    /\ (payload(b) + mem[size(b)]) % U32 <= heap_end

\* heap_validate prints "Heap structure valid.".
heap_validate ==
    \E k \in 0 .. MAX_BLOCKS :
        Nth[k] = NULL /\ \A j \in 0 .. k - 1 : BlockValid(Nth[j])
-----------------------------------------------------------------------------
(* Properties.  Two things that kfree does break the heap: it moves        *)
(* heap_end back to a free last block that stays in the list               *)
(* ("retracted"), and, because it counts a guard word for every block      *)
(* although the first block and the first part of a split one have none of *)
(* their own, it may merge blocks into one that reaches into the next      *)
(* ("overrun").  What is claimed below is claimed until one of them        *)
(* happens: nothing else goes wrong.                                       *)

HeapTypeOK ==
    /\ mem \in [Words -> 0 .. U32 - 1]
    /\ heap_head \in {NULL, HEAP_START}
    /\ heap_end \in HEAP_START .. HEAP_END - 1
    /\ op \in {"idle", "search", "scan", "fault"}
    /\ \A l \in live : l.size \in Sizes /\ l.written \in BOOLEAN

Sound == defects = {}

HeaderBytes(l) == l.ptr - HEADER .. l.ptr - 1

CallerBytes(l) == l.ptr .. l.ptr + l.size - 1

Bytes(l) == HeaderBytes(l) \cup CallerBytes(l)

\* No two callers share memory, no caller's memory holds the header of
\* another caller's block, and all of it lies in the window.
LiveDisjoint ==
    /\ \A l \in live : Bytes(l) \subseteq HEAP_START .. HEAP_END - 1
    /\ \A k, l \in live : k # l => Bytes(k) \cap Bytes(l) = {}

(* Callers have their memory to themselves, and what a caller wrote stays  *)
(* as it is: neither the allocator (headers, guard words, merging,         *)
(* splitting) nor another caller writes to memory that is in use.          *)
PayloadIntact ==
    Sound =>
        /\ LiveDisjoint
        /\ \A l \in live : l.written =>
              \A a \in Words \cap CallerBytes(l) : mem[a] = DATA

(* heap_validate finds nothing wrong between two calls: the list ends, is  *)
(* linked both ways, and its blocks lie between heap_start and heap_end.   *)
HeapValidWhileSound == Sound /\ op = "idle" => heap_validate

(* "Heap cycle detected!" (heap.c line 311) is never printed: the list     *)
(* ends, so that the walks of kmalloc and kfree do.                        *)
HeapAcyclic == op = "idle" => \E k \in 0 .. MAX_BLOCKS : Nth[k] = NULL

(* The checks of kfree tell the two kinds of pointers apart: every block   *)
(* that a caller holds passes them, and no address that was freed and not  *)
(* handed out again does, also when it now lies inside another block.      *)
(* (DoubleFreeReported is about how such an address is turned away.)       *)
FreeChecksExact ==
    Sound /\ op = "idle" =>
        /\ \A l \in live : Passes(l.ptr - HEADER)
        /\ \A p \in stale : ~ Passes(p - HEADER)

(* The readme promises "Double-free detection": on a heap in order, kfree  *)
(* of an address that was freed and not handed out again prints a message  *)
(* and returns.  It does not hold: what the address holds by now may be a  *)
(* guard word followed by something else, text or the magic of the next    *)
(* block, which kfree adds to the address before it reads there.           *)
DoubleFreeReported ==
    Sound /\ op = "idle" => \A p \in stale : Rejected(p - HEADER)

(* kfree takes back every block that kmalloc returned, that was not freed  *)
(* and whose caller kept to its memory: it neither reports corruption      *)
(* ("Heap header corrupted!" and the like, heap.c lines 163 to 185) nor    *)
(* faults.  It does not hold: a merge that counts a guard word too many    *)
(* puts its own guard word over the size of the next block.                *)
LiveBlocksAccepted ==
    op = "idle" => \A l \in live : Passes(l.ptr - HEADER)

\* The words that a step of the search, and kfree, read and write.
PrevField(n) == IF n = NULL THEN {} ELSE {prev(n)}

SearchTouches(b, s) ==
    Fields(b) \cup
        IF Fits(b, s) /\ Splits(b, s)
        THEN Fields(payload(b) + s) \cup {tail(b, mem[size(b)] - WORD)}
                \cup PrevField(mem[next(b)])
        ELSE {}

KfreeTouches(b) ==
    LET m == MergeNext(Freed(b), b)
        n == Rd(mem, next(b))
        p == Rd(m, prev(b)) IN
    UNION {Fields(b), {tail(b, Rd(mem, size(b)))},
           IF n # NULL /\ InHeap(n) THEN Fields(n) ELSE {},
           IF Absorbs(mem, n)
           THEN {tail(b, Merged(mem, b, n))} \cup PrevField(Rd(mem, next(n)))
           ELSE {},
           IF p # NULL /\ InHeap(p) THEN Fields(p) ELSE {},
           IF Absorbs(m, p)
           THEN {tail(p, Merged(m, p, b))} \cup PrevField(Rd(m, next(b)))
           ELSE {}}

(* No call follows a pointer out of the heap, but for kfree of an address  *)
(* that its caller does not hold: every word that the walks, the split,    *)
(* the checks and the two merges read or write lies in the window.         *)
NoWildAccess ==
    Sound =>
        /\ op = "search" => SearchTouches(current, aligned(want)) \subseteq Words
        /\ op = "scan" => Fields(current) \subseteq Words
        /\ op = "idle" => \A l \in live : KfreeTouches(l.ptr - HEADER) \subseteq Words

(* Every walk over the list ends: kmalloc and kfree return.                *)
CallsReturn == op \in {"search", "scan"} ~> op = "idle"
=============================================================================
