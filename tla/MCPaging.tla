------------------------------ MODULE MCPaging ------------------------------
(***************************************************************************)
(* Small machines for Paging: four address units per frame, four frames    *)
(* per bitmap word, tables of seven entries, so that frames 0 to 6 lie     *)
(* under the identity map.  The kernel is in frame 1, its bitmap spills    *)
(* over into frame 2.  Use and Hold count in frames.                       *)
(***************************************************************************)
EXTENDS Paging

Use(a, l)  == [addr |-> 4 * a, len |-> 4 * l, usable |-> TRUE]
Hold(a, l) == [addr |-> 4 * a, len |-> 4 * l, usable |-> FALSE]

Maps == {
    \* enough memory, frame 0 usable
    {Use(0, 12)},
    \* frame 0 held by the firmware, holes, memory runs out in the window
    {Hold(0, 1), Use(1, 7), Hold(10, 2)},
    \* one free frame after the first table: the table of the window fails
    {Hold(0, 1), Use(1, 4), Hold(6, 2)},
    \* nothing but frame 0 is free
    {Use(0, 3), Hold(7, 1)},
    \* no frame is free at all
    {Use(1, 2), Hold(6, 2)},
    \* the only free frames are above the identity map, or soon are
    {Use(1, 3), Use(6, 6)},
    {Use(1, 2), Use(7, 5)},
    \* the last frames are beyond the last whole word of the bitmap, and the
    \* window needs them
    {Hold(0, 1), Use(1, 9)}
}

\* A frame may hold what looks like an entry for the kernel.
StaleEntries == {NONE, 1}
=============================================================================
