------------------------------- MODULE MCPmm -------------------------------
(***************************************************************************)
(* Small memory maps for Pmm: two address units per frame, four frames per *)
(* bitmap word, 32 units of address space.  The kernel occupies frames 4   *)
(* and 5 with its end inside frame 5, so that the bitmap shares a frame    *)
(* with it and spills into the next.                                       *)
(***************************************************************************)
EXTENDS Pmm

Use(a, l)  == [addr |-> a, len |-> l, usable |-> TRUE]
Hold(a, l) == [addr |-> a, len |-> l, usable |-> FALSE]

Maps == {
    \* conventional memory, a hole, memory from the kernel up, firmware that
    \* ends where the address space ends
    {Use(0, 5), Use(8, 16), Hold(28, 4)},
    \* the firmware holds frame 0; two usable regions overlap
    {Hold(0, 2), Use(2, 4), Use(8, 10), Use(12, 12)},
    \* the number of frames is not a multiple of the bits of a word
    {Use(0, 4), Use(8, 14)},
    \* reserved memory is the highest; a region starts inside a frame
    {Use(3, 3), Use(8, 8), Hold(18, 6)},
    \* the same, with frames above the last whole word of the bitmap
    {Use(0, 4), Use(8, 10), Hold(18, 4)},
    \* a region beyond the address space
    {Use(2, 4), Use(8, 16), Use(40, 8)}
}
=============================================================================
