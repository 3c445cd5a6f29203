--------------------------- MODULE FrameOwnership ---------------------------
(***************************************************************************)
(* What the memory manager promises about physical frames, in one          *)
(* variable: the boot code classifies every frame once; after that the     *)
(* only thing that can happen to a frame is that a free one is given out,  *)
(* as a page table, as heap memory, or to a fault that ends in a panic.    *)
(* A frame that was given out never changes its use.                       *)
(***************************************************************************)
CONSTANT Frames

VARIABLE owner

Uses == {"table", "heap", "lost"}

Owners == {"unknown", "held", "free"} \cup Uses

OwnershipInit == owner = [f \in Frames |-> "unknown"]

Classify ==
    /\ \A f \in Frames : owner[f] = "unknown"
    /\ owner' \in [Frames -> {"held", "free"}]

GiveOut ==
    /\ owner' \in [Frames -> Owners]
    /\ \A f \in Frames :
          owner'[f] # owner[f] => owner[f] = "free" /\ owner'[f] \in Uses

OwnershipNext == Classify \/ GiveOut

OwnershipSpec == OwnershipInit /\ [][OwnershipNext]_owner
=============================================================================
