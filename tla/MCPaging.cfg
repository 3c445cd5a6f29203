CONSTANTS
    FRAME_SIZE = 4
    BITS = 4
    WORD_SIZE = 1
    U32 = 52
    KERNEL_START = 4
    KERNEL_END = 7
    MemoryMaps <- Maps
    ENTRIES = 7
    DIRS = 3
    HEAP_START = 7
    HEAP_END = 11
    STALE <- StaleEntries
SPECIFICATION PagingSpec
INVARIANTS
    PagingTypeOK
    FramesExclusive
    PanicJustified
    KernelMapped
    NoFrameLeaked
PROPERTIES
    MappingsStable
    OwnershipRefinement
CHECK_DEADLOCK FALSE
