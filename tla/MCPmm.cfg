CONSTANTS
    FRAME_SIZE = 2
    BITS = 4
    WORD_SIZE = 1
    U32 = 32
    KERNEL_START = 8
    KERNEL_END = 11
    MemoryMaps <- Maps
SPECIFICATION PmmSpec
INVARIANTS
    OwnedFramesAreSafe
    NoFrameLost
