CONSTANTS
    TMP = "tmp"
    Args <- Paths
    Texts <- SomeTexts
    SPACE = "_"
    GARBAGE = "?"
    MAX_CHILDREN = 3
    MAX_FDS = 2
    READ_MAX = 3
    MAX_NODES = 5
SPECIFICATION FsSpec
INVARIANTS
    FsTypeOK
    CoveredUnreachable
    TreeSound
    DescriptorsClosed
PROPERTIES
    LookupStable
    FileStoreRefinement
CHECK_DEADLOCK FALSE
