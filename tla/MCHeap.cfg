CONSTANTS
    HEAP_START = 160
    HEAP_END = 300
    HEAP_MAGIC = 1003
    DATA = 400
    U32 = 2048
    Sizes = {0, 5, 40, 1023}
    MAX_LIVE = 4
    MAX_DEFECTS = 0
SPECIFICATION HeapSpec
INVARIANTS
    HeapTypeOK
    PayloadIntact
    HeapValidWhileSound
    FreeChecksExact
    NoWildAccess
PROPERTIES
    CallsReturn
CHECK_DEADLOCK FALSE
