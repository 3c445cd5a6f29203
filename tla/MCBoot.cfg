CONSTANTS
    REGS_POINTER = FALSE
    Low = {0}
    Faults = {0, 8, 13}
    WithCode = {8, 13, 14}
    PMM_FAILS = TRUE
SPECIFICATION BootSpec
INVARIANTS
    HandlerSeesInterrupt
    NeverResets
PROPERTIES
    ContextRestored
    PanicIsFinal
    BootCompletes
CHECK_DEADLOCK FALSE
