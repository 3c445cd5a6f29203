CONSTANTS
    REGS_POINTER = TRUE
    Low = {0, 32}
    Faults = {0, 8, 13}
    WithCode = {8, 13, 14}
    PMM_FAILS = TRUE
SPECIFICATION BootSpec
INVARIANTS
    HandlerSeesInterrupt
CHECK_DEADLOCK FALSE
