CONSTANTS
    Lines = {0, 1, 12}
    TICK_MOD = 1
    SECOND_MOD = 1
    TPS = 1
    KEYBOARD_BUFFER_SIZE = 3
    Char = {1, 2}
    Scancodes = {1, 2, 3, 129}
    keymap <- Keymap
    Breaks = {129}
    NEWLINE = 2
    BootSleeps <- NoSleeps
    CommandSleep = 0
SPECIFICATION Spec
INVARIANTS
    ScancodeHasInterrupt
    InServiceMatches
    NothingMeansLost
PROPERTIES
    KeyQueueRefinement
CHECK_DEADLOCK FALSE
