CONSTANTS
    Lines = {0, 1, 12}
    TICK_MOD = 6
    SECOND_MOD = 2
    TPS = 3
    KEYBOARD_BUFFER_SIZE = 2
    Char = {2}
    Scancodes = {2}
    keymap <- Keymap
    Breaks = {}
    NEWLINE = 2
    BootSleeps <- TwoSleeps
    CommandSleep = 4
SPECIFICATION Spec
INVARIANTS
    UptimeExact
PROPERTIES
    SleepNotEarly
    SleepEnds
    InputIsRead
    RequestsAreTaken
CHECK_DEADLOCK FALSE
