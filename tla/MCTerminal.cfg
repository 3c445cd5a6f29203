CONSTANTS
    VGA_WIDTH = 4
    VGA_HEIGHT = 3
    CONSOLE_BUFFER_SIZE = 7
    MAX_ARGS = 2
    Char = {"a", " "}
    SPACE = " "
    NL = "nl"
    BS = "bs"
    NUL = "nul"
    LOGO <- Logo
    PROMPT <- Prompt
    CLEAR <- Clear
    ECHO <- Echo
    Outputs <- SomeOutputs
SPECIFICATION TermSpec
INVARIANTS
    TermTypeOK
    LineOnScreen
PROPERTIES
    LineEditorRefinement
