SPECIFICATION Spec
CONSTANTS
    FINSH_CMD_SIZE = 4
    FINSH_HISTORY_LINES = 2
    LongLines = FALSE
    Glyph = {"a", "b"}
CONSTANT Commands <- MCCommands
INVARIANT TypeOK
PROPERTY ImplementsLine
