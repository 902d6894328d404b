\* Lines are entered while an earlier one is still unread.
CONSTANTS
    Terminals = {0, 1}
    Chars = {"a", "b"}
    MAX_BUF_LENGTH = 3
    MAX_NUM_COMMANDS = 6
    NBytes = {3}
    TypeAhead = TRUE
SPECIFICATION Spec
PROPERTIES ReadsOwnLine
CHECK_DEADLOCK FALSE
