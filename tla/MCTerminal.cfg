\* Two terminals suffice to mix lines up; a line of three bytes can be edited,
\* be empty and be full.
CONSTANTS
    Terminals = {0, 1}
    Chars = {"a", "b"}
    MAX_BUF_LENGTH = 3
    MAX_NUM_COMMANDS = 6
    NBytes = {3, 5}
    TypeAhead = FALSE
SPECIFICATION Spec
INVARIANTS TypeOK FlagsMatchBuffer
PROPERTIES ServesLines
