\* Three terminals, two of them hidden.  Two rows of one cell: a row is left, and
\* the screen scrolls, with every second character.  A line of one character: the
\* longest that a screen of this size can take back.  An exception stops the
\* machine, so deadlock is no error.
CONSTANTS
    NUM_OF_TERMINAL = 3
    NUM_ROWS = 2
    NUM_COLS = 1
    MAX_BUF_LENGTH = 2
    Texts <- MCTexts
    Inks = {"a"}
    ClearAnywhere = FALSE
SPECIFICATION Spec
INVARIANTS TypeOK LineOnScreen
PROPERTIES KeepsScreens
CHECK_DEADLOCK FALSE
