\* A process closes the first of two files it has open and halts; the next
\* process in its slot starts.
CONSTANTS
    Terminals = {0}
    PROCESS_MAX = 2
    FD_MAX = 3
    FILENAME_MAX = 3
    Directory <- MCDirectory
    length_in_b <- MCLength
    data_block_number <- MCBlocks
    block_size = 3
    file_length = 3
    cmd_length = 9
    Commands <- MCCommands
    Names <- MCNames
    NBytes = {2}
    Overlap = FALSE
SPECIFICATION Spec
PROPERTY StartsFresh
