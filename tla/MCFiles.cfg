\* One descriptor besides stdin and stdout and one slot more than terminals: the
\* table is full, and a slot and an entry are used again.  Reads of two bytes from
\* a file of four in blocks of three start and end anywhere in a block.
CONSTANTS
    Terminals = {0, 1}
    PROCESS_MAX = 3
    FD_MAX = 2
    FILENAME_MAX = 3
    Directory <- MCDirectory
    length_in_b <- MCLength
    data_block_number <- MCBlocks
    block_size = 3
    file_length = 3
    cmd_length = 9
    Commands <- MCCommands
    Names <- MCNames
    NBytes = {2}
    Overlap = FALSE
SPECIFICATION Spec
INVARIANTS TypeOK ReadsInOrder   GetsOwnArgument
  
