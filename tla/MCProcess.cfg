\* Isolation of the terminals and progress.  One slot more than root shells, so
\* that the table is full and its last slot is used again and again by children of
\* different terminals.  An exception stops the machine, so deadlock is no error.
CONSTANTS
    PROCESS_MAX = 4
    Statuses = {255}
    ExitRoots = {0}
    PreemptHalt = {"closing"}
    BootCommands = FALSE
    Exceptions = TRUE
SPECIFICATION FairSpec
INVARIANTS TypeOK PcbExclusive NoSlotLost RunsOnOwnMemory ParentIsCaller FramesIntact
PROPERTIES EveryTerminalRuns HaltCompletes ReturnsToCaller
CHECK_DEADLOCK FALSE
