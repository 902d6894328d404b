\* The first shell of terminal 1 is left too.
CONSTANTS
    PROCESS_MAX = 5
    Statuses = {0}
    ExitRoots = {0, 1}
    PreemptHalt = {}
    BootCommands = FALSE
    Exceptions = FALSE
SPECIFICATION Spec
INVARIANT OwnProcess
