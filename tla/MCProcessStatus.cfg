\* Two terminals halt with different statuses.
CONSTANTS
    PROCESS_MAX = 5
    Statuses = {0, 1}
    ExitRoots = {0}
    PreemptHalt = {"closing"}
    BootCommands = FALSE
    Exceptions = FALSE
SPECIFICATION Spec
PROPERTY ReturnsOwnStatus
