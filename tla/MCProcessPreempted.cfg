\* The PIT interrupts halt after it has mapped the parent's page.
CONSTANTS
    PROCESS_MAX = 5
    Statuses = {0}
    ExitRoots = {0}
    PreemptHalt = {"paged"}
    BootCommands = FALSE
    Exceptions = FALSE
SPECIFICATION Spec
INVARIANT RunsOnOwnMemory
