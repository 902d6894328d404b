\* A key comes while the program of a terminal runs.
CONSTANTS
    NUM_OF_TERMINAL = 2
    Keys = {38}
    QueueLength = 2
    KeysAtBoot = FALSE
    Watched = {0}
SPECIFICATION Spec
PROPERTIES ResumesAsInterrupted
