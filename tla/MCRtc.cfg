\* Programs that set the lowest and the highest frequency, and two that
\* are refused: one out of range, one in range but no power of two.
CONSTANTS
    NUM_OF_TERMINAL = 2
    Frequencies = {1, 2, 3, 1024}
    PortInterrupts = FALSE
SPECIFICATION Spec
INVARIANTS TypeOK 
PROPERTIES ReadWaits ReadReturns
