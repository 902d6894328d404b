\* Two terminals, and a keyboard that holds two scancodes: Ctrl, L, semicolon, left
\* Shift and Caps Lock.
CONSTANTS
    NUM_OF_TERMINAL = 2
    Keys = {29, 38, 39, 42, 58}
    QueueLength = 2
    KeysAtBoot = FALSE
    Watched = {}
SPECIFICATION Spec
INVARIANTS TypeOK Acknowledged ActsAsMeant
PROPERTIES TurnsGoRound KeysAreRead ClockIsServed
