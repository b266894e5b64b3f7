SPECIFICATION RepeatingSpec
CONSTANTS
    Order <- Sorted
    Chunks <- TwoChunks
    Retries = 2
    Appended = FALSE
    PlainSubmits = 0
    Faults = 1
    Endless = FALSE
PROPERTIES
    RepeatingSucceeds
CHECK_DEADLOCK FALSE
