SPECIFICATION FairSpec
CONSTANTS
    first = first
    second = second
    Commands = {first, second}
    MaxTries = 2
    BackupFails = FALSE
INVARIANTS
    OneGenerationPerRequest
    RepliesAreTrue
PROPERTIES
    RequestsSurvive
    EveryRequestDecided
CHECK_DEADLOCK FALSE
