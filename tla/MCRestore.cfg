SPECIFICATION FairSpec
CONSTANTS
    Order <- Sorted
    Chunks <- TwoChunks
    Retries = 2
    Appended = TRUE
    PlainSubmits = 1
    Faults = 1
    Endless = TRUE
PROPERTIES
    NothingIsOverwritten
    PreparesWholeCampaigns
    EverySubmissionEnds
CHECK_DEADLOCK FALSE
