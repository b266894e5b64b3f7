SPECIFICATION FairSpec
CONSTANTS
    NumTrials = 1
    MaxParallel = 1
    MaxRestarts = 1
    MaxContinuations = 1
    Retain = FALSE
    Faults = {"rejection", "job_loss", "storage_loss"}
    AssessIncomplete = FALSE
    PauseStatuses = {"paused_backend_connectivity"}
    SubmissionMax = 1
    CollectionMax = 1
    PublicationMax = 2
INVARIANTS
    ReleasedAfterPublication
    CompleteIsClean
PROPERTIES
    OnePodPerGeneration
    EveryTrialSettles
    CleanupFinishes
