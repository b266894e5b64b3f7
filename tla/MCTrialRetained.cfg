SPECIFICATION Spec
CONSTANTS
    NumTrials = 1
    MaxParallel = 1
    MaxRestarts = 1
    MaxContinuations = 1
    Retain = TRUE
    Faults = {"rejection", "overdue", "job_loss", "storage_loss", "configuration"}
    AssessIncomplete = TRUE
    PauseStatuses = {"paused_backend_connectivity"}
    SubmissionMax = 2
    CollectionMax = 2
    PublicationMax = 2
INVARIANTS
    OneLiveJob
    LiveJobTracked
    EvidenceIsFinal
PROPERTIES
    LaunchIsPersisted
    OutcomeIsFinal
    KeepsCustody
