SPECIFICATION Spec
CONSTANTS
    NumTrials = 2
    MaxParallel = 1
    MaxRestarts = 1
    MaxContinuations = 0
    Retain = FALSE
    Faults = {}
    AssessIncomplete = FALSE
    PauseStatuses = {"paused_backend_connectivity"}
    SubmissionMax = 1
    CollectionMax = 1
    PublicationMax = 1
INVARIANTS
    WithinParallel
    TerminalIsSettled
PROPERTIES
    EvaluationFirst
