SPECIFICATION Spec
CONSTANTS
    Staged = {"data", "task"}
    Made = {"answer"}
    Diagnostics = {"task", "answer"}
    Limit = 2
    Continuations = 1
    JobFaults = 1
    Crashes = 2
    None = None
    Torn = Torn
INVARIANTS
    PublishedIsCurrent
PROPERTIES
    PublicationSurvives
CHECK_DEADLOCK FALSE
