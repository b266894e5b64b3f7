SPECIFICATION FairSpec
CONSTANTS
    MaxAttempts = 3
    Timeout = 3
    Finalization = 1
    RetryInitial = 1
    RetryMax = 2
    Resets = {2}
    Grace = 1
    r = r
    Requests = {r}
    Windows = {1, 2}
    None = None
    Faults = {"kill", "signal", "write"}
    MaxPods = 3
    Horizon = 0
INVARIANTS
    AttemptsBounded
    ProviderContained
PROPERTIES
    WaitIsHonoured
    SessionKept
    ResultStands
    EveryRunEnds
CHECK_DEADLOCK FALSE
