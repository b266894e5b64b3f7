SPECIFICATION FairSpec
CONSTANTS
    None = None
    Torn = Torn
    MaxRev = 3
    Size <- Growing
    MaxRequests = 1
    ClaimOrder <- Claims
    ControllerStops = 1
    ClientStops = 1
INVARIANTS
    ArchiveIsSnapshot
PROPERTIES
    NothingIsForgotten
    RetiresOnlyArchived
    EveryCommandEnds
CHECK_DEADLOCK FALSE
