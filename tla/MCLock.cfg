SPECIFICATION FairSpec
CONSTANTS
    Pods = {a, b, c}
    a = a
    b = b
    c = c
    Nobody = Nobody
    Duration = 3
    Interval = 1
    Timeout = 1
    Skew = 1
    Horizon = 8
INVARIANTS
    LeaseIsExclusive
    StaleIsBounded
PROPERTIES
    TakenWhenExpired
    LockIsTaken
