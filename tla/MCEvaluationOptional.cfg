SPECIFICATION Spec
CONSTANTS
    Order <- TwoReviews
    Required = {}
    Opted = {"domain"}
    Timeout = 2
    Slack = 1
    StartDelay = 0
    MaxAttempts = 2
    Troubles = {}
    Faults = 0
    Deaths = 0
    None = None
INVARIANTS
    OptionalReviewsMayFail
CHECK_DEADLOCK FALSE
