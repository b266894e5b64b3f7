SPECIFICATION FairSpec
CONSTANTS
    Order <- TwoReviews
    Required = {"rubric"}
    Opted = {"domain"}
    Timeout = 1
    Slack = 1
    StartDelay = 3
    MaxAttempts = 2
    Troubles = {"metadata", "evaluator"}
    Faults = 1
    Deaths = 1
    None = None
INVARIANTS
    VerdictIsEarned
PROPERTIES
    NoReviewIsLost
    EveryEvaluationEnds
CHECK_DEADLOCK FALSE
