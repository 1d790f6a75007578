\* One upload whose first run crashes after its commit and is run again.
CONSTANTS
    Statements = {s1}
    MaxRuns = 2
    MaxRequests = 1
    Kinds = {"upload"}
    Costs = {0}
    Outcomes = {"verified", "transient"}
    Fallbacks = {"none"}
    MaxAttempts = 2
    MaxStalled = 1
    MaxCrashes = 1
    SplitWays = 2
    Overlap = FALSE
    LockMayLapse = FALSE
    ApiMayCrash = FALSE
SPECIFICATION Spec
INVARIANT ReviewIsOneRun
CHECK_DEADLOCK FALSE
