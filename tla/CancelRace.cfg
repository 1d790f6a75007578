\* A cancel against one run of the worker.
CONSTANTS
    Statements = {s1}
    MaxRuns = 1
    MaxRequests = 2
    Kinds = {"upload", "cancel"}
    Costs = {0}
    Outcomes = {"verified", "transient"}
    Fallbacks = {"none"}
    MaxAttempts = 2
    MaxStalled = 1
    MaxCrashes = 0
    SplitWays = 2
    Overlap = FALSE
    LockMayLapse = FALSE
    ApiMayCrash = FALSE
SPECIFICATION Spec
INVARIANT CancelLeavesNoRows
CHECK_DEADLOCK FALSE
