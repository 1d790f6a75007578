\* Uploads, re-extractions and splits, one request at a time, under fairness:
\* a parent and its two children share two job executions and one crash.
CONSTANTS
    Statements = {s1, s2, s3}
    MaxRuns = 2
    MaxRequests = 2
    Kinds = {"upload", "reextract", "split"}
    Costs = {0}
    Outcomes = {"verified", "transient"}
    Fallbacks = {"none"}
    MaxAttempts = 2
    MaxStalled = 1
    MaxCrashes = 1
    SplitWays = 2
    Overlap = FALSE
    LockMayLapse = FALSE
    ApiMayCrash = FALSE
SPECIFICATION FairSpec
PROPERTIES Settles
CHECK_DEADLOCK FALSE
