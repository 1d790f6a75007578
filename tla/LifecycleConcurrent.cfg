\* Overlapping requests on one statement, one worker crash, dying requests.
CONSTANTS
    Statements = {s1}
    MaxRuns = 2
    MaxRequests = 3
    Kinds = {"upload", "cancel", "reextract", "confirm", "delete"}
    Outcomes = {"discrepancy", "ambiguous"}
    Costs = {1}
    Fallbacks = {"none"}
    MaxAttempts = 2
    MaxStalled = 1
    MaxCrashes = 1
    SplitWays = 2
    Overlap = TRUE
    LockMayLapse = FALSE
    ApiMayCrash = TRUE
SPECIFICATION Spec
INVARIANTS TypeOK OneRunPerStatement LedgerExact
PROPERTIES NoMidRunRevival RowsArriveWithReview ImplementsPromise
CHECK_DEADLOCK FALSE
