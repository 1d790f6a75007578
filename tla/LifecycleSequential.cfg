\* One operator request at a time, every outcome and fallback, two worker crashes.
CONSTANTS
    Statements = {s1}
    MaxRuns = 3
    MaxRequests = 3
    Kinds = {"upload", "cancel", "reextract", "confirm", "delete"}
    Costs = {0}
    Outcomes = {"verified", "periodOnly", "discrepancy", "empty", "permanent", "transient", "ambiguous"}
    Fallbacks = {"ocr", "text"}
    MaxAttempts = 2
    MaxStalled = 1
    MaxCrashes = 2
    SplitWays = 2
    Overlap = FALSE
    LockMayLapse = FALSE
    ApiMayCrash = FALSE
SPECIFICATION Spec
INVARIANTS NeverStranded SettledIsSound FallbacksAreDue
PROPERTIES RetryMatchesFailure
CHECK_DEADLOCK FALSE
