\* A tab on each page, three changes, a cached copy that lives for one tick;
\* two people and the break-glass account, three requests, two at a time.
CONSTANTS
    ClaudeModels = {"claude"}
    OllamaTags = {"qwen"}
    Page <- OneEach
    Urls = {"u"}
    Offered = {"local-only", "anthropic-first"}
    Pinned = {"check"}
    Choices = {"default", "anthropic"}
    Loaders = {"x"}
    EnvKey = FALSE
    Ttl = 1
    MaxChanges = 3
    LoadsStraddle = FALSE
    Users = {"a", "b", "bg"}
    BreakGlass = "bg"
    Tasks = {"t1", "t2"}
    MaxCalls = 3
    MaxSessions = 2
    RolesOverlap = FALSE
SPECIFICATION AdministrationSpec
INVARIANTS SettingsAgree AccountsAreSound SessionsEnd
PROPERTIES NeverLastDemoted ChangesReachAll
CHECK_DEADLOCK FALSE
