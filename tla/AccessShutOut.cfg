\* Two people, one request after another; no break-glass account.
CONSTANTS
    Users = {a, b}
    BreakGlass = bg
    Tasks = {t1}
    MaxCalls = 6
    MaxSessions = 2
    RolesOverlap = FALSE
SPECIFICATION AccessSpec
PROPERTIES AccessKept
CHECK_DEADLOCK FALSE
