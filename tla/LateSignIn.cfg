\* One person, a sign-in beside a change of the password; no break-glass account.
CONSTANTS
    Users = {a}
    BreakGlass = bg
    Tasks = {t1, t2}
    MaxCalls = 4
    MaxSessions = 2
    RolesOverlap = FALSE
SPECIFICATION AccessSpec
INVARIANTS SessionsFollowPassword
CHECK_DEADLOCK FALSE
