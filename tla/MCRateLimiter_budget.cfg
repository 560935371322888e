\* A manual, an impatient and an automatic caller share two windows; the short
\* one is closed to automatic calls until its oldest place is about to expire.
SPECIFICATION Spec
CONSTANTS
    Callers = {worker, route, ladder}
    Automatic = {ladder}
    Impatient = {route}
    Limits <- TwoLimits
    ReservePercent = 60
    Unlock = 1
    MaxRetries = 1
    RetryAfter = {0, 1, 3}
    LastCall = 5
    MaxTime = 5
    Lag = 1
INVARIANTS
    TypeOK
    WindowsComplete
    WithinLimits
    ReserveKept
PROPERTIES
    PauseRespected
CHECK_DEADLOCK FALSE
