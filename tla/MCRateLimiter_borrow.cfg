\* One window, whose manual share is given away in its last two seconds.
SPECIFICATION Spec
CONSTANTS
    Callers = {worker, ladder}
    Automatic = {ladder}
    Impatient = {}
    Limits <- OneLimit
    ReservePercent = 50
    Unlock = 2
    MaxRetries = 1
    RetryAfter = {}
    LastCall = 7
    MaxTime = 7
    Lag = 1
INVARIANT ReserveBackInTime
CHECK_DEADLOCK FALSE
