\* Two processes, one of which may die, share two windows.
SPECIFICATION FairSpec
CONSTANTS
    Callers = {worker, ladder}
    Automatic = {ladder}
    Limits <- TwoLimits
    ReservePercent = 60
    Unlock = 1
    LockTTL = 1
    MaxRetries = 1
    RetryAfter = {1, 2}
    Nobody = nobody
    LastCall = 1
    MaxTime = 16
    MaxDelays = 2
    MaxCrashes = 1
INVARIANTS
    WithinLimits
    SectionExclusive
PROPERTIES
    PauseShared
    EveryCallEnds
CHECK_DEADLOCK FALSE
