\* Two calls to the Riot client and an operator share the cached answers;
\* views and listings read three jobs of a profile that processes insert.
SPECIFICATION StoresSpec
CONSTANTS
    account = account
    summoner = summoner
    other = other
    Callers = {profile, route}
    Operators = {operator}
    Keys = {account, summoner, other}
    TTL <- MixedTTL
    Stale = 1
    None = none
    MaxTime = 4
    MaxWait = 1
    JobIds = {1, 2, 3}
    Variants = {own, other}
    Own = own
    ListLimit = 1
    MaxClock = 1
    ActiveLimit = 1
    TerminalLimit = 2
INVARIANTS
    ServedFresh
    
    ListedOnce
    ViewTrue
PROPERTIES
    PrunedOnWrite
    UsableRowsStay
    OneActiveJob
CHECK_DEADLOCK FALSE
