\* Attempts that fail or overlap, among ladder ingestions and the manager, while
\* matches are played.
SPECIFICATION FairSpec
CONSTANTS
    Players = {p, q}
    Player = p
    MaxMatches = 2
    Participants <- AllAndOdd
    MaxAttempts = 2
    PageSize = 1
    LadderCount = 1
    Events = {"failure", "rerun", "ladder", "manager"}
    MaxEvents = 2
INVARIANTS
    TypeOK
    ResultsStored
    NewestComplete
PROPERTIES
    EveryFetchEnds
CHECK_DEADLOCK FALSE
