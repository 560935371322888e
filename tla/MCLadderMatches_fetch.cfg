\* Two attempts at a target, one of which goes on to the matches.
SPECIFICATION BoundSpec
CONSTANTS
    p = p
    q = q
    Players = {p, q}
    Jobs = {first, second}
    Former = former
    Ladders <- SomeLadders
    MaxAge = 1
    CacheAge = 0
    MaxTime = 2
    MaxEvents = 2
    MatchJob = first
    MaxMatches = 3
    FirstMatches = 2
    Participants <- AllAndOdd
    PageSize = 2
    Passes = 1
INVARIANTS
    PublishedNameRecent
    TargetWhole
    ScanComplete
    FoundIsKept
PROPERTY LadderFetchEnds
CHECK_DEADLOCK FALSE
