\* A first population that follows a failed one.
SPECIFICATION Spec
CONSTANTS
    Players = {p, q}
    Player = p
    MaxMatches = 4
    Participants <- AllAndOdd
    MaxAttempts = 2
    PageSize = 2
    LadderCount = 1
    Events = {"failure"}
    MaxEvents = 1
INVARIANT InitialComplete
CHECK_DEADLOCK FALSE
