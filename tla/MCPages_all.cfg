\* Each part on its own: a profile page, a ladder page, two operators who share
\* the window of the token (a second is two time units), and three calls to
\* Riot under scarce budget.
SPECIFICATION PartsSpec
CONSTANTS
    Buttons = {list}
    PageEvents = 2
    Queries = {a, b}
    Pages = 2
    LadderEvents = 3
    Hosts = {desk, laptop}
    TokenRequired = TRUE
    Token = token
    Mutations = 2
    Window = 3
    Second = 2
    MaxTime = 9
    Callers = {worker, route, ladder}
    Automatic = {ladder}
    Impatient = {route}
    LastCall = 0
    RiotTime = 15
INVARIANTS
    ListCurrent
    WithinLimit
PROPERTIES
    PageSettles
    FetchReenabled
    RetryAfterSuffices
    EveryCallEnds
CHECK_DEADLOCK FALSE
