------------------------------ MODULE MCPages ------------------------------
(***************************************************************************)
(* Those who wait for the service, in one run: a behaviour is about one    *)
(* of them, and the others rest where nothing of them has a step to take.  *)
(***************************************************************************)
EXTENDS OperatorLimiter

CONSTANTS
    Buttons, PageEvents,                                  \* ProfilePage
    Queries, Pages, LadderEvents,                         \* LadderPage
    Callers, Automatic, Impatient, LastCall, RiotTime     \* RateLimiter

VARIABLES
    part,
    active, ended, answers, thread, page, locked, events,
    query, offset, debounce, loads, shown, fetch, server, acts, last,
    riotNow, riotWindows, blocked, pc, due, attempts, grants

Page == INSTANCE ProfilePage WITH cache <- answers, MaxEvents <- PageEvents

Ladder == INSTANCE LadderPage WITH events <- acts, MaxEvents <- LadderEvents

\* Two windows of one request each, one of them without an automatic share.
TightLimits == <<[count |-> 1, window |-> 1], [count |-> 1, window |-> 2]>>

Riot == INSTANCE RateLimiter WITH
    Limits <- TightLimits, ReservePercent <- 20, Unlock <- 1, MaxRetries <- 1,
    RetryAfter <- {2}, MaxTime <- RiotTime, Lag <- 1,
    now <- riotNow, windows <- riotWindows

pagePart == <<active, ended, answers, thread, page, locked, events>>
ladderPart == <<query, offset, debounce, loads, shown, fetch, server, acts, last>>
riotPart == <<riotNow, riotWindows, blocked, pc, due, attempts, grants>>

SomeQuery == CHOOSE q \in Queries : TRUE

\* No page was opened.
PageRests ==
    /\ Page!ServerInit
    /\ thread = [t \in Page!Threads |-> Page!Off]
    /\ page = [life |-> "none", timer |-> {}, adrift |-> FALSE]
    /\ locked = FALSE
    /\ events = 0

PartsInit ==
    /\ part \in {"profile", "ladder", "mutations", "riot"}
    /\ IF part = "profile" THEN Page!Init ELSE PageRests /\ answers = "none"
    /\ Ladder!Init
    /\ part # "ladder" => query = SomeQuery
    /\ Init
    /\ Riot!Init

PartsNext ==
    \/ part = "profile" /\ Page!Next /\ UNCHANGED <<ladderPart, vars, riotPart>>
    \/ part = "ladder" /\ Ladder!Next /\ UNCHANGED <<pagePart, vars, riotPart>>
    \/ part = "mutations" /\ Next /\ UNCHANGED <<pagePart, ladderPart, riotPart>>
    \/ part = "riot" /\ Riot!Next /\ UNCHANGED <<pagePart, ladderPart, vars>>

PartsSpec ==
    /\ PartsInit
    /\ [][PartsNext /\ UNCHANGED part]_<<part, pagePart, ladderPart, vars, riotPart>>
    /\ Page!Fairness
    /\ Ladder!Fairness
    /\ WF_riotPart(part = "riot" /\ Riot!Tick)
    /\ WF_riotPart(Riot!CallProgress)

-----------------------------------------------------------------------------
\* PageSettles of ProfilePage: "Refresh in progress" ends.
PageSettles == Page!PageSettles

\* ListCurrent of LadderPage: the list is the one that was asked for last.
ListCurrent == Ladder!ListCurrent

\* FetchReenabled of LadderPage: a fetch can be started again.
FetchReenabled == Ladder!FetchReenabled

\* EveryCallEnds of RateLimiter: under scarce budget and repeated 429 answers
\* every call returns or raises.
EveryCallEnds == Riot!EveryCallEnds

\* The types of all parts.
PartsTypeOK == Page!TypeOK /\ Ladder!TypeOK /\ TypeOK
=============================================================================
