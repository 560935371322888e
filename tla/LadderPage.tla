----------------------------- MODULE LadderPage -----------------------------
(***************************************************************************)
(* The ranked ladder page of the experimental frontend (the script in      *)
(* experimental_frontend/__init__.py): the list of players, which the user *)
(* pages and searches, and the loop that follows a ladder fetch.           *)
(*                                                                         *)
(* Requests for the list may be in flight together and are answered in any *)
(* order.  requestSequence tells an answer whether its request is still    *)
(* the newest one: that is what is kept of the numbers.  The list of match *)
(* ids, which is loaded after the players, is left out.                    *)
(***************************************************************************)
EXTENDS Naturals

CONSTANTS
    Queries,     \* what tier, division, page and search ask for
    Pages,       \* the pages of players of a ladder
    MaxEvents    \* bound: acts of the user and requests that fail

VARIABLES
    query,      \* what the controls hold
    offset,     \* ladderPlayerOffset, in pages
    debounce,   \* ladderSearchTimer is set
    loads,      \* requests for the list: the newest, their parameters and answers
    shown,      \* the list on the page: the parameters and the version it has
    fetch,      \* the ladder fetch: its step, its ticks, fetch.disabled
    server,     \* status of the job, and how many succeeded: the version
    events,     \* how many of those happened
    last        \* history: the parameters of the newest request, and whether
                \* it or the fetch failed

vars == <<query, offset, debounce, loads, shown, fetch, server, events, last>>
controls == <<query, offset, debounce>>
list == <<loads, shown, last>>

Asked(q, o) == [query |-> q, offset |-> o]

Init ==
    /\ query \in Queries
    /\ offset = 0
    /\ debounce = FALSE
    /\ loads = {}
    /\ shown = [asked |-> Asked(query, 0), version |-> 0]
    /\ fetch = [pc |-> "off", ticks |-> 0, disabled |-> FALSE, broken |-> FALSE]
    /\ server = [job |-> "none", version |-> 0]
    /\ events = 0
    /\ last = [asked |-> Asked(query, 0), failed |-> FALSE]

Happens == events < MaxEvents /\ events' = events + 1

-----------------------------------------------------------------------------
(* loadLadderPlayers.                                                      *)

Load(q, o, by) ==
    /\ loads' = {[l EXCEPT !.newest = FALSE] : l \in loads} \cup
          {[newest |-> TRUE, by |-> by, asked |-> Asked(q, o), version |-> {}]}
    /\ last' = [last EXCEPT !.asked = Asked(q, o), !.failed = FALSE]
    /\ UNCHANGED shown

\* The server lists the stored players.
ServerLists(l) ==
    /\ l \in loads
    /\ l.version = {}
    /\ loads' = (loads \ {l}) \cup {[l EXCEPT !.version = {server.version}]}
    /\ UNCHANGED <<controls, shown, fetch, server, events, last>>

\* The fetch waits for the list it asked for, and ends with the last one.
FetchGoesOn(l) ==
    fetch' = IF l.by = "user" THEN fetch
             ELSE IF fetch.pc = "last" THEN [fetch EXCEPT !.pc = "off", !.disabled = FALSE]
             ELSE [fetch EXCEPT !.pc = "timer"]

Show(l, version) == shown' = [asked |-> l.asked, version |-> version]

\* variant: an answer is shown whatever was asked since
AnsweredAnyway(l) ==
    /\ l \in loads
    /\ \E version \in l.version : Show(l, version)
    /\ loads' = loads \ {l}
    /\ FetchGoesOn(l)
    /\ UNCHANGED <<controls, server, events, last>>

ListAnswered(l) ==
    /\ l \in loads
    /\ \E version \in l.version :
          IF l.newest THEN Show(l, version) ELSE UNCHANGED shown
    /\ loads' = loads \ {l}
    /\ FetchGoesOn(l)
    /\ UNCHANGED <<controls, server, events, last>>

FetchStops == fetch' = [fetch EXCEPT !.pc = "off", !.disabled = FALSE, !.broken = TRUE]

\* The message tells; a fetch that asked for the list is no longer followed.
ListFails(l) ==
    /\ l \in loads
    /\ Happens
    /\ loads' = loads \ {l}
    /\ last' = [last EXCEPT !.failed = @ \/ l.newest]
    /\ IF l.by = "fetch" THEN FetchStops ELSE UNCHANGED fetch
    /\ UNCHANGED <<controls, shown, server>>

-----------------------------------------------------------------------------
(* The controls of the list.                                               *)

LoadAt(o) ==
    /\ Happens
    /\ offset' = o
    /\ Load(query, o, "user")
    /\ UNCHANGED <<query, debounce, fetch, server>>

\* Load, and another page size.
ClickLoad == LoadAt(0)

\* The buttons are enabled by the list on the page, which may be an old one.
ClickNext == shown.asked.offset + 1 < Pages /\ LoadAt(offset + 1)

ClickPrevious == shown.asked.offset > 0 /\ LoadAt(IF offset = 0 THEN 0 ELSE offset - 1)

Search(q) ==
    /\ Happens
    /\ query' = q
    /\ offset' = 0
    /\ debounce' = TRUE
    /\ UNCHANGED <<list, fetch, server>>

SearchTimer ==
    /\ debounce
    /\ debounce' = FALSE
    /\ Load(query, offset, "user")
    /\ UNCHANGED <<query, offset, fetch, server, events>>

-----------------------------------------------------------------------------
(* fetchLadderPlayers and monitorLadderJob.                                *)

FetchGoto(pc) == fetch' = [fetch EXCEPT !.pc = pc]

\* Bound: a job that is no longer followed is waited for.
ClickFetch ==
    /\ ~fetch.disabled
    /\ fetch.pc = "off"
    /\ server.job # "active"
    /\ Happens
    /\ fetch' = [pc |-> "post", ticks |-> 0, disabled |-> TRUE, broken |-> FALSE]
    /\ UNCHANGED <<controls, list, server>>

Post ==
    /\ fetch.pc = "post"
    /\ server' = [server EXCEPT !.job = "active"]
    /\ FetchGoto("timer")
    /\ UNCHANGED <<controls, list, events>>

MonitorTimer ==
    /\ fetch.pc = "timer"
    /\ FetchGoto("status")
    /\ UNCHANGED <<controls, list, server, events>>

\* POST or GET /jobs/{job_id} fails.
FetchFails ==
    /\ fetch.pc \in {"post", "status"}
    /\ Happens
    /\ FetchStops
    /\ UNCHANGED <<controls, list, server>>

\* variant: the button waits for the end of the job only
StatusForgetsFailure ==
    /\ fetch.pc = "status"
    /\ \/ server.job # "succeeded" /\ FetchGoto("timer") /\ UNCHANGED list
       \/ server.job = "succeeded" /\ FetchGoto("last") /\ Load(query, offset, "fetch")
    /\ UNCHANGED <<controls, server, events>>

\* GET /jobs/{job_id}: every third time the list is loaded, unless the job is
\* still queued, and at the end.
Status ==
    /\ fetch.pc = "status"
    /\ \/ server.job = "active"
          /\ fetch' = [fetch EXCEPT !.pc = "timer", !.ticks = (@ + 1) % 3]
          /\ UNCHANGED list
       \/ server.job = "active" /\ fetch.ticks = 2
          /\ fetch' = [fetch EXCEPT !.pc = "list", !.ticks = 0]
          /\ Load(query, offset, "fetch")
       \/ server.job = "succeeded" /\ FetchGoto("last") /\ Load(query, offset, "fetch")
       \/ server.job = "failed" /\ FetchStops /\ UNCHANGED list
    /\ UNCHANGED <<controls, server, events>>

\* The target is replaced when the job succeeds.
JobEnds ==
    /\ server.job = "active"
    /\ \/ server' = [job |-> "succeeded", version |-> server.version + 1]
       \/ server' = [server EXCEPT !.job = "failed"]
    /\ UNCHANGED <<controls, list, fetch, events>>

Step ==
    \/ \E l \in loads : ServerLists(l) \/ ListAnswered(l)
    \/ SearchTimer \/ Post \/ MonitorTimer \/ Status

User ==
    \/ ClickLoad \/ ClickNext \/ ClickPrevious \/ ClickFetch
    \/ \E q \in Queries : Search(q)

Next ==
    \/ Step \/ JobEnds \/ User
    \/ FetchFails \/ \E l \in loads : ListFails(l)

\* The requests are answered, the timers fire, and the queue ends the job.
Fairness ==
    /\ \A by \in {"user", "fetch"} :
          WF_vars(\E l \in loads : l.by = by /\ (ServerLists(l) \/ ListAnswered(l)))
    /\ WF_vars(SearchTimer) /\ WF_vars(Post \/ MonitorTimer \/ Status) /\ WF_vars(JobEnds)

Spec == Init /\ [][Next]_vars /\ Fairness

-----------------------------------------------------------------------------
(* Properties.                                                             *)

TypeOK ==
    /\ query \in Queries /\ offset \in Nat /\ debounce \in BOOLEAN
    /\ loads \subseteq
          [newest : BOOLEAN, by : {"user", "fetch"}, version : SUBSET (0 .. server.version),
           asked : [query : Queries, offset : Nat]]
    /\ shown \in [asked : [query : Queries, offset : Nat], version : Nat]
    /\ fetch \in [pc : {"off", "post", "timer", "status", "list", "last"}, ticks : 0 .. 2,
                  disabled : BOOLEAN, broken : BOOLEAN]
    /\ server \in [job : {"none", "active", "succeeded", "failed"}, version : Nat]
    /\ events \in 0 .. MaxEvents
    /\ last \in [asked : [query : Queries, offset : Nat], failed : BOOLEAN]

\* Once all requests are answered, the list on the page is what was asked for
\* last, at the offset the next click counts from, however the answers
\* overtook one another; and once a fetch ended well it is the new ladder,
\* even if a search or a click superseded the fetch's own request.
ListCurrent ==
    loads = {} /\ ~last.failed =>
        /\ shown.asked = last.asked
        /\ ~debounce => shown.asked.offset = offset
        /\ fetch.pc = "off" /\ ~fetch.broken => shown.version = server.version

\* The button that starts a fetch is disabled while one is followed, and is
\* enabled again whatever fails.
FetchReenabled == fetch.disabled ~> ~fetch.disabled

=============================================================================
