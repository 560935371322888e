---------------------------- MODULE ProfileView ----------------------------
(***************************************************************************)
(* The composed profile view, GET /profiles/by-riot-id of                  *)
(* routes/profiles.py.  One request reads, one after the other and each in *)
(* a transaction of its own, the active jobs, the ended jobs and the       *)
(* response cache, and makes one lifecycle state of what it has read.      *)
(*                                                                         *)
(* Of the jobs it keeps what the state depends on.  One cache entry stands *)
(* for the account, the summoner and the match ids.  The matches of a      *)
(* view, which no state depends on, and its texts are left out.            *)
(***************************************************************************)
EXTENDS JobTable

CONSTANTS
    Own,            \* the routes that are asked for
    ActiveLimit,    \* active rows a view reads, of all routes
    TerminalLimit   \* ended rows a view reads, of all routes

ASSUME ViewConstantsOK ==
    /\ Own \in Variants
    /\ ActiveLimit \in Nat \ {0} /\ TerminalLimit \in Nat \ {0}

VARIABLES
    cache,    \* status_at of the cached answers: hit, stale or none
    view      \* a request for the view

viewVars == <<tableVars, cache, view>>

StatusesOf(rs) == {r.status : r \in {r \in rs : r.variant = Own}}

Server == INSTANCE ProfileServer WITH
    active <- StatusesOf(rows) \cap Active # {},
    ended  <- StatusesOf(rows) \cap Terminal

(***************************************************************************)
(* A view: the read it is at, the statuses of the jobs it has seen and     *)
(* whether the limit of a read left jobs out, and its state.  History: the *)
(* statuses of the jobs when it began.                                     *)
(***************************************************************************)
NoView == [at |-> "none", seen |-> {}, hidden |-> FALSE, state |-> "none", begun |-> {}]

ViewInit ==
    /\ TableInit
    /\ cache \in {"none", "stale"}
    /\ view = NoView

-----------------------------------------------------------------------------
(* The reads.                                                              *)

BeginView ==
    /\ view.at \in {"none", "answered"}
    /\ view' = [NoView EXCEPT !.at = "first", !.begun = StatusesOf(rows)]
    /\ UNCHANGED <<tableVars, cache>>

\* variant: the ended jobs are read before the active ones
ReadsSwapped == [first |-> Terminal, second |-> Active]

Reads == [first |-> Active, second |-> Terminal]

LimitOf(statuses) == IF statuses = Active THEN ActiveLimit ELSE TerminalLimit

\* The rows are filtered by routes after the statement limited them.
ReadJobs(at, next) ==
    LET statuses == Reads[at]
        page == PageOfJobs(statuses, {}, LimitOf(statuses))
    IN
    /\ view.at = at
    /\ view' = [view EXCEPT !.at = next,
                            !.seen = @ \cup StatusesOf(page),
                            !.hidden = @ \/ HasMore(statuses, {}, LimitOf(statuses))]
    /\ UNCHANGED <<tableVars, cache>>

ReadCache ==
    /\ view.at = "cache"
    /\ \E state \in Server!StatesOf(view.seen \cap Active # {}, view.seen \cap Terminal) :
          view' = [view EXCEPT !.at = "answered", !.state = state]
    /\ UNCHANGED <<tableVars, cache>>

ViewNext == BeginView \/ ReadJobs("first", "second") \/ ReadJobs("second", "cache") \/ ReadCache

-----------------------------------------------------------------------------
(* A running fetch fills the cache, and its entries age.                   *)

FillCache ==
    /\ "running" \in StatusesOf(rows)
    /\ cache # "hit"
    /\ cache' = "hit"
    /\ UNCHANGED <<tableVars, view>>

CacheAges ==
    /\ cache # "none"
    /\ cache' = IF cache = "hit" THEN "stale" ELSE "none"
    /\ UNCHANGED <<tableVars, view>>

CacheNext == FillCache \/ CacheAges

Composed == ViewNext \/ CacheNext \/ (TableNext /\ UNCHANGED <<cache, view>>)

ViewSpec == ViewInit /\ [][Composed]_viewVars

-----------------------------------------------------------------------------
(* Properties.                                                             *)

ViewTypeOK ==
    /\ TableTypeOK
    /\ cache \in {"hit", "stale", "none"}
    /\ view \in [at : {"none", "first", "second", "cache", "answered"},
                 seen : SUBSET Statuses, hidden : BOOLEAN,
                 state : Server!Lifecycles \cup {"none"}, begun : SUBSET Statuses]

\* docs/development.md:130-142: a profile is missing when nothing was populated
\* yet, and is populated for the first time when no job has succeeded.  The
\* jobs are read one statement after the other while they change: still no job
\* that was there when the request began is overlooked, unless the limit of a
\* read left jobs out.
ViewTrue ==
    view.at = "answered" /\ ~view.hidden =>
        /\ view.state = "missing" => view.begun = {}
        /\ view.state \in {"missing", "failed", "populating"} => "succeeded" \notin view.begun

\* The rows of a profile, inserted by processes that draw and insert at
\* different times, are to those who ask what ProfileServer says: one job at a
\* time that is active, ends once and is never active again.
OneActiveJob == [][Server!ServerNext]_(Server!serverVars)

=============================================================================
