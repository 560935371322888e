------------------------------ MODULE JobTable ------------------------------
(***************************************************************************)
(* The job rows of one Riot ID (jobs/postgres_store.py) and those who list *)
(* them page by page (GET /jobs/status).  A row is created by an insert    *)
(* whose id and created_at were drawn before: rows of different processes  *)
(* may be inserted in another order than their times, and two may have the *)
(* same time.  A profile fetch is refused while another one of the same    *)
(* routes is active.                                                       *)
(*                                                                         *)
(* The life of a row is that of JobQueue with a single process: it only    *)
(* goes forward.                                                           *)
(***************************************************************************)
EXTENDS Naturals, FiniteSets

CONSTANTS
    JobIds,      \* bound: the ids that uuid4 draws, which have an order
    Variants,    \* the routes a profile is fetched with
    ListLimit,   \* limit of a page of GET /jobs/status
    MaxClock     \* bound: when the clock stops

ASSUME TableConstantsOK ==
    /\ JobIds \subseteq Nat /\ IsFiniteSet(JobIds)
    /\ ListLimit \in Nat \ {0} /\ MaxClock \in Nat

VARIABLES
    clock,    \* datetime.now
    rows,     \* the table jobs: a set of rows with different ids
    drafts,   \* rows whose insert has not reached the table yet
    lister    \* who lists the jobs: statuses, cursor, and what was listed

tableVars == <<clock, rows, drafts, lister>>

Active == {"queued", "running"}
Terminal == {"succeeded", "failed"}
Statuses == Active \cup Terminal

RowsOf(ids) ==
    [id : ids, variant : Variants, status : Statuses, created : Nat]

Unlisted == [pc |-> "idle", statuses |-> {}, cursor |-> {}, listed |-> {},
             twice |-> {}, first |-> {}]

TableInit ==
    /\ clock = 0
    /\ rows = {}
    /\ drafts = {}
    /\ lister = Unlisted

IdsOf(rs) == {r.id : r \in rs}

-----------------------------------------------------------------------------
(* Creation and life of a row.                                             *)

Draft(id, variant) ==
    [id |-> id, variant |-> variant, status |-> "queued", created |-> clock]

Unused == JobIds \ (IdsOf(rows) \cup IdsOf(drafts))

\* The unique index of the active key.
Conflict(draft) == \E r \in rows : r.variant = draft.variant /\ r.status \in Active

\* variant: the index is not asked
InsertedAnyway(draft) == rows \cup {draft}

\* insert .. on conflict do nothing.
Inserted(draft) == IF Conflict(draft) THEN rows ELSE rows \cup {draft}

\* A process starts a profile fetch.
Draw(id, variant) ==
    /\ id \in Unused
    /\ drafts' = drafts \cup {Draft(id, variant)}
    /\ UNCHANGED <<clock, rows, lister>>

Insert(draft) ==
    /\ draft \in drafts
    /\ rows' = Inserted(draft)
    /\ drafts' = drafts \ {draft}
    /\ UNCHANGED <<clock, lister>>

Becomes(r, from, to) ==
    /\ r \in rows
    /\ r.status \in from
    /\ rows' = (rows \ {r}) \cup {[r EXCEPT !.status = to]}
    /\ UNCHANGED <<clock, drafts, lister>>

MarkRunning(r) == Becomes(r, {"queued"}, "running")

MarkSucceeded(r) == Becomes(r, {"running"}, "succeeded")

\* The job fails, or the queue is stopped before it is begun.
MarkFailed(r) == Becomes(r, Active, "failed")

ClockTick ==
    /\ clock < MaxClock
    /\ clock' = clock + 1
    /\ UNCHANGED <<rows, drafts, lister>>

-----------------------------------------------------------------------------
(* list_jobs_page: newest first, by created_at and id.                     *)

\* variant: rows of the same time are not told apart
NewerByTime(r, s) == r.created > s.created

Newer(r, s) == r.created > s.created \/ (r.created = s.created /\ r.id > s.id)

\* Behind the cursor, which is the last row of the page before.
Matching(statuses, cursor) ==
    {r \in rows : r.status \in statuses /\ \A c \in cursor : Newer(c, r)}

FirstOf(rs, limit) == {r \in rs : Cardinality({s \in rs : Newer(s, r)}) < limit}

PageOfJobs(statuses, cursor, limit) == FirstOf(Matching(statuses, cursor), limit)

HasMore(statuses, cursor, limit) == Cardinality(Matching(statuses, cursor)) > limit

LastOf(rs) == {r \in rs : \A s \in rs : s = r \/ Newer(s, r)}

\* GET /jobs/status for one page, and again with next_cursor.
ListPage ==
    LET page == PageOfJobs(lister.statuses, lister.cursor, ListLimit)
        more == HasMore(lister.statuses, lister.cursor, ListLimit)
    IN
    /\ lister.pc = "list"
    /\ lister' = [lister EXCEPT
                     !.pc = IF more THEN "list" ELSE "done",
                     !.cursor = IF more THEN LastOf(page) ELSE {},
                     !.listed = @ \cup IdsOf(page),
                     !.twice = @ \cup (lister.listed \cap IdsOf(page))]
    /\ UNCHANGED <<clock, rows, drafts>>

\* A listing of the active jobs (running_only) or of all.
BeginList(statuses) ==
    /\ lister.pc = "idle"
    /\ lister' = [Unlisted EXCEPT !.pc = "list", !.statuses = statuses,
                                  !.first = IdsOf(Matching(statuses, {}))]
    /\ UNCHANGED <<clock, rows, drafts>>

JobStep(r) == MarkRunning(r) \/ MarkSucceeded(r) \/ MarkFailed(r)

DraftsNext ==
    \/ \E id \in JobIds, variant \in Variants : Draw(id, variant)
    \/ \E draft \in drafts : Insert(draft)

RowsNext == DraftsNext \/ \E r \in rows : JobStep(r)

ListingNext ==
    \/ ListPage
    \/ \E statuses \in {Active, Statuses} : BeginList(statuses)

TableNext == ClockTick \/ RowsNext \/ ListingNext

-----------------------------------------------------------------------------
TableTypeOK ==
    /\ clock \in Nat
    /\ rows \cup drafts \subseteq RowsOf(JobIds)
    /\ \A r, s \in rows \cup drafts : r.id = s.id => r = s
    /\ \A r, s \in rows :
          r.variant = s.variant /\ {r.status, s.status} \subseteq Active => r = s
    /\ lister \in [pc : {"idle", "list", "done"}, statuses : SUBSET Statuses,
                   cursor : SUBSET RowsOf(JobIds), listed : SUBSET JobIds,
                   twice : SUBSET JobIds, first : SUBSET JobIds]

\* docs/development.md:178, README.md:278: the pages of a listing follow one
\* another by a cursor.  However many jobs are created, under times that are
\* equal or already behind the cursor, and however many begin or end between
\* two pages, no job is listed twice, and a job that was there at the beginning
\* and still has one of the statuses asked for is listed.
ListedOnce ==
    /\ lister.twice = {}
    /\ lister.pc = "done" =>
          \A r \in rows :
              r.id \in lister.first /\ r.status \in lister.statuses => r.id \in lister.listed

=============================================================================
