# league-api-v2 in TLA+

A verification project for the league API: models of its concurrent parts,
TLC runs over small instances of them, and TLAPS proofs for every instance.
The paths below are relative to the repository; `queue.py` and the like are
files of `src/league_api/`.

## 1. The system

The API is a FastAPI process, or several of them, over PostgreSQL and Redis,
both optional. It mirrors Riot's endpoints through a cache and a rate limiter
and runs background jobs that fetch profiles and ladders.

| Component | State it keeps | Operations | Correct when |
|---|---|---|---|
| Job queue, `jobs/queue.py` | two priority queues, the set of enqueued ids, retry tasks, two worker tasks, all in the process | start, recover, enqueue, process, retry, stop | a job is worked on by one worker at a time, is never lost, and ends; stop returns |
| Job lock, `redis/coordinator.py` | a Redis key per job: token, 24 h TTL | acquire (SET NX EX), release (compare and delete), expiry | one owner; an old owner cannot free a new one's lock |
| Job store, `jobs/store.py`, `jobs/postgres_store.py`, `jobs/models.py` | rows: status, progress, partial result, events, wait | create, create-or-get, mark running / succeeded / failed, update, record, list | one active row per profile; queued, running, ended, in that order |
| Lifespan, `main.py` | the wiring of one process | start and recover, then serve, then stop | nothing is served before recovery |
| Local rate limiter, `riot/rate_limiter.py` | a deque of reservations per limit, `_blocked_until` | acquire, try_acquire, pause | never over budget; a pause binds all; the manual share; progress |
| Redis rate limiter, `riot/redis_rate_limiter.py` | the same in sorted sets and keys | the same, with awaits in between | the same across processes |
| Riot client, `riot/client.py` | one call: attempts | cache read, acquire, request, 429 retry, cache write | ends; serves only fresh or stale-permitted data |
| Response cache, `riot/cache.py`, `riot/postgres_cache.py` | entries with two expiries | get, put, delete, prune | never serves what is past `stale_until` |
| Profile fetch, `jobs/profile.py` | pages, seen and known ids, partial result | one job | history complete and linked to stored matches |
| Ladder ingestion, `jobs/ingestion.py` | match ids by player | one job | links refer to stored matches |
| Ladder players, `jobs/ladder_players.py`, `ladders/store.py` | players, failed pages, references | one job, replace target | pages neither lost nor repeated; target replaced as a whole |
| Match store, `matches/store.py`, `matches/references.py` | matches, player links, references | save, link, unlink, delete, list | no link without a match |
| Identities, `players/store.py` | newest observation per player | upsert, get with maximal age | newest wins |
| Routes, `api/routes/*` | none of their own | start jobs, profile view, list jobs, manager | views agree with what they read |
| Operator limiter, `core/auth.py` | a deque per client | admit or refuse | never over budget; Retry-After suffices |
| Experimental frontend, `experimental_frontend/__init__.py` | a script per page: polling loops, timers, a lockout, request numbers | show, poll, refresh, page, search, follow a fetch | a page settles, shows what was asked for last, and its buttons come back |
| Mirror routes, configuration, migrations, scripts | none | | |

How they interact. A POST commits a queued row and then enqueues its id in its
own process. A worker takes the id, reads the row, takes the job's lock,
updates the row, runs the handler, which calls Riot through client and limiter
and writes progress, and ends the row. Processes meet only in the rows, the
locks and, with Redis, the limiter. At its start a process enqueues every
active row, also those a live process is working on; the lock is what keeps
them apart. At its end it cancels its workers, which fail their jobs, and fails
what is left in its queues.

What is hard here: every `await` of the database or of Redis is a point at
which another process acts, the process dies, the task is cancelled or the call
raises; locks outlive their owners; queues do not outlive their process; time
windows slide while callers sleep; transactions at READ COMMITTED wait for one
another; a reader puts together what it read at different times; and answers
reach a page in another order than it asked. `PROJECT.json` lists the hazards
one by one, each with its line and the properties aimed at it.

## 2. Modules

| Module | Models | Uses |
|---|---|---|
| `JobLifecycle` | what a client polling a job may see: the abstract specification of the queue | |
| `JobQueue` | queue, lock, status of the rows, lifespan, for several processes | `JobLifecycle` by refinement |
| `RateLimiter` | the local limiter and the request loop of the client | |
| `RedisRateLimiter` | the limiter that processes share, and the same request loop | |
| `RiotCache` | the cached answers and the transactions on them | |
| `MatchHistory` | match tables, profile fetch, ladder ingestion, manager | |
| `LadderPlayers` | first half of a ladder players job: names and the stored ladder | |
| `LadderMatches` | its second half: pages of match ids, references, details, links | `LadderPlayers` |
| `JobTable` | the rows of a profile's jobs, their insertion, the listing by cursor | |
| `ProfileServer` | what jobs and cache are to one who asks: an abstract specification | |
| `ProfileView` | the composed profile view over rows and cache | `JobTable`; `ProfileServer` by refinement |
| `ProfilePage` | the script of the profile page | `ProfileServer` |
| `LadderPage` | the script of the ladder page | |
| `OperatorLimiter` | the window of operator mutations | |
| `CountingLemmas` | lemmas on how many numbers a set holds, below a bound or above an element | TLAPS |
| `JobQueueProofs`, `RateLimiterProofs`, `RedisRateLimiterProofs`, `MatchHistoryProofs` | theorems about the module of that name | TLAPS, its theorem modules |
| `StoresProofs` | theorems about `RiotCache`, `JobTable` and `ProfileView`, as `MCStores` puts them together | the same |
| `PagesProofs` | theorems about `OperatorLimiter` and `LadderPage` | the same |
| `LadderProofs` | theorems about `LadderPlayers` and `LadderMatches` | the same |
| `MC...` | the constants of the runs; `MCStores` and `MCPages` put independent modules into one run | |

A definition whose comment begins with "variant" is not part of a
specification. It is the definition below it with a plausible bug, kept to show
that a property depends on that definition.

### JobQueue

One action is what a coroutine does between two awaits that suspend it. Taking
the enqueue lock does not suspend, because nothing is awaited under it, and an
uncontended asyncio lock is taken without going through the event loop.

| State | Code |
|---|---|
| `status`, `kind` | the row's status; its job type, or the profile that gives it its `active_key` |
| `lock` | the Redis key: the worker whose token it holds, or `Free` |
| `phase` | lifespan of the process: down, starting (recovery), up (serving), stopping |
| `pending` | ids a coroutine holds and has yet to enqueue: recovery's list, a POST between commit and enqueue |
| `queue`, `enqueued`, `retry` | the two priority queues, `_enqueued_job_ids`, `_retry_tasks` |
| `pc`, `cur`, `seen` | of each worker: the await it is suspended at, its job, the status it read before the lock |
| `faults` | how many faults happened: a bound |

| Actions | Code |
|---|---|
| `Start`, `EnqueuePending`, `Ready` | `start`, `recover_queued_jobs` and the yield of `lifespan` |
| `Submit`, `EnqueuePending` | the POST routes: insert, then `enqueue` |
| `Take`, `Read`, `AcquireFree`, `AcquireTaken`, `MarkRunning`, `HandlerReturns`, `HandlerRaises`, `MarkSucceeded`, `Reread`, `MarkFailed`, `Release`, `Leave` | `_run` and `_process_job`, await by await |
| `RetryEnqueue` | `_retry_enqueue` |
| `Stop`, `FailQueued`, `Stopped` | `stop`, `_fail_queued_jobs`, the end of the process |
| `Crash`, `LockExpires` | a process dies; a TTL passes |
| `SubmitRaises`, `LookupRaises`, `UpdateRaises`, `MarkFailedRaises`, `ReleaseRaises`, `FailQueuedRaises` | a database or Redis call raises, before or after it took effect |

Abstractions. The handlers are one await that returns or raises; their work is
the subject of other modules. Cancellation reaches a worker where it is
suspended: a command in flight may have been executed or not, which is a choice
of `Stop`. Priorities order a queue as in the code; the three levels of the
code that a request can reach are kept. A request that finds an active row of
its profile changes nothing and is a stutter. `Stop` waits until no POST is
between its two awaits, as the server finishes its requests before the lifespan
ends. The in-memory lock and store are the case of one process.

### RateLimiter

`_reserve_or_delay` does not await, so it is one step for all windows. Time is a
counter of ticks. `grants` is a history variable, the list of all reservations
ever made, against which the deques are judged. A caller's `pc` is its place in
`_get_json`: idle, asking, asleep in `acquire` ("waiting") or after a 429
("throttled"), sent. `Tick` does not pass a caller that is due by more than
`Lag`: how late the event loop may be is bounded in the model, and no property
needs it to be zero. `AskGranted` reserves, `AskDelayed` and `AskBlocked` sleep
or, for `wait_for_rate_limit=False`, raise, `AskHopeless` is the configuration
error of an automatic call that no window would ever admit. The actions of the
client are `Request`, `Answer` (any end but a 429), `Throttled` and `Exceeded`.
`Retry-After` is a delay from a small set, its buffer included; zero means that
no pause is made.

### RedisRateLimiter

Here every command is awaited, so one action is one command (the commands on one
window together are one step). Between any two of them other processes act, time
passes or the process dies.

| State | Code |
|---|---|
| `lock`, `blocked`, `windows` | the keys `lock`, `blocked-until` and `window:i` with their times to live; a window is the set of its members, a score and an audience |
| `call[c]` | the place of a process in `_get_json`, `acquire` and `_reserve_or_delay`, with the locals `reading` (the clock read before the lock), `until`, the `window` of the loop, the pause `seen`, `attempts` |
| `grants` | history: reservations that count, with the reading that scored them and the instant of their release |
| `raced` | history: callers whose pause was overwritten by one that had not seen it |
| `delays`, `crashes` | bounds: time that passes inside a call, processes that die |

| Actions | Code |
|---|---|
| `Ask`, `Lock`, `CheckBlocked`, `Scan`, `Reserve`, `Release`, `ReleaseLost` | `acquire` and `_reserve_or_delay`, command by command |
| `Answer`, `Throttled`, `SetPause`, `Exceeded` | the client's loop, and `pause_for_retry_after`, whose get and set are two steps |
| `Crash`, `Expire` in `Tick` | a process dies; Redis deletes keys whose time is over |

What the model shows of the design. A reservation is scored with a clock read
before the lock, so the budget holds between the earliest reading and the latest
grant of any set of reservations, not between grants: a request may be sent as
late after its score as the lock was waited for. Two reservations with the same
reading and audience are one member and take one place, and one whose lock
expired before it wrote is made beside another; what the budget says excludes
both, by the local `counts`. A pause that is read and written
unlocked can replace a longer one (`raced`). A call that waits with `try_acquire`
returns where one of `acquire` sleeps, which is what `Crash` does to a sleeping
call. The processes share a clock: `time.monotonic()` is only comparable within
one host.

### RiotCache

| State | Code |
|---|---|
| `entries` | `riot_response_cache`: per key the payload, which is the instant Riot made it, and `fetched_at` |
| `call[c]` | a coroutine in `_get_json`, or a manager request: its place, key, payload, stamp, and the rows `gone` that its transaction deleted and has locked |

| Actions | Code |
|---|---|
| `Lookup`, `Bypass`, `Answered`, `RiotFails`, `Stamp` | `_get_json` around the request, `put` until its transaction |
| `PruneRow`, `PruneEnds`, `Put`, `PutAborted` | the transaction of `put`: the delete row by row, the upsert, the abort of a deadlock |
| `DeleteCached`, `Delete`, `PruneExpired` | the manager's deletions |
| `Fail` | a call raises, is cancelled or its process dies; the transaction is rolled back |

Keys are model values, each with its TTL; a TTL of zero stores nothing. A
statement sees committed rows, and waits for a row that another transaction has
deleted. Two puts whose own rows both expired delete each other's and then wait
for each other, because neither deletes its own; more transactions can wait in a
longer cycle. PostgreSQL aborts one of a cycle of any length (`Deadlocked`), and
the client logs it and returns the live answer. `UsableRowsAreFree` says that only
rows which nobody could be served are waited for. A later commit wins also when its
answer is the older one, and a put that is under way restores a row an operator
deletes; neither serves anything beyond the windows.

### MatchHistory

One action is one request to Riot or one statement on the database. Matches are
numbered in the order in which they are played. Riot's list and the store's
history of a player are both sorted newest first, so a page and a history are
sets, and a place in a page is a matter of counting.

| State | Code |
|---|---|
| `played` | how many matches exist at Riot; `Participants` says whose they are |
| `stored`, `links` | the rows of `riot_matches` and, by player, of `player_matches` |
| `fetch[a]` | locals of an attempt at the profile fetch: `pc`, the `history` it read, `seen`, `start`, the matches of the page left `todo`, those `absent` from the store, and whether the page is the `last` |
| `ladder` | locals of the ladder ingestion: `pc`, the players left to ask or to link, their lists, the matches to fetch |
| `manager` | the link that `fetch_matches` makes after its save |
| `base`, `removed`, `events` | history: matches played when an attempt began, links the manager deleted, disturbances so far (a bound) |

| Actions | Code |
|---|---|
| `Begin`, `FetchPage`, `LookUp`, `FetchMatch`, `LinkMatch`, `LinkRefused`, `EndPage`, `Fail` | the loop of `run_profile_fetch`, its store calls and its errors |
| `LadderBegin`, `AskIds`, `LadderLookUp`, `LadderFetchMatch`, `LadderDetailsDone`, `LadderLink`, `LadderEnd`, `LadderFail` | `ingest_ladder_matches`: all ids, all details, all links |
| `ManagerSave`, `ManagerLink`, `UnlinkPlayerMatch`, `DeleteMatch` | the manager's routes on matches |
| `Play` | a match is played: every page behind it shifts |

Abstractions. A second attempt runs beside the first only where `JobQueue` lets
it (a lock lost, event "rerun"); attempts begin in a fixed order, which loses
nothing because they are alike. There is one ladder ingestion, which asks and
links its players in any order, and one manager request at a time. The ladder's
id list may be as old as the response cache holds it. The store is PostgreSQL:
the foreign key refuses the whole statement. The store in memory has no such
key; `LinkableInMemory` is the variant that shows what the key is needed for.
No route sets `match_count` or `match_ids` of a profile fetch
(`api/routes/profiles.py:238`, `262`), so its loop has no other bound than the
end of the list. Identities, progress and the matches' contents are left out.

### LadderPlayers and LadderMatches

| State | Code |
|---|---|
| `identities` | `player_identities`: `observed_at`, and when the name was true |
| `target` | `ranked_ladder_players` of one target: player, writer, name |
| `job[j]` | an attempt: the await it is at, players left, rows made so far, the rows its transaction means to delete and has locked |
| `played`, `pages` | Riot's matches, and the pages of match ids in the response cache |
| `references`, `stored`, `links` | `player_match_references`, `riot_matches`, `player_matches` |
| `scan` | locals of `_discover_and_fetch_matches`: pages to begin with, pages that failed, the pass, ids found, details left, the two kinds of errors |
| `removed`, `missed` | history: links the manager deleted; players for whom a page was older than the page before it |

| Actions | Code |
|---|---|
| `Begin`, `AskLadder`, `Reuse`, `AskAccount`, `AccountAnswered`, `IdentitySaved`, `AccountRaises`, `UpsertRaises` | the players of a ladder and their names |
| `Delete`, `Unblocked`, `Insert`, `InsertRefused`, `Commit` | `replace_target` as a transaction over the unique index |
| `BeginScan`, `NextPlayer`, `ReadPage`, `PageRaises`, `PassEnds` | pages and deferred passes |
| `SaveReferences`, `LookUp`, `SaveDetail`, `DetailRaises`, `Hydrate`, `HydrateRaises`, `DetailsDone`, `Link`, `LinkRefused`, `LinksDone` | references, details, names, links |
| `Fail`, `FailScan`, `RouteObserves`, `OthersFetchPage`, `OthersSave`, `DeleteMatch`, `Play` | failures, and what other requests and Riot do |

A Riot ID is represented by the instant at which it was true, so that "recent"
can be said of it. Rows of one insert go in together: deadlocks from their order
are left out. Two ladders of one target are assumed to have a player in common
(`LaddersMeet`); else two first fetches could both commit, one beside the other.
A page may come from the response cache, which the scan does not bypass although
profile fetches fill it: when a cached page is older than the page before it, a
match that moved between them is not seen. The model has such pages, and
`missed` names the players to whom it happened.

### JobTable, ProfileServer, ProfileView

`JobTable` has the rows of one profile as a set, the inserts under way with the
ids and times drawn before them, and a listing: `ListPage` is one request with
its cursor. A row's life is that of `JobQueue` with one process, forward only;
its repetition after a lost lock is `JobQueue`'s subject. `ProfileServer` says
what this is to one who asks: a job is active or none is, jobs ended in these
ways, answers are cached or stale or absent. `ProfileView` adds the request for
the composed view (`BeginView`, `ReadJobs` for the active and then the ended
jobs, `ReadCache`), each read in a transaction of its own, and implements
`ProfileServer`. A view can say "refreshing" of a job that ended between the two
reads, and "ready" while a first population runs. Its limits (20 active and 50
ended rows) count rows of all routes, so a job of the asked routes may be
hidden; `hidden` records it and `ViewTrue` says nothing then.

### ProfilePage and LadderPage

A thread is an asynchronous function of a script between two awaits; answers
come in any order and requests may fail. `ProfilePage` has loading and polling
(`boot`), a click on refresh and its loop (`click`), and `Buttons` of the list:
the one for older matches (`ClickMore`), and Fetch, Force, Unlink and the two
Deletes of a match (`ClickMatch`, then `refreshCurrentProfile`). They act on the
page (lifecycle shown, `pollTimer`), the lockout in localStorage and the server,
which is `ProfileServer`: its view is read in two instants as in `ProfileView`.
One loop of clicks is kept: a second click waits for it. The buttons of the list
show the lifecycle of their view without polling, and a poll that fails is not
repeated. `adrift` marks a page where this happened with no loop left to
follow: there "Refresh in progress" stays until the page is loaded again, which
`PageSettles` leaves out. Where a loop was left, it must end. `LadderPage` has the
controls of the list, requests with their sequence number (only whether it is the
newest is kept), the followed fetch with its ticks, and the server's job. The
matches of the list, which have no sequence number, are left out; a job that is
no longer followed is waited for before the next fetch is begun.

### OperatorLimiter

`require_operator_token` does not await between clock and answer: a request is
one step, `Admit` or `Refuse`. `windows` are `_mutation_windows`, one for the
token or one per host; `admitted` is the history of the admissions, `refusal`
what the last 429 announced. A second is several units of time, since the
announcement is in whole seconds and the clock is not.

## 3. Runs

The largest runs take about two minutes with two workers. Deadlock checking is
off in all of them: a bounded history ends, the system waits for requests.

| Run | Instance | Shows |
|---|---|---|
| `queue_cluster` | 2 processes, 2 jobs (a profile and ladder ingestion), 2 faults among crash, stop and raising calls | `TypeOK`, `LockExclusive`, `UniqueActiveKey`, `QueuedOnce` |
| `queue_recovery` | 2 processes, 2 jobs of one profile, 2 faults among crash, stop and early expiry; fair | `NoOrphan`, `EveryJobEnds`, `StopCompletes` |
| `queue_single` | 1 process, 3 jobs, 1 crash; ladder handlers may never return | `LifecycleSafety` (refinement of `JobLifecycle`), `ProfileJobsEnd` |
| `queue_rerun` | 2 processes, 1 job, no fault | violates `SucceededIsFinal` |
| `limiter_budget` | 3 callers (manual, impatient, automatic), limits 2 per 2 and 3 per 4 with 60 % reserved, unlock time 1, pauses 0, 1, 3, time to 5 | `TypeOK`, `WindowsComplete`, `WithinLimits`, `ReserveKept`, `PauseRespected` |
| `limiter_borrow` | one limit of 4 per 6, half of it manual, unlock time 2 | violates `ReserveBackInTime` |
| `redis_shared` | 2 processes, limits 1 per 1 and 2 per 2 with 60 % reserved, unlock time 1, a lock of 1, 1 retry, pauses 1 and 2, time to 16, 2 delays, 1 crash; fair | `WithinLimits`, `SectionExclusive`, `PauseShared`, `EveryCallEnds` |
| `history_attempts` | 2 players, 2 matches, pages of 1, 2 attempts; 2 disturbances among failure, rerun, ladder ingestion and manager; fair | `TypeOK`, `ResultsStored`, `NewestComplete`, `EveryFetchEnds` |
| `history_initial` | 4 matches, pages of 2, 1 failure | violates `InitialComplete` |
| `stores_readers` | cache: 2 calls, 1 operator, 3 keys with TTL 1, 1 and 0, stale window 1, puts of at most 1, time to 4. Views: 3 jobs, limits 1 and 2. Listings: 3 jobs, pages of 1 | `ServedFresh`, `UsableRowsAreFree`, `PrunedOnWrite`, `UsableRowsStay`; `ViewTrue`, `OneActiveJob` (refinement of `ProfileServer`); `ListedOnce` |
| `ladder_fetch` | 2 players, 2 attempts, 3 matches (2 at first), pages of 2, 1 deferred pass, identities of age 1, 2 failures or writes of others (1 while ladders are replaced); fair | `PublishedNameRecent`, `TargetWhole`, `ScanComplete`, `FoundIsKept`, `LadderFetchEnds` |
| `pages_all` | profile page with one button of the list and 2 events; ladder page with 2 queries, 2 pages, 3 events; 2 operators under one token, 2 mutations per 3, time to 9; 3 calls to Riot with limits 1 per 1 and 1 per 2, time to 15; fair | `PageSettles`; `ListCurrent`, `FetchReenabled`; `WithinLimit`, `RetryAfterSuffices`; `EveryCallEnds` (of `RateLimiter`) |

Runs are few by design: modules that share no state share a run. A behaviour of
`MCStores` or `MCPages` moves one part, chosen at first, while the others rest;
no interleaving is lost, because no part reads what another writes. `MCPages`
instantiates `RateLimiter` with tight limits for liveness, `limiter_budget` has
the wider ones for safety. `MCLadderMatches` divides a ladder job in two: in
"ladders" attempts fetch and replace, in "matches" one attempt whose ladder is
stored goes on. After its transaction an attempt shares with the ladders of
others only the identities, which the matches write; the "ladders" half has that
write too (`OthersSave`).

Why the bounds are enough. Two processes are the least at which rows and locks
are shared, and no step reads more than one other process. Two jobs let a
profile be fetched again while its old row still moves, and let both lanes be
busy; three let a queue hold two, a listing have a middle page, and a limit of
a view hide a job. Two faults let the second hit what the first left behind. In
the limiters the long window spans several short ones, fills, empties and fills
again before the clock ends; where calls must end, none begins after the
stated instant and the clock goes far enough for the last of them, so that the
end of time hides no starving caller. A lock of one unit and two delays let it
expire in the section of a slow or dead owner while another enters. Three keys
let two puts prune each other and a third row; a TTL and a stale window of one
unit each let a row be fresh, stale and over before time ends. Two matches in
pages of one, or three in pages of two, shift from a page to the next while they
are read. One deferred pass lets a page fail, be read later and fail again. Two
events on the profile page let a request fail after a button of the list
changed what is shown; three on the ladder page let a search and a click overtake
a fetch. A second of two units and a window of three let an announcement be
rounded up. Larger instances are the theorems' part, except for liveness, which
holds as far as these bounds go.

Fairness. The event loop resumes what is ready, database and Redis calls answer,
sleeps end, a TTL passes, a process that is down is started again: weak fairness
of the corresponding action, per process or worker. Nothing in the code
guarantees that a handler ends; it is an assumption of its own in `FairSpec` of
`JobQueue`, made for all workers, and for the manual worker only in
`ManualFairSpec`. Requests, crashes and stops are never fair. In the limiters
time passes, a caller whose sleep is over is resumed, and Riot answers; no
fairness chooses between callers. A waiter for the Redis lock polls, so it may
miss the instants at which it is free but not for ever: strong fairness of
`Lock`, and of `Tick`, because a clock with a coarse unit would otherwise let
calls begin for ever within one reading. In histories and ladders an attempt that
has begun takes its next step, and PostgreSQL resumes a transaction that waited;
that attempts begin, that matches are played and what others do is never fair.
On the pages requests are answered or fail, timers fire, and the queue ends jobs,
which is `EveryJobEnds`; the user does nothing that is expected of him.

### What the violations say

*Work is repeated* (`queue_rerun`). `_process_job` reads the status at
`queue.py:152`, takes the lock at 160 and decides at 166 with what it read
before. A second process that enqueued the row at its start reads "queued",
finds the lock taken or not yet, and, when it gets the lock after the first
worker succeeded, marks the succeeded row running and runs the handler again.
A test (`tests/test_jobs_queue.py:217`) and `docs/architecture.md:97` say the
lock prevents this. It prevents two workers *at once* (`LockExclusive`), not one
after the other. Reading the row again under the lock would close it.

*The manual share returns late* (`limiter_borrow`). `README.md:54` describes the
last seconds "before a rate-limit window resets". The windows slide: a place an
automatic call borrows when the oldest reservation is about to expire is taken
for a whole window, and a manual call can find the window full, with its share
unused, long before the end. With the default limits the short window, one
second, is shorter than the unlock time, ten seconds, so that its share is never
kept at all.

*The first population may never be completed* (`history_initial`). A fetch stops
at the first match that it finds in the player's history (`profile.py:171`),
and links are made newest first while it goes. When a first fetch fails after
some links, the next one finds them on its first page, stops there and reports
success; so do all that follow, and what is older is not fetched again.
`docs/development.md:141` calls every fetch of a profile without a previous
successful job an initial population, and `README.md:215` lets only refreshes
stop at a known match. `NewestComplete` is what does hold: nothing *newer* than
the known history is missed.

Also seen while modelling and not claimed as findings: a graceful stop fails
queued jobs (`queue.py:207`, wanted by `tests/test_jobs_queue.py:424`), while
`docs/development.md:227` says that queued work is restored after restart; a
raising `get_job` or `acquire_job_lock` drops the job until the next start
(`queue.py:132`); an exception in place of the `CancelledError` of a stopping
worker keeps the worker alive, and `stop` waits for it (`queue.py:100`). Rows found the same
way: `create_job` commits before it reads the row back, and when the read raises
the row stays queued and nobody enqueues it before a restart
(`postgres_store.py:71`); a cancellation during the read that follows the commit
of a success overwrites it with failed (`queue.py:192`); `create_or_get` answers
a conflict with the newest row of the key without a look at its status
(`postgres_store.py:120`); a process with PostgreSQL but without Redis has a
lock of its own over shared rows (`main.py:64`); a call with
`wait_for_rate_limit=False` still sleeps for Retry-After (`client.py:369`); the
ladder list takes icons from entries that are past their stale window
(`api/routes/ladders.py:164`, `README.md:219`); a refused POST (429) leaves the
refresh button locked out for a minute; a search that supersedes the Load button
of the ladder page drops its load of matches.

## 4. Proofs

`tlapm` checks the proof modules from nothing; the theorems hold for any sets of
processes, profiles, callers, keys, routes and players, any number of jobs,
matches, attempts and faults and any limits, lifetimes and page sizes. They rest
on the named assumptions about the constants in the modules, which TLC evaluates
in the runs, and on what the table names.

| Theorem | Says | Under |
|---|---|---|
| `TypeCorrect` | `TypeOK` of `JobQueue` | |
| `OneWorkerPerJob` | `LockExclusive` | no lock expires under a working owner |
| `OneActiveJobPerProfile` | `UniqueActiveKey` | |
| `OnePlacePerJob` | `QueuedOnce` | |
| `NothingLost` | `NoOrphan` | database and Redis calls do not raise |
| `LifecycleKept` | `LifecycleSafety`: `JobQueue` implements `JobLifecycle` | one process, which is never stopped and whose database and Redis calls do not raise; it may crash and lose locks |
| `LimiterTypes`, `BudgetRespected`, `DequesComplete`, `PauseBindsAll`, `ShareIsKept` | `TypeOK`, `WithinLimits`, `WindowsComplete`, `PauseRespected`, `ReserveKept` of `RateLimiter` | |
| `RedisTypes`, `SharedBudget`, `OneInSection`, `PauseBindsAll` | `TypeOK`, `WithinLimits`, `SectionExclusive`, `PauseShared` of `RedisRateLimiter` | |
| `CacheTypes`, `FreshAnswers`, `UsableRowsAreKept` | `TypeOK`, `ServedFresh`, `UsableRowsStay` | |
| `WaitsAreForExpiredRows` | `UsableRowsAreFree` | |
| `WritesPrune` | `PrunedOnWrite` | `MaxWait` is at most TTL and stale window of each key |
| `HistoryTypes`, `ReportedIsStored`, `NewestFound` | `TypeOK`, `ResultsStored`, `NewestComplete` | |
| `ViewTypes`, `ListsOnce`, `ViewsAreTrue`, `OneJobAtATime` | the types of rows and views, `ListedOnce`, `ViewTrue`, `OneActiveJob` | |
| `ViewImplementsServer` | `ViewSpec` implements `ServerSpec` | |
| `MutationsBounded`, `RetryAfterIsEnough` | `WithinLimit`, `RetryAfterSuffices` | |
| `LastAskedIsShown` | `ListCurrent` | a finite bound of events |
| `BusyPagePolls` | `TypeOK` of `ProfilePage`; a busy page that is not adrift has a loop that polls (`BusyIsFollowed`) | a finite bound of events; `Buttons` names no loop |
| `LadderTypes`, `PublishedNamesTrue` | `TypeOK` of `LadderMatches`, `PublishedNameRecent` | |
| `WholeLadderStored` | `TargetWhole` | two ladders of a target share a player (`LaddersMeet`) |
| `ScanOverlooksNothing`, `NothingFoundIsLost` | `ScanComplete`, `FoundIsKept` | |

The arguments, each an invariant that is stronger than the property.

- Queue. `TypeOK` is inductive as it stands because it says which fields are
  meaningful when. Exclusion needs `LockOwned`: a worker between acquire and
  release is the one whose token the key holds. For one place per job,
  `PlacesOK`: what is enqueued is exactly what the queues, workers and retries
  hold, each id once, and a job's lane is a function of its kind. For
  `NothingLost`, `CarriedOK`: an active row is in the memory of a process whose
  workers are not yet past the end of that job, or a process is down or stopping;
  without the assumption a raising call drops the job. For `LifecycleKept`,
  `StagesOK`: with one process the status a worker read before the lock is still
  that of the row when it acts on it, because the row moves only by the worker
  that has the id and an id has one place (`PlacesOK`). Each step then maps to a
  step of `JobLifecycle` or a stutter. With two processes this is false, which is
  the finding of `queue_rerun`.
- Limiter. The history is ordered and not in the future, and a deque is its
  recent end. A window that admits a reservation holds fewer than its count, the
  history older than the window has expired, hence `count` places back is at
  least a window ago. A pause in progress is at least that of each throttled
  caller. An automatic reservation was borrowed when it was made, or it found
  fewer than the automatic capacity present; in a window without a borrowed one
  the last automatic reservation had all others before it, so there are no more
  of them than that capacity and the rest of a full window is manual.
- Redis limiter. Who holds the lock is in the section. Between its check and its
  last write the windows it has yet to fill keep room, because only the holder
  adds a counted member. Every counted grant within a window's length of a
  reading is still a member: keys live as long as their window, and what is
  pruned is older than a window before some reading. So the grants between a
  first reading and a last grant are no more than the members at the last
  reservation.
- Cache. A row's stamp is at most `MaxWait` after its payload. A transaction that
  deletes a row has it locked, so that nobody renews it until the end; what it
  deletes was over at its stamp and is over ever after. `WritesPrune` needs that
  a transaction is not so long that a row stamped after it begins is over before
  it ends. `WaitsAreForExpiredRows` follows from the same invariant: a row that
  is waited for was deleted by another transaction, so it is past its window.
- History. What an attempt has seen and has not left to do is linked or was
  removed; no step but the manager's takes a link away. Positions only grow
  while matches are played: `PagingInv` says that every match newer than the
  known history has been seen or lies at or behind the place the next page
  starts. The counting is in `CountingLemmas`.
- Rows and views. Rows are ordered strictly by time and id, so those ahead of a
  cursor are listed or new, and those behind it are not listed yet. What a view
  has seen of a job that was there stays a stage the job had then or after, and
  a job never leaves the two sets of statuses that are read in the order in
  which it passes them.
- Operator limiter. As the limiter; the announcement is at least what is left
  of the window, and a later admission is what `refusal` records.
- Ladder page. `ListInv`: at most one request under way is the newest, it asks
  for what was asked last, and when there is none the page shows that, unless the
  request failed. From the last list of a fetch on nobody changes the stored
  ladder, so the newest request has the new version, also when a click or a
  search superseded the fetch's own.
- Profile page. `PageInv`: a thread has a view only where it awaits one, the
  buttons of the list never poll, and a page that is busy and not adrift has a
  loop in its tick or its timer. A loop stops another only when it clears its
  timer and asks at once itself (`Poll`), and ends by itself only when its view
  is not busy, or when it fails, which leaves the page adrift unless another
  loop goes on. That such a loop then sees the end of the job is the fair half,
  `PageSettles`.
- Ladders. `AttemptOK` says what an attempt knows by itself: its rows and the
  players left are one ladder that Riot answered, and its names are recent.
  `TargetInv` is about the transactions: an attempt has locked all of the stored
  ladder or none of it, and one that has inserted its rows has locked all of it,
  since two ladders share a player and the unique index refuses the second.
  Hence a commit replaces the whole ladder, and at most one is between insert
  and commit with rows.
- Scan. `CoverInv` is `PagingInv` for many players, passes and pages of unequal
  age: of a player who is not missed, every match there was at first is found,
  or some page to begin, at hand or failed lies at or before the first one not
  found. A page that ends before such a match is full (`SliceFull`), so another
  follows it; a page that fails is kept for the next pass, and when no pass is
  left its player is reported. `KeptInv` says phase by phase where a match that
  was found is: written, left to write, fetched, left to fetch, at hand or
  reported.

Only model-checked: liveness under fairness, which the prover has no rules for
here (`EveryJobEnds`, `StopCompletes`, `ProfileJobsEnd`, `EveryCallEnds`,
`EveryFetchEnds`, `LadderFetchEnds`, `PageSettles`, `FetchReenabled`). Every
safety property that a run shows to hold is also a theorem. The counterexamples
of the violations are TLC's.

## 5. Plan

The order was that of what the rest of the program depends on: queue, limiter
and match history first, then the limiter in Redis, the cache, ladders, readers
and pages. All modules of the plan are written. What would come next:

1. The budget as an abstract specification that both limiters implement.
2. Progress of a job (`record`, the counters and `current_wait`) as part of its
   row, with readers that see it between two writes.
3. Several targets of ladders at once, and the order of rows within one insert.

## 6. Not modelled

- Progress counters, partial results, events and estimates of jobs: each is
  written by the worker that has the job and read for display; no control
  depends on them.
- The mirror routes: each forwards one request to the client and maps its errors
  to status codes. The older cached profile view and the other reads of manager
  and ladder routes format rows.
- Configuration, routing tables and engine: constants.
- The manager's page of the frontend, which sends one request per click, and the
  rendering of all pages.
- Migrations, scripts and containers: they set up what the stores assume; the
  constraints the code relies on belong to the modules of their stores.
- Clocks of different hosts, and PostgreSQL's `lower()` against Python's
  `casefold()` in the filter of Riot IDs: data the models do not tell apart.
