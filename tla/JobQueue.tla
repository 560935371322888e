------------------------------ MODULE JobQueue ------------------------------
(***************************************************************************)
(* The background job queue of the API: src/league_api/jobs/queue.py with  *)
(* the job rows of jobs/postgres_store.py, the Redis job lock of           *)
(* redis/coordinator.py and the start and stop of main.py.                 *)
(*                                                                         *)
(* Several API processes share the job rows and the locks.  Each process   *)
(* has two workers, one for profile jobs and one for ladder jobs, each     *)
(* with a priority queue of its own; queues, retry tasks and the set of    *)
(* enqueued ids live in the process and are lost with it.                  *)
(*                                                                         *)
(* One action is what a coroutine does between two awaits that suspend it. *)
(* The awaits that suspend are those of the database and of Redis, the     *)
(* handler, queue.get() and asyncio.sleep(); the enqueue lock is never     *)
(* held across a suspension, so taking it does not suspend.                *)
(***************************************************************************)
EXTENDS Naturals, FiniteSets, Sequences, SequencesExt

CONSTANTS
    Procs,            \* the API processes
    Profiles,         \* the profile targets: one active_key each
    MaxJobs,          \* bound: jobs ever created
    Requests,         \* bound: the kinds of job the requests ask for
    Faults,           \* which faults happen: "crash" is a process that dies,
                      \* "stop" a graceful stop, "error" a database or Redis
                      \* call that raises, "expiry" a lock whose TTL passes
                      \* while its owner still works
    MaxFaults,        \* bound: faults in one behaviour
    Free              \* what the Redis key of a job holds when it is not set

Lanes == {"manual", "automatic"}
LadderKinds == {"ladder_players", "ladder_ingestion"}
Kinds == Profiles \cup LadderKinds
Jobs == 1 .. MaxJobs    \* in the order of created_at
NoJob == 0

ASSUME ConstantsOK ==
    /\ MaxJobs \in Nat /\ MaxFaults \in Nat
    /\ Requests \subseteq Kinds
    /\ Profiles \cap (LadderKinds \cup {"none"}) = {}

Workers == Procs \X Lanes
WorkersOf(p) == {p} \X Lanes

ASSUME FreeIsNoWorker == Free \notin Workers

VARIABLES
    status,     \* jobs.status of each row ("absent" before the insert)
    kind,       \* what the row asks for: a profile, or a ladder job type
    lock,       \* the Redis key of each job: the worker whose token it holds
    phase,      \* of each process: down, starting, up or stopping
    pending,    \* of each process: jobs a coroutine still has to enqueue
    queue,      \* of each worker: the jobs waiting in its priority queue
    enqueued,   \* of each process: _enqueued_job_ids
    retry,      \* of each process: jobs with a sleeping _retry_enqueue task
    pc,         \* of each worker: the await its task is suspended at
    cur,        \* of each worker: the job it took
    seen,       \* of each worker: the status get_job returned
    faults      \* how many faults have happened

rows == <<status, kind>>
worker == <<pc, cur, seen>>
volatile == <<phase, pending, queue, enqueued, retry>>
vars == <<rows, lock, volatile, worker, faults>>

Active == {"queued", "running"}
Terminal == {"succeeded", "failed"}
Status == {"absent"} \cup Active \cup Terminal

(***************************************************************************)
(* The awaits a worker can be suspended at.  "idle" is queue.get(); "read" *)
(* get_job; "lock" acquire_job_lock; "mark" mark_running; "handle" the     *)
(* handler; "commit" the UPDATE of mark_succeeded and "reread" the read    *)
(* that follows its commit; "fail" and "cancel" mark_failed in the         *)
(* handlers of Exception and of CancelledError; "release" and "leave"      *)
(* release_job_lock, with a CancelledError pending in the second.  "off"   *)
(* is a task that ended.                                                   *)
(***************************************************************************)
Owning == {"mark", "handle", "commit", "reread", "fail", "cancel", "release", "leave"}
Steps == {"off", "idle", "read", "lock"} \cup Owning

Holding(w, j) == cur[w] = j /\ pc[w] \in Owning

-----------------------------------------------------------------------------
(* Priorities and the priority queues.                                     *)

Priority(k) == CASE k \in Profiles -> 0
                 [] k = "ladder_players" -> 100
                 [] OTHER -> 200

LaneOfOneQueue(k) == "automatic"        \* variant: one queue and one worker

LaneOf(k) == IF Priority(k) < 100 THEN "manual" ELSE "automatic"

WorkerFor(p, j) == <<p, LaneOf(kind[j])>>

\* asyncio.PriorityQueue orders by (priority, sequence number): a job goes
\* behind those of its own priority and before the less urgent ones.
NotAfter(q, j) == {i \in 1 .. Len(q) : Priority(kind[q[i]]) <= Priority(kind[j])}
Insert(q, j) == InsertAt(q, Cardinality(NotAfter(q, j)) + 1, j)

\* enqueue(): ids already known to the process are ignored.
Enqueue(p, j) ==
    IF j \in enqueued[p]
    THEN UNCHANGED <<enqueued, queue>>
    ELSE /\ enqueued' = [enqueued EXCEPT ![p] = @ \cup {j}]
         /\ queue' = [queue EXCEPT ![WorkerFor(p, j)] = Insert(@, j)]

\* The index uq_jobs_active_key: another active row with the same key.
KeyTaken(j, k) ==
    \E i \in Jobs \ {j} : kind[i] = k /\ k \in Profiles /\ status[i] \in Active

Fault(what) ==
    /\ what \in Faults
    /\ faults < MaxFaults
    /\ faults' = faults + 1

-----------------------------------------------------------------------------
Init ==
    /\ status = [j \in Jobs |-> "absent"]
    /\ kind = [j \in Jobs |-> "none"]
    /\ lock = [j \in Jobs |-> Free]
    /\ phase = [p \in Procs |-> "down"]
    /\ pending = [p \in Procs |-> {}]
    /\ queue = [w \in Workers |-> <<>>]
    /\ enqueued = [p \in Procs |-> {}]
    /\ retry = [p \in Procs |-> {}]
    /\ pc = [w \in Workers |-> "off"]
    /\ cur = [w \in Workers |-> NoJob]
    /\ seen = [w \in Workers |-> "none"]
    /\ faults = 0

-----------------------------------------------------------------------------
(* Startup: lifespan starts the workers and lists the active rows, then    *)
(* enqueues them oldest first before the first request is served.          *)

StartRecovering(p, statuses) ==
    /\ phase[p] = "down"
    /\ phase' = [phase EXCEPT ![p] = "starting"]
    /\ pc' = [w \in Workers |-> IF w \in WorkersOf(p) THEN "idle" ELSE pc[w]]
    /\ pending' = [pending EXCEPT ![p] = {j \in Jobs : status[j] \in statuses}]
    /\ UNCHANGED <<rows, lock, queue, enqueued, retry, cur, seen, faults>>

StartQueuedOnly(p) == StartRecovering(p, {"queued"})    \* variant: misses running rows

Start(p) == StartRecovering(p, Active)

Ready(p) ==
    /\ phase[p] = "starting"
    /\ pending[p] = {}
    /\ phase' = [phase EXCEPT ![p] = "up"]
    /\ UNCHANGED <<rows, lock, pending, queue, enqueued, retry, worker, faults>>

EnqueuePending(p, j) ==
    /\ j \in pending[p]
    /\ phase[p] = "starting" => \A i \in pending[p] : j <= i
    /\ pending' = [pending EXCEPT ![p] = @ \ {j}]
    /\ Enqueue(p, j)
    /\ UNCHANGED <<rows, lock, phase, retry, worker, faults>>

(* Requests: a POST inserts a queued row and then enqueues it.  The insert *)
(* of a profile job does nothing while another active row has its key, and *)
(* the handler then answers with the existing job.                         *)

Insertable(j, k) ==
    /\ status[j] = "absent"
    /\ \A i \in Jobs : i < j => status[i] # "absent"
    /\ ~KeyTaken(j, k)

InsertUntyped(j, k) ==      \* variant: the insert leaves job_type out
    /\ Insertable(j, k)
    /\ status' = [status EXCEPT ![j] = "queued"]
    /\ UNCHANGED kind

InsertRow(j, k) ==
    /\ Insertable(j, k)
    /\ status' = [status EXCEPT ![j] = "queued"]
    /\ kind' = [kind EXCEPT ![j] = k]

Submit(p, j, k) ==
    /\ phase[p] = "up"
    /\ InsertRow(j, k)
    /\ pending' = [pending EXCEPT ![p] = @ \cup {j}]
    /\ UNCHANGED <<lock, phase, queue, enqueued, retry, worker, faults>>

-----------------------------------------------------------------------------
(* The worker loop: _run and _process_job.                                 *)

Goto(w, next) == pc' = [pc EXCEPT ![w] = next]

Finish(w, ids, retries) ==
    /\ Goto(w, "idle")
    /\ cur' = [cur EXCEPT ![w] = NoJob]
    /\ seen' = [seen EXCEPT ![w] = "none"]
    /\ enqueued' = [enqueued EXCEPT ![w[1]] = ids]
    /\ retry' = [retry EXCEPT ![w[1]] = @ \cup retries]
    /\ UNCHANGED <<phase, pending, queue>>

OtherIds(w) == enqueued[w[1]] \ {cur[w]}
Retries(w, again) == IF again /\ phase[w[1]] # "stopping" THEN {cur[w]} ELSE {}

DoneKeepingId(w, again) ==      \* variant: no discard of the id
    Finish(w, enqueued[w[1]], Retries(w, again))

DoneWithoutRetry(w, again) ==   \* variant: a taken lock ends the work
    Finish(w, OtherIds(w), {})

\* The finally clause of _run, and the retry task when the lock was taken.
Done(w, again) == Finish(w, OtherIds(w), Retries(w, again))

Take(w) ==
    /\ pc[w] = "idle"
    /\ queue[w] # <<>>
    /\ cur' = [cur EXCEPT ![w] = Head(queue[w])]
    /\ queue' = [queue EXCEPT ![w] = Tail(@)]
    /\ Goto(w, "read")
    /\ UNCHANGED <<rows, lock, phase, pending, enqueued, retry, seen, faults>>

Read(w) ==
    /\ pc[w] = "read"
    /\ IF status[cur[w]] \in Active
       THEN /\ seen' = [seen EXCEPT ![w] = status[cur[w]]]
            /\ Goto(w, "lock")
            /\ UNCHANGED <<cur, volatile>>
       ELSE Done(w, FALSE)
    /\ UNCHANGED <<rows, lock, faults>>

Own(w, next) ==
    /\ lock' = [lock EXCEPT ![cur[w]] = w]
    /\ Goto(w, next)
    /\ seen' = [seen EXCEPT ![w] = "none"]
    /\ UNCHANGED <<rows, volatile, cur, faults>>

AfterLock(w) == IF seen[w] = "queued" THEN "mark" ELSE "handle"

AcquireWithoutNx(w) ==          \* variant: SET without NX
    pc[w] = "lock" /\ Own(w, AfterLock(w))

AcquireSkippingMark(w) ==       \* variant: mark_running is never called
    pc[w] = "lock" /\ lock[cur[w]] = Free /\ Own(w, "handle")

\* The status that decides on mark_running is the one read before the lock.
AcquireFree(w) ==
    /\ pc[w] = "lock"
    /\ lock[cur[w]] = Free
    /\ Own(w, AfterLock(w))

AcquireTaken(w) ==
    /\ pc[w] = "lock"
    /\ lock[cur[w]] # Free
    /\ Done(w, TRUE)
    /\ UNCHANGED <<rows, lock, faults>>

MarkRunningUnindexed(w) ==      \* variant: the table has no active_key index
    /\ pc[w] = "mark"
    /\ status' = [status EXCEPT ![cur[w]] = "running"]
    /\ Goto(w, "handle")
    /\ UNCHANGED <<kind, lock, volatile, cur, seen, faults>>

\* The UPDATE is unconditional; only the unique index can reject it.
MarkRunning(w) ==
    /\ pc[w] = "mark"
    /\ IF KeyTaken(cur[w], kind[cur[w]])
       THEN Goto(w, "fail") /\ UNCHANGED status
       ELSE /\ status' = [status EXCEPT ![cur[w]] = "running"]
            /\ Goto(w, "handle")
    /\ UNCHANGED <<kind, lock, volatile, cur, seen, faults>>

HandlerReturns(w) ==
    /\ pc[w] = "handle"
    /\ Goto(w, "commit")
    /\ UNCHANGED <<rows, lock, volatile, cur, seen, faults>>

HandlerRaises(w) ==
    /\ pc[w] = "handle"
    /\ Goto(w, "fail")
    /\ UNCHANGED <<rows, lock, volatile, cur, seen, faults>>

MarkSucceeded(w) ==
    /\ pc[w] = "commit"
    /\ status' = [status EXCEPT ![cur[w]] = "succeeded"]
    /\ Goto(w, "reread")
    /\ UNCHANGED <<kind, lock, volatile, cur, seen, faults>>

Reread(w) ==
    /\ pc[w] = "reread"
    /\ Goto(w, "release")
    /\ UNCHANGED <<rows, lock, volatile, cur, seen, faults>>

\* mark_failed, from the handler of Exception or of CancelledError.
MarkFailed(w) ==
    /\ pc[w] \in {"fail", "cancel"}
    /\ status' = [status EXCEPT ![cur[w]] = "failed"]
    /\ Goto(w, IF pc[w] = "fail" THEN "release" ELSE "leave")
    /\ UNCHANGED <<kind, lock, volatile, cur, seen, faults>>

\* The release script deletes the key only when it still holds the token.
Unlocked(w) == IF lock[cur[w]] = w THEN [lock EXCEPT ![cur[w]] = Free] ELSE lock

Release(w) ==
    /\ pc[w] = "release"
    /\ lock' = Unlocked(w)
    /\ Done(w, FALSE)
    /\ UNCHANGED <<rows, faults>>

LeaveWithoutRaise(w) ==         \* variant: CancelledError is not raised again
    /\ pc[w] = "leave"
    /\ lock' = Unlocked(w)
    /\ Done(w, FALSE)
    /\ UNCHANGED <<rows, faults>>

\* The task ends with its CancelledError; _run's finally still forgets the id.
Leave(w) ==
    /\ pc[w] = "leave"
    /\ lock' = Unlocked(w)
    /\ Goto(w, "off")
    /\ cur' = [cur EXCEPT ![w] = NoJob]
    /\ enqueued' = [enqueued EXCEPT ![w[1]] = OtherIds(w)]
    /\ UNCHANGED <<rows, phase, pending, queue, retry, seen, faults>>

RetryEnqueue(p, j) ==
    /\ j \in retry[p]
    /\ phase[p] \in {"starting", "up"}
    /\ retry' = [retry EXCEPT ![p] = @ \ {j}]
    /\ Enqueue(p, j)
    /\ UNCHANGED <<rows, lock, phase, pending, worker, faults>>

-----------------------------------------------------------------------------
(* Shutdown: the server has answered its requests, then lifespan calls     *)
(* stop(), which cancels both tasks at the await they are suspended at,    *)
(* waits for them, drops the retry tasks and fails what is still queued.   *)

CancelTarget(at) ==
    CASE at \in {"mark", "handle", "commit", "reread"} -> "cancel"
      [] at = "fail" -> "leave"
      [] OTHER -> "off"

\* A command cancelled in flight may have been executed or not: done is the
\* set of workers whose command was.
CancelledLocks(done) ==
    [j \in Jobs |->
        IF \E w \in done : pc[w] = "lock" /\ cur[w] = j /\ lock[j] = Free
        THEN CHOOSE w \in done : pc[w] = "lock" /\ cur[w] = j
        ELSE IF \E w \in done : pc[w] = "release" /\ cur[w] = j /\ lock[j] = w
             THEN Free
             ELSE lock[j]]

Stop(p) ==
    LET ending == {w \in WorkersOf(p) : CancelTarget(pc[w]) = "off"} IN
    /\ phase[p] = "up"
    /\ pending[p] = {}
    /\ Fault("stop")
    /\ phase' = [phase EXCEPT ![p] = "stopping"]
    /\ \E done \in SUBSET {w \in ending : pc[w] \in {"lock", "release"}} :
          lock' = CancelledLocks(done)
    /\ \E done \in SUBSET {w \in WorkersOf(p) : pc[w] = "fail"} :
          status' = [j \in Jobs |-> IF \E w \in done : cur[w] = j THEN "failed" ELSE status[j]]
    /\ pc' = [w \in Workers |-> IF w \in WorkersOf(p) THEN CancelTarget(pc[w]) ELSE pc[w]]
    /\ cur' = [w \in Workers |-> IF w \in ending THEN NoJob ELSE cur[w]]
    /\ seen' = [w \in Workers |-> IF w \in ending THEN "none" ELSE seen[w]]
    /\ enqueued' = [enqueued EXCEPT ![p] = @ \ {cur[w] : w \in ending}]
    /\ retry' = [retry EXCEPT ![p] = {}]
    /\ UNCHANGED <<kind, pending, queue>>

WorkersEnded(p) == \A w \in WorkersOf(p) : pc[w] = "off"

\* _fail_queued_jobs: the manual queue first; no lock is taken and the
\* status of the row is not looked at.
FailQueued(w) ==
    /\ phase[w[1]] = "stopping"
    /\ WorkersEnded(w[1])
    /\ queue[w] # <<>>
    /\ w[2] = "automatic" => queue[<<w[1], "manual">>] = <<>>
    /\ status' = [status EXCEPT ![Head(queue[w])] = "failed"]
    /\ enqueued' = [enqueued EXCEPT ![w[1]] = @ \ {Head(queue[w])}]
    /\ queue' = [queue EXCEPT ![w] = Tail(@)]
    /\ UNCHANGED <<kind, lock, phase, pending, retry, worker, faults>>

\* What the end of the process leaves of its memory: nothing.
PowerOff(p) ==
    LET Gone(f, v) == [w \in Workers |-> IF w \in WorkersOf(p) THEN v ELSE f[w]] IN
    /\ phase' = [phase EXCEPT ![p] = "down"]
    /\ pending' = [pending EXCEPT ![p] = {}]
    /\ enqueued' = [enqueued EXCEPT ![p] = {}]
    /\ retry' = [retry EXCEPT ![p] = {}]
    /\ queue' = Gone(queue, <<>>)
    /\ pc' = Gone(pc, "off")
    /\ cur' = Gone(cur, NoJob)
    /\ seen' = Gone(seen, "none")

Stopped(p) ==
    /\ phase[p] = "stopping"
    /\ WorkersEnded(p)
    /\ \A w \in WorkersOf(p) : queue[w] = <<>>
    /\ PowerOff(p)
    /\ UNCHANGED <<rows, lock, faults>>

-----------------------------------------------------------------------------
(* Faults.                                                                 *)

Crash(p) ==
    /\ phase[p] # "down"
    /\ Fault("crash")
    /\ PowerOff(p)
    /\ UNCHANGED <<rows, lock>>

LockExpires(j) ==
    /\ lock[j] # Free
    /\ IF Holding(lock[j], j) THEN Fault("expiry") ELSE UNCHANGED faults
    /\ lock' = [lock EXCEPT ![j] = Free]
    /\ UNCHANGED <<rows, volatile, worker>>

\* The row is committed but reading it back raises: the POST answers 500
\* and nobody enqueues the job.
SubmitRaises(p, j, k) ==
    /\ Fault("error")
    /\ phase[p] = "up"
    /\ InsertRow(j, k)
    /\ UNCHANGED <<lock, volatile, worker>>

\* get_job or acquire_job_lock raises: _run logs it and drops the job.  The
\* lock may have been set although its answer was lost.
LookupRaises(w) ==
    /\ Fault("error")
    /\ pc[w] \in {"read", "lock"}
    /\ \/ UNCHANGED lock
       \/ /\ pc[w] = "lock"
          /\ lock[cur[w]] = Free
          /\ lock' = [lock EXCEPT ![cur[w]] = w]
    /\ Done(w, FALSE)
    /\ UNCHANGED rows

\* mark_running or mark_succeeded raises, before its commit or after it.
UpdateRaises(w) ==
    /\ Fault("error")
    /\ pc[w] \in {"mark", "commit", "reread"}
    /\ Goto(w, "fail")
    /\ UNCHANGED <<rows, lock, volatile, cur, seen>>

\* mark_failed raises, before its commit or after it.  An exception raised
\* in place of a CancelledError is caught by _run, whose loop goes on.
MarkFailedRaises(w) ==
    /\ Fault("error")
    /\ pc[w] \in {"fail", "cancel"}
    /\ status' \in {status, [status EXCEPT ![cur[w]] = "failed"]}
    /\ Goto(w, "release")
    /\ UNCHANGED <<kind, lock, volatile, cur, seen>>

\* release_job_lock raises: an undeleted key stays until its TTL.
ReleaseRaises(w) ==
    /\ Fault("error")
    /\ pc[w] \in {"release", "leave"}
    /\ lock' \in {lock, Unlocked(w)}
    /\ Done(w, FALSE)
    /\ UNCHANGED rows

\* mark_failed raises in _fail_queued_jobs: stop() ends and the process with it.
FailQueuedRaises(p) ==
    /\ Fault("error")
    /\ phase[p] = "stopping"
    /\ WorkersEnded(p)
    /\ \E w \in WorkersOf(p) : queue[w] # <<>>
    /\ PowerOff(p)
    /\ UNCHANGED <<rows, lock>>

-----------------------------------------------------------------------------
Startup(p) == Start(p) \/ Ready(p)

Handler(w) == HandlerReturns(w) \/ HandlerRaises(w)

WorkerStep(w) ==
    \/ Take(w) \/ Read(w) \/ AcquireFree(w) \/ AcquireTaken(w)
    \/ MarkRunning(w) \/ MarkSucceeded(w) \/ Reread(w)
    \/ MarkFailed(w) \/ Release(w) \/ Leave(w)

WorkerFault(w) ==
    LookupRaises(w) \/ UpdateRaises(w) \/ MarkFailedRaises(w) \/ ReleaseRaises(w)

Next ==
    \/ \E p \in Procs : \/ Startup(p) \/ Stop(p) \/ Stopped(p)
                        \/ Crash(p) \/ FailQueuedRaises(p)
    \/ \E p \in Procs, j \in Jobs : EnqueuePending(p, j) \/ RetryEnqueue(p, j)
    \/ \E p \in Procs, j \in Jobs, k \in Requests : Submit(p, j, k) \/ SubmitRaises(p, j, k)
    \/ \E w \in Workers : WorkerStep(w) \/ Handler(w) \/ WorkerFault(w) \/ FailQueued(w)
    \/ \E j \in Jobs : LockExpires(j)

Spec == Init /\ [][Next]_vars

-----------------------------------------------------------------------------
(* Properties.                                                             *)

\* The places a job id can wait or be worked on in one process.
Elements(q) == {q[i] : i \in 1 .. Len(q)}
QueuedIn(p) == UNION {Elements(queue[w]) : w \in WorkersOf(p)}
TakenIn(p) == {cur[w] : w \in WorkersOf(p)} \ {NoJob}

Created == {j \in Jobs : status[j] # "absent"}

RowsOK ==
    /\ status \in [Jobs -> Status]
    /\ kind \in [Jobs -> Kinds \cup {"none"}]
    /\ \A j \in Jobs : kind[j] = "none" <=> status[j] = "absent"
    /\ lock \in [Jobs -> Workers \cup {Free}]
    /\ faults \in Nat

MemoryOK ==
    /\ phase \in [Procs -> {"down", "starting", "up", "stopping"}]
    /\ pending \in [Procs -> SUBSET Created]
    /\ queue \in [Workers -> Seq(Created)]
    /\ enqueued \in [Procs -> SUBSET Created]
    /\ retry \in [Procs -> SUBSET Created]

WorkersOK ==
    /\ pc \in [Workers -> Steps]
    /\ cur \in [Workers -> Created \cup {NoJob}]
    /\ seen \in [Workers -> Active \cup {"none"}]
    /\ \A w \in Workers :
          /\ cur[w] = NoJob <=> pc[w] \in {"off", "idle"}
          /\ seen[w] # "none" <=> pc[w] = "lock"
          /\ phase[w[1]] = "down" => pc[w] = "off"

\* Type invariant.  It also says which fields are meaningful when: a row has
\* a kind once it exists, processes know only jobs that have a row, a worker
\* has a job exactly while it works, remembers a status only between the read
\* and the lock, and has no task in a process that is down.
TypeOK == RowsOK /\ MemoryOK /\ WorkersOK

\* docs/architecture.md: Redis job locks prevent duplicate processing when
\* several API processes run.  As long as no lock outlives its TTL under a
\* working owner, no two workers are between acquire_job_lock and
\* release_job_lock on one job, whatever crashes, stops and lost answers.
LockExclusive ==
    \A v, w \in Workers, j \in Jobs : Holding(v, j) /\ Holding(w, j) => v = w

\* README: concurrent profile fetch requests do not create duplicate work:
\* at most one queued or running row per profile target, although any
\* process may put a finished row back to running.
UniqueActiveKey ==
    \A i, j \in Jobs :
        /\ status[i] \in Active /\ status[j] \in Active
        /\ kind[i] = kind[j] /\ kind[i] \in Profiles
        => i = j

\* The set of enqueued ids is exactly what the queues and the workers of a
\* process hold, and a job is at one place of a process: not twice in its
\* queues, not queued while worked on, not waiting for a retry or for its
\* first enqueue as well.  A stale id in the set would make enqueue() ignore
\* the job for as long as the process lives.
QueuedOnce ==
    \A p \in Procs :
        /\ enqueued[p] = QueuedIn(p) \cup TakenIn(p)
        /\ QueuedIn(p) \cap TakenIn(p) = {}
        /\ enqueued[p] \cap (retry[p] \cup pending[p]) = {}
        /\ retry[p] \cap pending[p] = {}
        /\ \A w \in WorkersOf(p) : Cardinality(Elements(queue[w])) = Len(queue[w])

\* An unfinished job is always somewhere: in the memory of some process, or
\* left to the recovery of a process that is down or going down.  It holds
\* while database and Redis calls do not raise.
NoOrphan ==
    \A j \in Jobs : status[j] \in Active =>
        \E p \in Procs :
            \/ phase[p] \in {"down", "stopping"}
            \/ j \in pending[p] \cup enqueued[p] \cup retry[p]

\* The lifecycle the API promises.  One process that is never stopped
\* implements it across crashes; see the runs for what breaks it.
Lifecycle == INSTANCE JobLifecycle WITH state <- status
LifecycleSafety == Lifecycle!Safety

\* tests/test_jobs_queue.py, test_duplicate_queue_entry_does_not_process_
\* completed_job_twice: a job that succeeded is not processed again.
SucceededIsFinal ==
    [][\A j \in Jobs : status[j] = "succeeded" => status'[j] = "succeeded"]_vars

-----------------------------------------------------------------------------
(* Liveness.  Fair: the event loop resumes what is ready, database and     *)
(* Redis calls answer, a sleep ends, a process that ended is started again *)
(* and a TTL passes.  That a handler ends is an assumption of its own.     *)

FairProcess(p) ==
    /\ WF_vars(Startup(p))
    /\ WF_vars(Stopped(p))
    /\ WF_vars(\E j \in Jobs : EnqueuePending(p, j))
    /\ \A j \in Jobs : WF_vars(RetryEnqueue(p, j))

FairWorker(w) == WF_vars(WorkerStep(w)) /\ WF_vars(FailQueued(w))

Fair ==
    /\ \A p \in Procs : FairProcess(p)
    /\ \A w \in Workers : FairWorker(w)
    /\ \A j \in Jobs : WF_vars(LockExpires(j))

FairSpec == Spec /\ Fair /\ \A w \in Workers : WF_vars(Handler(w))

\* The ladder handlers may run for ever.
ManualFairSpec ==
    Spec /\ Fair /\ \A w \in Workers : w[2] = "manual" => WF_vars(Handler(w))

\* docs/development.md: queued or abandoned running work is restored after
\* restart.  Every accepted job ends, whatever worker, process or lock it
\* loses on the way.
EveryJobEnds ==
    \A j \in Jobs : status[j] \in Active ~> status[j] \in Terminal

\* stop() returns: nothing it awaits can wait for ever.
StopCompletes ==
    \A p \in Procs : phase[p] = "stopping" ~> phase[p] = "down"

\* README: profile work runs on an independent worker so automatic ladder
\* ingestion cannot block it.
ProfileJobsEnd ==
    \A j \in Jobs : status[j] \in Active /\ kind[j] \in Profiles ~> status[j] \in Terminal

=============================================================================
