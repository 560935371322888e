--------------------------- MODULE JobQueueProofs ---------------------------
(***************************************************************************)
(* What holds of the job queue for every number of processes, jobs and     *)
(* faults.                                                                 *)
(***************************************************************************)
EXTENDS JobQueue, TLAPS, FiniteSetTheorems, SequenceTheorems

LEMMA NotAfterCount ==
    ASSUME NEW S, NEW q \in Seq(S), NEW j
    PROVE  Cardinality(NotAfter(q, j)) \in 0 .. Len(q)
<1>1. NotAfter(q, j) \in SUBSET (1 .. Len(q))
  BY DEF NotAfter
<1>2. IsFiniteSet(1 .. Len(q)) /\ Cardinality(1 .. Len(q)) = Len(q)
  <2>1. Len(q) \in Nat
    OBVIOUS
  <2>2. QED
    BY <2>1, FS_Interval
<1>3. IsFiniteSet(NotAfter(q, j)) /\ Cardinality(NotAfter(q, j)) <= Len(q)
  BY <1>1, <1>2, FS_Subset
<1>4. QED
  BY <1>3, FS_CardinalityType

\* Enqueueing puts a job into a priority queue and nothing else.
LEMMA InsertType ==
    ASSUME NEW S, NEW q \in Seq(S), NEW j \in S
    PROVE  Insert(q, j) \in Seq(S)
<1> DEFINE n == Cardinality(NotAfter(q, j))
<1>1. n \in 0 .. Len(q)
  BY NotAfterCount
<1> HIDE DEF n
<1>2. SubSeq(q, 1, (n + 1) - 1) \in Seq(S)
  BY <1>1
<1>3. SubSeq(q, n + 1, Len(q)) \in Seq(S)
  BY <1>1
<1>4. <<j>> \in Seq(S)
  OBVIOUS
<1>5. Insert(q, j) = SubSeq(q, 1, (n + 1) - 1) \o <<j>> \o SubSeq(q, n + 1, Len(q))
  BY DEF Insert, InsertAt, n
<1>6. QED
  BY <1>2, <1>3, <1>4, <1>5

-----------------------------------------------------------------------------
(* Type correctness.                                                       *)

LEMMA JobsAreNumbers == NoJob \notin Jobs /\ Jobs \subseteq Nat /\ Created \subseteq Jobs
BY ConstantsOK DEF NoJob, Jobs, Created

LEMMA WorkerParts ==
    ASSUME NEW w \in Workers
    PROVE  /\ w[1] \in Procs /\ w[2] \in Lanes
           /\ \A p \in Procs : w \in WorkersOf(p) <=> w[1] = p
BY DEF Workers, WorkersOf

LEMMA WorkersOfType ==
    ASSUME NEW p \in Procs
    PROVE  WorkersOf(p) \subseteq Workers
BY DEF Workers, WorkersOf

LEMMA WorkerForType ==
    ASSUME NEW p \in Procs, NEW j \in Jobs
    PROVE  WorkerFor(p, j) \in Workers
BY DEF WorkerFor, LaneOf, Workers, Lanes

LEMMA EnqueueType ==
    ASSUME TypeOK, NEW p \in Procs, NEW j \in Created, Enqueue(p, j)
    PROVE  /\ enqueued' \in [Procs -> SUBSET Created]
           /\ queue' \in [Workers -> Seq(Created)]
<1>1. CASE j \in enqueued[p]
  BY <1>1 DEF Enqueue, TypeOK, MemoryOK
<1>2. CASE j \notin enqueued[p]
  <2>1. WorkerFor(p, j) \in Workers
    BY WorkerForType, JobsAreNumbers
  <2>2. Insert(queue[WorkerFor(p, j)], j) \in Seq(Created)
    BY <2>1, InsertType DEF TypeOK, MemoryOK
  <2>3. enqueued' \in [Procs -> SUBSET Created]
    BY <1>2 DEF Enqueue, TypeOK, MemoryOK
  <2>4. queue' = [queue EXCEPT ![WorkerFor(p, j)] = Insert(queue[WorkerFor(p, j)], j)]
    BY <1>2 DEF Enqueue
  <2>5. QED
    BY <2>1, <2>2, <2>3, <2>4 DEF TypeOK, MemoryOK
<1>3. QED
  BY <1>1, <1>2

LEMMA MemoryFrame ==
    ASSUME TypeOK, UNCHANGED volatile, Created' = Created
    PROVE  MemoryOK'
BY DEF TypeOK, MemoryOK, volatile

LEMMA WorkersFrame ==
    ASSUME TypeOK, UNCHANGED <<worker, phase>>, Created' = Created
    PROVE  WorkersOK'
BY DEF TypeOK, WorkersOK, worker

\* A worker that holds a job and no remembered status moves on.
LEMMA GotoOK ==
    ASSUME TypeOK, NEW w \in Workers, NEW next \in Owning,
           pc[w] \in Owning, Goto(w, next), UNCHANGED <<cur, seen, phase>>, Created' = Created
    PROVE  WorkersOK'
BY DEF TypeOK, WorkersOK, Goto, Steps, Owning

LEMMA DoneOK ==
    ASSUME TypeOK, NEW w \in Workers, NEW again \in BOOLEAN,
           cur[w] # NoJob, Done(w, again), Created' = Created
    PROVE  MemoryOK' /\ WorkersOK'
<1> USE DEF Done, Finish, Goto
<1>1. w[1] \in Procs /\ cur[w] \in Created /\ phase[w[1]] # "down"
  BY WorkerParts DEF TypeOK, WorkersOK
<1>2. OtherIds(w) \in SUBSET Created /\ Retries(w, again) \in SUBSET Created
  BY <1>1 DEF OtherIds, Retries, TypeOK, MemoryOK
<1>3. MemoryOK'
  BY <1>1, <1>2 DEF TypeOK, MemoryOK
<1>4. pc' \in [Workers -> Steps] /\ cur' \in [Workers -> Created \cup {NoJob}]
      /\ seen' \in [Workers -> Active \cup {"none"}]
  BY DEF TypeOK, WorkersOK, Steps
<1>5. WorkersOK'
  BY <1>1, <1>4 DEF TypeOK, WorkersOK
<1>6. QED
  BY <1>3, <1>5

LEMMA PowerOffOK ==
    ASSUME TypeOK, NEW p \in Procs, PowerOff(p), Created' = Created
    PROVE  MemoryOK' /\ WorkersOK'
<1> USE DEF PowerOff
<1>1. MemoryOK'
  BY DEF TypeOK, MemoryOK
<1>2. WorkersOK'
  BY WorkerParts DEF TypeOK, WorkersOK, MemoryOK, Steps
<1>3. QED
  BY <1>1, <1>2

LEMMA TypeInit == Init => TypeOK
BY JobsAreNumbers
   DEF Init, TypeOK, RowsOK, MemoryOK, WorkersOK, Status, Active, Terminal, Steps, Owning

\* An update of a stored row leaves the set of rows as it was.
LEMMA StatusOK ==
    ASSUME TypeOK, NEW j \in Created, NEW s \in Active \cup Terminal,
           status' = [status EXCEPT ![j] = s], UNCHANGED kind
    PROVE  /\ Created' = Created
           /\ status' \in [Jobs -> Status]
           /\ \A i \in Jobs : kind'[i] = "none" <=> status'[i] = "absent"
BY DEF TypeOK, RowsOK, Created, Status, Active, Terminal

LEMMA UnlockedType ==
    ASSUME TypeOK, NEW w \in Workers
    PROVE  Unlocked(w) \in [Jobs -> Workers \cup {Free}]
BY DEF Unlocked, TypeOK, RowsOK

LEMMA TypeStart ==
    ASSUME TypeOK, NEW p \in Procs, Start(p)
    PROVE  TypeOK'
<1> USE DEF Start, StartRecovering, rows
<1>1. Created' = Created
  BY DEF Created
<1>2. RowsOK'
  BY DEF TypeOK, RowsOK
<1>3. {j \in Jobs : status[j] \in Active} \in SUBSET Created
  BY DEF Created, Active
<1>4. MemoryOK'
  BY <1>1, <1>3 DEF TypeOK, MemoryOK
<1>5. \A w \in WorkersOf(p) : w \in Workers /\ pc[w] = "off"
  BY WorkersOfType, WorkerParts DEF TypeOK, WorkersOK
<1>6. WorkersOK'
  BY <1>1, <1>5, WorkerParts DEF TypeOK, WorkersOK, MemoryOK, Steps
<1>7. QED
  BY <1>2, <1>4, <1>6 DEF TypeOK

LEMMA TypeReady ==
    ASSUME TypeOK, NEW p \in Procs, Ready(p)
    PROVE  TypeOK'
<1> USE DEF Ready, rows
<1>1. Created' = Created
  BY DEF Created
<1>2. RowsOK' /\ MemoryOK'
  BY <1>1 DEF TypeOK, RowsOK, MemoryOK
<1>3. WorkersOK'
  BY <1>1, WorkerParts DEF TypeOK, WorkersOK, MemoryOK, worker
<1>4. QED
  BY <1>2, <1>3 DEF TypeOK

LEMMA TypeStop ==
    ASSUME TypeOK, NEW p \in Procs, Stop(p)
    PROVE  TypeOK'
<1> DEFINE Failed(done) ==
       [j \in Jobs |-> IF \E w \in done : cur[w] = j THEN "failed" ELSE status[j]]
<1>1. PICK done \in SUBSET {w \in WorkersOf(p) : pc[w] = "fail"} : status' = Failed(done)
  BY DEF Stop
<1>2. \A w \in done : w \in Workers /\ cur[w] \in Created
  BY WorkersOfType DEF TypeOK, WorkersOK
<1>3. UNCHANGED kind
  BY DEF Stop
<1>4. \A j \in Jobs : status'[j] \in Status /\ (status'[j] = "absent" <=> status[j] = "absent")
  BY <1>1, <1>2 DEF TypeOK, RowsOK, Status, Terminal, Created
<1>5. Created' = Created
  BY <1>4 DEF Created
<1>6. status' \in [Jobs -> Status]
  BY <1>1, <1>4
<1>7. lock' \in [Jobs -> Workers \cup {Free}]
  <2>1. PICK locks \in SUBSET WorkersOf(p) : lock' = CancelledLocks(locks)
    BY DEF Stop
  <2>2. ASSUME NEW j \in Jobs
        PROVE  CancelledLocks(locks)[j] \in Workers \cup {Free}
    BY WorkersOfType DEF CancelledLocks, TypeOK, RowsOK
  <2>3. QED
    BY <2>1, <2>2 DEF CancelledLocks
<1>8. RowsOK'
  BY <1>3, <1>4, <1>6, <1>7 DEF Stop, Fault, TypeOK, RowsOK
<1>9. MemoryOK'
  BY <1>5 DEF Stop, TypeOK, MemoryOK
<1>10. ASSUME NEW w \in Workers
       PROVE  /\ pc'[w] \in Steps
              /\ cur'[w] \in Created \cup {NoJob}
              /\ seen'[w] \in Active \cup {"none"}
              /\ cur'[w] = NoJob <=> pc'[w] \in {"off", "idle"}
              /\ seen'[w] # "none" <=> pc'[w] = "lock"
              /\ phase'[w[1]] = "down" => pc'[w] = "off"
  <2>1. w \in WorkersOf(p) <=> w[1] = p
    BY WorkerParts
  <2>2. \/ CancelTarget(pc[w]) = "off"
        \/ /\ CancelTarget(pc[w]) \in {"cancel", "leave"}
           /\ pc[w] \in {"mark", "handle", "commit", "reread", "fail"}
    BY DEF CancelTarget
  <2>3. CASE w[1] = p /\ CancelTarget(pc[w]) = "off"
    BY <2>1, <2>3 DEF Stop, TypeOK, WorkersOK, Steps
  <2>4. CASE w[1] = p /\ CancelTarget(pc[w]) # "off"
    BY <2>1, <2>2, <2>4 DEF Stop, TypeOK, WorkersOK, MemoryOK, Steps, Owning
  <2>5. CASE w[1] # p
    BY <2>1, <2>5 DEF Stop, TypeOK, WorkersOK, MemoryOK
  <2>6. QED
    BY <2>3, <2>4, <2>5
<1>11. WorkersOK'
  BY <1>5, <1>10 DEF Stop, WorkersOK
<1>12. QED
  BY <1>8, <1>9, <1>11 DEF TypeOK

LEMMA TypePowerOff ==
    ASSUME TypeOK, NEW p \in Procs, Stopped(p) \/ Crash(p) \/ FailQueuedRaises(p)
    PROVE  TypeOK'
<1>1. PowerOff(p) /\ UNCHANGED <<rows, lock>> /\ faults' \in {faults, faults + 1}
  BY DEF Stopped, Crash, FailQueuedRaises, Fault
<1>2. Created' = Created
  BY <1>1 DEF Created, rows
<1>3. RowsOK'
  BY <1>1 DEF TypeOK, RowsOK, rows
<1>4. QED
  BY <1>1, <1>2, <1>3, PowerOffOK DEF TypeOK

LEMMA TypeInsert ==
    ASSUME TypeOK, NEW p \in Procs, NEW j \in Jobs, NEW k \in Requests,
           Submit(p, j, k) \/ SubmitRaises(p, j, k)
    PROVE  TypeOK'
<1>1. /\ InsertRow(j, k)
      /\ UNCHANGED <<lock, phase, queue, enqueued, retry, worker>>
      /\ faults' \in {faults, faults + 1}
      /\ pending' \in {pending, [pending EXCEPT ![p] = @ \cup {j}]}
  BY DEF Submit, SubmitRaises, Fault, volatile
<1>2. k \in Kinds /\ k # "none"
  BY ConstantsOK DEF Kinds, LadderKinds
<1>3. Created' = Created \cup {j}
  BY <1>1 DEF InsertRow, Created, TypeOK, RowsOK
<1>4. RowsOK'
  BY <1>1, <1>2 DEF InsertRow, TypeOK, RowsOK, Status, Active
<1>5. \A w \in Workers : queue[w] \in Seq(Created')
  BY <1>3 DEF TypeOK, MemoryOK
<1>6. pending' \in [Procs -> SUBSET Created']
  BY <1>1, <1>3 DEF TypeOK, MemoryOK
<1>7. MemoryOK'
  BY <1>1, <1>3, <1>5, <1>6 DEF TypeOK, MemoryOK
<1>8. WorkersOK'
  BY <1>1, <1>3 DEF TypeOK, WorkersOK, worker
<1>9. QED
  BY <1>4, <1>7, <1>8 DEF TypeOK

LEMMA TypeEnqueue ==
    ASSUME TypeOK, NEW p \in Procs, NEW j \in Jobs,
           EnqueuePending(p, j) \/ RetryEnqueue(p, j)
    PROVE  TypeOK'
<1>1. /\ Enqueue(p, j)
      /\ UNCHANGED <<rows, lock, phase, worker, faults>>
      /\ pending' \in {pending, [pending EXCEPT ![p] = @ \ {j}]}
      /\ retry' \in {retry, [retry EXCEPT ![p] = @ \ {j}]}
      /\ j \in pending[p] \cup retry[p]
  BY DEF EnqueuePending, RetryEnqueue
<1>2. Created' = Created
  BY <1>1 DEF Created, rows
<1>3. j \in Created
  BY <1>1 DEF TypeOK, MemoryOK
<1>4. enqueued' \in [Procs -> SUBSET Created] /\ queue' \in [Workers -> Seq(Created)]
  BY <1>1, <1>3, EnqueueType
<1>5. MemoryOK'
  BY <1>1, <1>2, <1>4 DEF TypeOK, MemoryOK
<1>6. RowsOK'
  BY <1>1 DEF TypeOK, RowsOK, rows
<1>7. QED
  BY <1>1, <1>2, <1>5, <1>6, WorkersFrame DEF TypeOK

LEMMA TypeQueueHead ==
    ASSUME TypeOK, NEW w \in Workers, Take(w) \/ FailQueued(w)
    PROVE  TypeOK'
<1> DEFINE j == Head(queue[w])
<1>1. j \in Created /\ Tail(queue[w]) \in Seq(Created)
  BY DEF Take, FailQueued, TypeOK, MemoryOK
<1> HIDE DEF j
<1>2. w[1] \in Procs /\ j # NoJob
  BY <1>1, WorkerParts, JobsAreNumbers
<1>3. CASE Take(w)
  <2>1. Created' = Created
    BY <1>3 DEF Take, Created, rows
  <2>2. RowsOK' /\ MemoryOK'
    BY <1>1, <1>3, <2>1 DEF Take, TypeOK, RowsOK, MemoryOK, rows
  <2>3. WorkersOK'
    BY <1>1, <1>2, <1>3, <2>1 DEF Take, Goto, TypeOK, WorkersOK, Steps, j
  <2>4. QED
    BY <2>2, <2>3 DEF TypeOK
<1>4. CASE FailQueued(w)
  <2>1. status' = [status EXCEPT ![j] = "failed"] /\ UNCHANGED kind
    BY <1>4 DEF FailQueued, j
  <2>2. /\ Created' = Created
        /\ status' \in [Jobs -> Status]
        /\ \A i \in Jobs : kind'[i] = "none" <=> status'[i] = "absent"
    BY <1>1, <2>1, StatusOK DEF Terminal
  <2>3. RowsOK'
    BY <1>4, <2>1, <2>2 DEF FailQueued, TypeOK, RowsOK
  <2>4. MemoryOK'
    BY <1>1, <1>2, <1>4, <2>2 DEF FailQueued, TypeOK, MemoryOK
  <2>5. QED
    BY <1>4, <2>2, <2>3, <2>4, WorkersFrame DEF FailQueued, TypeOK
<1>5. QED
  BY <1>3, <1>4

\* A worker step that only touches the lock, and then is done with the job.
LEMMA TypeDone ==
    ASSUME TypeOK, NEW w \in Workers, NEW again \in BOOLEAN,
           cur[w] # NoJob, Done(w, again), UNCHANGED rows,
           lock' \in [Jobs -> Workers \cup {Free}], faults' \in {faults, faults + 1}
    PROVE  TypeOK'
<1>1. Created' = Created
  BY DEF Created, rows
<1>2. RowsOK'
  BY DEF TypeOK, RowsOK, rows
<1>3. QED
  BY <1>1, <1>2, DoneOK DEF TypeOK

\* A worker step that goes on with the job it owns, and may write its row.
LEMMA TypeGoto ==
    ASSUME TypeOK, NEW w \in Workers, NEW next \in Owning, NEW s \in Active \cup Terminal,
           pc[w] \in Owning, Goto(w, next),
           status' \in {status, [status EXCEPT ![cur[w]] = s]},
           UNCHANGED <<kind, lock, volatile, cur, seen>>, faults' \in {faults, faults + 1}
    PROVE  TypeOK'
<1>1. cur[w] \in Created
  BY DEF TypeOK, WorkersOK, Owning
<1>2. /\ Created' = Created
      /\ status' \in [Jobs -> Status]
      /\ \A i \in Jobs : kind'[i] = "none" <=> status'[i] = "absent"
  <2>1. CASE status' = status
    BY <2>1 DEF Created, TypeOK, RowsOK
  <2>2. CASE status' = [status EXCEPT ![cur[w]] = s]
    BY <1>1, <2>2, StatusOK
  <2>3. QED
    BY <2>1, <2>2
<1>3. RowsOK'
  BY <1>2 DEF TypeOK, RowsOK
<1>4. WorkersOK'
  BY <1>2, GotoOK DEF volatile
<1>5. QED
  BY <1>2, <1>3, <1>4, MemoryFrame DEF TypeOK

LEMMA TypeOwn ==
    ASSUME TypeOK, NEW w \in Workers, AcquireFree(w)
    PROVE  TypeOK'
<1> USE DEF AcquireFree, Own
<1>1. Created' = Created
  BY DEF Created, rows
<1>2. AfterLock(w) \in {"mark", "handle"}
  BY DEF AfterLock
<1>3. RowsOK'
  BY DEF TypeOK, RowsOK, rows
<1>4. WorkersOK'
  BY <1>1, <1>2 DEF Goto, TypeOK, WorkersOK, Steps, Owning, volatile
<1>5. QED
  BY <1>1, <1>3, <1>4, MemoryFrame DEF TypeOK

LEMMA TypeWorker ==
    ASSUME TypeOK, NEW w \in Workers, WorkerStep(w) \/ Handler(w) \/ WorkerFault(w)
    PROVE  TypeOK'
<1>1. pc[w] \notin {"off", "idle"} => cur[w] \in Created /\ cur[w] # NoJob
  BY DEF TypeOK, WorkersOK
<1>2. UNCHANGED lock => lock' \in [Jobs -> Workers \cup {Free}]
  BY DEF TypeOK, RowsOK
<1>3. Unlocked(w) \in [Jobs -> Workers \cup {Free}]
  BY UnlockedType
<1>4. CASE Read(w)
  <2>1. CASE status[cur[w]] \in Active
    <3>1. Created' = Created
      BY <1>4 DEF Read, Created, rows
    <3>2. RowsOK'
      BY <1>4 DEF Read, TypeOK, RowsOK, rows
    <3>3. WorkersOK'
      BY <1>4, <2>1, <3>1 DEF Read, Goto, TypeOK, WorkersOK, Steps, Active, volatile
    <3>4. QED
      BY <1>4, <2>1, <3>1, <3>2, <3>3, MemoryFrame DEF Read, TypeOK
  <2>2. CASE status[cur[w]] \notin Active
    BY <1>1, <1>2, <1>4, <2>2, TypeDone DEF Read
  <2>3. QED
    BY <2>1, <2>2
<1>5. CASE AcquireTaken(w)
  BY <1>1, <1>2, <1>5, TypeDone DEF AcquireTaken
<1>6. CASE MarkRunning(w)
  BY <1>6, TypeGoto DEF MarkRunning, Active, Owning
<1>7. CASE HandlerReturns(w) \/ HandlerRaises(w)
  BY <1>7, TypeGoto DEF HandlerReturns, HandlerRaises, rows, Active, Owning
<1>8. CASE MarkSucceeded(w)
  BY <1>8, TypeGoto DEF MarkSucceeded, Terminal, Owning
<1>9. CASE Reread(w)
  BY <1>9, TypeGoto DEF Reread, rows, Active, Owning
<1>10. CASE MarkFailed(w)
  BY <1>10, TypeGoto DEF MarkFailed, Terminal, Owning
<1>11. CASE Release(w)
  BY <1>1, <1>3, <1>11, TypeDone DEF Release
<1>12. CASE Leave(w)
  <2>1. Created' = Created
    BY <1>12 DEF Leave, Created, rows
  <2>2. RowsOK'
    BY <1>3, <1>12 DEF Leave, TypeOK, RowsOK, rows
  <2>3. MemoryOK'
    BY <1>12, <2>1, WorkerParts DEF Leave, OtherIds, TypeOK, MemoryOK
  <2>4. WorkersOK'
    BY <1>12, <2>1 DEF Leave, Goto, TypeOK, WorkersOK, Steps
  <2>5. QED
    BY <2>2, <2>3, <2>4 DEF TypeOK
<1>13. CASE LookupRaises(w)
  <2>1. lock' \in [Jobs -> Workers \cup {Free}]
    BY <1>2, <1>13 DEF LookupRaises, TypeOK, RowsOK
  <2>2. QED
    BY <1>1, <1>13, <2>1, TypeDone DEF LookupRaises, Fault
<1>14. CASE UpdateRaises(w)
  BY <1>14, TypeGoto DEF UpdateRaises, Fault, rows, Active, Owning
<1>15. CASE MarkFailedRaises(w)
  BY <1>15, TypeGoto DEF MarkFailedRaises, Fault, Terminal, Owning
<1>16. CASE ReleaseRaises(w)
  BY <1>1, <1>2, <1>3, <1>16, TypeDone DEF ReleaseRaises, Fault
<1>17. QED
  BY <1>4, <1>5, <1>6, <1>7, <1>8, <1>9, <1>10, <1>11, <1>12, <1>13, <1>14, <1>15, <1>16,
     TypeQueueHead, TypeOwn DEF WorkerStep, Handler, WorkerFault

LEMMA TypeStep == TypeOK /\ [Next]_vars => TypeOK'
<1> SUFFICES ASSUME TypeOK, [Next]_vars
             PROVE  TypeOK'
  OBVIOUS
<1>1. UNCHANGED rows => Created' = Created
  BY DEF Created, rows
<1>2. CASE UNCHANGED vars
  BY <1>1, <1>2, MemoryFrame, WorkersFrame DEF vars, rows, volatile, TypeOK, RowsOK
<1>3. ASSUME NEW j \in Jobs, LockExpires(j)
      PROVE  TypeOK'
  <2>1. RowsOK'
    BY <1>3 DEF LockExpires, Fault, rows, TypeOK, RowsOK
  <2>2. QED
    BY <1>1, <1>3, <2>1, MemoryFrame, WorkersFrame DEF LockExpires, rows, volatile, TypeOK
<1>4. ASSUME NEW p \in Procs,
             Startup(p) \/ Stop(p) \/ Stopped(p) \/ Crash(p) \/ FailQueuedRaises(p)
      PROVE  TypeOK'
  BY <1>4, TypeStart, TypeReady, TypeStop, TypePowerOff DEF Startup
<1>5. QED
  BY <1>2, <1>3, <1>4, TypeInsert, TypeEnqueue, TypeWorker, TypeQueueHead DEF Next

\* Every reachable state is well formed, whatever fails: no process refers to
\* a job without a row, a worker has a job exactly while it works on one, and
\* a stored job always has a type.
THEOREM TypeCorrect == Spec => []TypeOK
BY TypeInit, TypeStep, PTL DEF Spec

-----------------------------------------------------------------------------
(* Mutual exclusion on a job.  A worker past acquire_job_lock owns the key *)
(* of its job: the invariant relates the program counter of a worker to    *)
(* the token in Redis, so that two workers on one job would be one token.  *)

LockOwned == \A w \in Workers : pc[w] \in Owning => lock[cur[w]] = w

LEMMA OwnerHasJob ==
    ASSUME TypeOK, NEW w \in Workers, pc[w] \in Owning
    PROVE  cur[w] \in Jobs
<1>1. pc[w] \notin {"off", "idle"}
  BY DEF Owning
<1>2. cur[w] \in Created
  BY <1>1 DEF TypeOK, WorkersOK
<1>3. QED
  BY <1>2, JobsAreNumbers

\* Giving the key back takes it from nobody else.
LEMMA UnlockedKeeps ==
    ASSUME TypeOK, NEW w \in Workers, NEW v \in Workers \ {w}, NEW j \in Jobs, lock[j] = v
    PROVE  Unlocked(w)[j] = v
BY DEF Unlocked, TypeOK, RowsOK

\* A step of one worker that leaves the tokens of the others alone.
LEMMA OwnedLocally ==
    ASSUME TypeOK, LockOwned, NEW w \in Workers,
           \A v \in Workers \ {w} : pc'[v] = pc[v] /\ cur'[v] = cur[v],
           \A v \in Workers \ {w}, j \in Jobs : lock[j] = v => lock'[j] = v,
           pc'[w] \in Owning => lock'[cur'[w]] = w
    PROVE  LockOwned'
<1>1. ASSUME NEW v \in Workers, pc'[v] \in Owning
      PROVE  lock'[cur'[v]] = v
  <2>1. CASE v = w
    BY <1>1, <2>1
  <2>2. CASE v # w
    <3>1. pc[v] \in Owning /\ cur'[v] = cur[v] /\ lock[cur[v]] = v
      BY <1>1, <2>2 DEF LockOwned
    <3>2. cur[v] \in Jobs
      BY <3>1, OwnerHasJob
    <3>3. QED
      BY <2>2, <3>1, <3>2
  <2>3. QED
    BY <2>1, <2>2
<1>2. QED
  BY <1>1 DEF LockOwned

LEMMA OwnedWorker ==
    ASSUME TypeOK, LockOwned, NEW w \in Workers,
           WorkerStep(w) \/ Handler(w) \/ WorkerFault(w)
    PROVE  LockOwned'
<1> USE DEF rows, volatile, Goto
<1>1. pc \in [Workers -> Steps] /\ cur \in [Workers -> Created \cup {NoJob}]
  BY DEF TypeOK, WorkersOK
<1>2. pc[w] \in Owning => lock[cur[w]] = w
  BY DEF LockOwned
<1>3. lock \in [Jobs -> Workers \cup {Free}] /\ (pc[w] \notin {"off", "idle"} => cur[w] \in Jobs)
  BY JobsAreNumbers DEF TypeOK, RowsOK, WorkersOK
<1>4. ASSUME Done(w, TRUE) \/ Done(w, FALSE)
      PROVE  /\ pc'[w] \notin Owning
             /\ \A v \in Workers \ {w} : pc'[v] = pc[v] /\ cur'[v] = cur[v]
  BY <1>1, <1>4 DEF Done, Finish, Owning
<1>5. CASE Take(w) \/ Read(w)
  <2>1. pc'[w] \notin Owning /\ UNCHANGED lock
    BY <1>1, <1>4, <1>5 DEF Take, Read, Owning
  <2>2. \A v \in Workers \ {w} : pc'[v] = pc[v] /\ cur'[v] = cur[v]
    BY <1>1, <1>4, <1>5 DEF Take, Read
  <2>3. QED
    BY <2>1, <2>2, OwnedLocally
<1>6. CASE AcquireFree(w)
  <2>1. lock[cur[w]] = Free /\ lock' = [lock EXCEPT ![cur[w]] = w] /\ cur' = cur
        /\ cur[w] \in Jobs
    BY <1>3, <1>6 DEF AcquireFree, Own
  <2>2. \A v \in Workers \ {w}, j \in Jobs : lock[j] = v => lock'[j] = v
    BY <1>3, <2>1, FreeIsNoWorker
  <2>3. lock'[cur'[w]] = w
    BY <1>3, <2>1
  <2>4. \A v \in Workers \ {w} : pc'[v] = pc[v] /\ cur'[v] = cur[v]
    BY <1>1, <1>6 DEF AcquireFree, Own
  <2>5. QED
    BY <2>2, <2>3, <2>4, OwnedLocally
<1>7. CASE AcquireTaken(w)
  BY <1>4, <1>7, OwnedLocally DEF AcquireTaken
<1>8. ASSUME pc[w] \in Owning, UNCHANGED <<lock, cur>>,
             \A v \in Workers \ {w} : pc'[v] = pc[v]
      PROVE  LockOwned'
  BY <1>2, <1>8, OwnedLocally
<1>9. CASE MarkRunning(w) \/ Handler(w) \/ MarkSucceeded(w) \/ Reread(w) \/ MarkFailed(w)
           \/ UpdateRaises(w) \/ MarkFailedRaises(w)
  BY <1>1, <1>8, <1>9 DEF MarkRunning, Handler, HandlerReturns, HandlerRaises, MarkSucceeded,
     Reread, MarkFailed, UpdateRaises, MarkFailedRaises, Owning
<1>10. CASE Release(w) \/ ReleaseRaises(w)
  <2>1. lock' \in {lock, Unlocked(w)} /\ Done(w, FALSE)
    BY <1>10 DEF Release, ReleaseRaises
  <2>2. \A v \in Workers \ {w}, j \in Jobs : lock[j] = v => lock'[j] = v
    BY <2>1, UnlockedKeeps
  <2>3. QED
    BY <1>4, <2>1, <2>2, OwnedLocally
<1>11. CASE Leave(w)
  <2>1. \A v \in Workers \ {w}, j \in Jobs : lock[j] = v => lock'[j] = v
    BY <1>11, UnlockedKeeps DEF Leave
  <2>2. pc'[w] \notin Owning /\ \A v \in Workers \ {w} : pc'[v] = pc[v] /\ cur'[v] = cur[v]
    BY <1>1, <1>11 DEF Leave, Owning
  <2>3. QED
    BY <2>1, <2>2, OwnedLocally
<1>12. CASE LookupRaises(w)
  <2>1. \A v \in Workers \ {w}, j \in Jobs : lock[j] = v => lock'[j] = v
    BY <1>3, <1>12, FreeIsNoWorker DEF LookupRaises
  <2>2. Done(w, FALSE)
    BY <1>12 DEF LookupRaises
  <2>3. QED
    BY <1>4, <2>1, <2>2, OwnedLocally
<1>13. QED
  BY <1>5, <1>6, <1>7, <1>9, <1>10, <1>11, <1>12 DEF WorkerStep, WorkerFault

LEMMA OwnedStop ==
    ASSUME TypeOK, LockOwned, NEW p \in Procs, Stop(p)
    PROVE  LockOwned'
<1> DEFINE ending == {w \in WorkersOf(p) : CancelTarget(pc[w]) = "off"}
<1>1. PICK done \in SUBSET ending : lock' = CancelledLocks(done)
  BY DEF Stop
<1>2. ASSUME NEW w \in Workers, pc'[w] \in Owning
      PROVE  lock'[cur'[w]] = w
  <2>1. pc[w] \in Owning /\ w \notin ending
    <3>1. CASE w \in WorkersOf(p)
      BY <1>2, <3>1 DEF Stop, CancelTarget, Owning
    <3>2. CASE w \notin WorkersOf(p)
      BY <1>2, <3>2 DEF Stop
    <3>3. QED
      BY <3>1, <3>2
  <2>2. cur'[w] = cur[w] /\ cur[w] \in Jobs
    BY <2>1, JobsAreNumbers DEF Stop, TypeOK, WorkersOK, Owning
  <2>3. lock[cur[w]] = w /\ w # Free
    BY <2>1, FreeIsNoWorker DEF LockOwned
  <2>4. ~\E v \in done : lock[cur[w]] = v
    BY <2>1, <2>3
  <2>5. QED
    BY <1>1, <2>2, <2>3, <2>4 DEF CancelledLocks
<1>3. QED
  BY <1>2 DEF LockOwned

LEMMA OwnedPowerOff ==
    ASSUME LockOwned, NEW p \in Procs, PowerOff(p), UNCHANGED lock
    PROVE  LockOwned'
<1>1. ASSUME NEW w \in Workers, pc'[w] \in Owning
      PROVE  pc[w] \in Owning /\ cur'[w] = cur[w]
  BY <1>1 DEF PowerOff, Owning
<1>2. QED
  BY <1>1 DEF LockOwned

LEMMA OwnedStep ==
    ASSUME "expiry" \notin Faults
    PROVE  TypeOK /\ LockOwned /\ [Next]_vars => LockOwned'
<1> SUFFICES ASSUME TypeOK, LockOwned, [Next]_vars
             PROVE  LockOwned'
  OBVIOUS
<1>1. UNCHANGED <<lock, worker>> => LockOwned'
  BY DEF LockOwned, worker
<1>2. CASE UNCHANGED vars
  BY <1>1, <1>2 DEF vars
<1>3. ASSUME NEW p \in Procs,
             Startup(p) \/ Stop(p) \/ Stopped(p) \/ Crash(p) \/ FailQueuedRaises(p)
      PROVE  LockOwned'
  <2>1. CASE Start(p)
    BY <2>1 DEF Start, StartRecovering, LockOwned, Owning
  <2>2. CASE Ready(p)
    BY <1>1, <2>2 DEF Ready
  <2>3. QED
    BY <1>3, <2>1, <2>2, OwnedStop, OwnedPowerOff
       DEF Startup, Stopped, Crash, FailQueuedRaises
<1>4. ASSUME NEW p \in Procs, NEW j \in Jobs, NEW k \in Requests,
             Submit(p, j, k) \/ SubmitRaises(p, j, k)
      PROVE  LockOwned'
  BY <1>1, <1>4 DEF Submit, SubmitRaises
<1>5. ASSUME NEW p \in Procs, NEW j \in Jobs, EnqueuePending(p, j) \/ RetryEnqueue(p, j)
      PROVE  LockOwned'
  BY <1>1, <1>5 DEF EnqueuePending, RetryEnqueue
<1>6. ASSUME NEW w \in Workers, FailQueued(w)
      PROVE  LockOwned'
  BY <1>1, <1>6 DEF FailQueued
<1>7. ASSUME NEW j \in Jobs, LockExpires(j)
      PROVE  LockOwned'
  <2>1. ~Holding(lock[j], j) /\ lock' = [lock EXCEPT ![j] = Free] /\ UNCHANGED worker
    BY <1>7 DEF LockExpires, Fault
  <2>2. ASSUME NEW w \in Workers, pc[w] \in Owning
        PROVE  lock'[cur[w]] = w
    <3>1. lock[cur[w]] = w /\ cur[w] # j
      BY <2>1, <2>2 DEF LockOwned, Holding
    <3>2. QED
      BY <2>1, <3>1 DEF TypeOK, RowsOK
  <2>3. QED
    BY <2>1, <2>2 DEF LockOwned, worker
<1>8. QED
  BY <1>2, <1>3, <1>4, <1>5, <1>6, <1>7, OwnedWorker DEF Next

\* The Redis job lock keeps two workers, of one process or of several, from
\* being at work on one job between acquire_job_lock and release_job_lock, for
\* any number of processes, jobs, crashes, stops and failing calls, as long as
\* no lock reaches its TTL under a working owner.
THEOREM OneWorkerPerJob ==
    ASSUME "expiry" \notin Faults
    PROVE  Spec => []LockExclusive
<1>1. Init => LockOwned
  BY DEF Init, LockOwned, Owning
<1>2. TypeOK /\ LockOwned /\ [Next]_vars => LockOwned'
  BY OwnedStep
<1>3. LockOwned => LockExclusive
  BY DEF LockOwned, LockExclusive, Holding
<1>4. QED
  BY <1>1, <1>2, <1>3, TypeCorrect, PTL DEF Spec

-----------------------------------------------------------------------------
(* One active row per profile.  Only the insert and mark_running make a    *)
(* row active, and both are subject to the unique index; every other write *)
(* takes rows out of it.                                                   *)

LEMMA KeyFewerActive ==
    ASSUME UniqueActiveKey, UNCHANGED kind,
           \A j \in Jobs : status'[j] \in Active => status[j] \in Active
    PROVE  UniqueActiveKey'
BY DEF UniqueActiveKey

LEMMA KeyInsert ==
    ASSUME TypeOK, UniqueActiveKey, NEW j \in Jobs, NEW k \in Requests, InsertRow(j, k)
    PROVE  UniqueActiveKey'
<1>1. /\ status' = [status EXCEPT ![j] = "queued"] /\ kind' = [kind EXCEPT ![j] = k]
      /\ ~KeyTaken(j, k)
  BY DEF InsertRow, Insertable
<1>2. \A i \in Jobs \ {j} : status'[i] = status[i] /\ kind'[i] = kind[i]
  BY <1>1 DEF TypeOK, RowsOK
<1>3. kind'[j] = k
  BY <1>1 DEF TypeOK, RowsOK
<1>4. \A i \in Jobs \ {j} :
         status[i] \in Active /\ kind[i] = k => k \notin Profiles
  BY <1>1 DEF KeyTaken
<1>5. QED
  BY <1>2, <1>3, <1>4 DEF UniqueActiveKey

LEMMA KeyMarkRunning ==
    ASSUME TypeOK, UniqueActiveKey, NEW w \in Workers, MarkRunning(w)
    PROVE  UniqueActiveKey'
<1>1. CASE KeyTaken(cur[w], kind[cur[w]])
  BY <1>1, KeyFewerActive DEF MarkRunning
<1>2. CASE ~KeyTaken(cur[w], kind[cur[w]])
  <2>1. UNCHANGED kind /\ \A i \in Jobs \ {cur[w]} : status'[i] = status[i]
    BY <1>2 DEF MarkRunning, TypeOK, RowsOK
  <2>2. \A i \in Jobs \ {cur[w]} :
           status[i] \in Active /\ kind[i] = kind[cur[w]] => kind[i] \notin Profiles
    BY <1>2 DEF KeyTaken
  <2>3. QED
    BY <2>1, <2>2 DEF UniqueActiveKey
<1>3. QED
  BY <1>1, <1>2

LEMMA KeyStep == TypeOK /\ UniqueActiveKey /\ [Next]_vars => UniqueActiveKey'
<1> SUFFICES ASSUME TypeOK, UniqueActiveKey, [Next]_vars
             PROVE  UniqueActiveKey'
  OBVIOUS
<1>1. UNCHANGED rows => UniqueActiveKey'
  BY DEF UniqueActiveKey, rows
<1>2. ASSUME NEW j, NEW s \in Terminal, UNCHANGED kind, status' = [status EXCEPT ![j] = s]
      PROVE  UniqueActiveKey'
  <2>1. \A i \in Jobs : status'[i] \in Active => status[i] \in Active
    BY <1>2 DEF TypeOK, RowsOK, Active, Terminal
  <2>2. QED
    BY <1>2, <2>1, KeyFewerActive
<1>3. CASE UNCHANGED vars
  BY <1>1, <1>3 DEF vars
<1>4. ASSUME NEW p \in Procs,
             Startup(p) \/ Stop(p) \/ Stopped(p) \/ Crash(p) \/ FailQueuedRaises(p)
      PROVE  UniqueActiveKey'
  <2>1. CASE Stop(p)
    <3>1. UNCHANGED kind
      BY <2>1 DEF Stop
    <3>2. \A j \in Jobs : status'[j] \in Active => status[j] \in Active
      BY <2>1 DEF Stop, Active
    <3>3. QED
      BY <3>1, <3>2, KeyFewerActive
  <2>2. QED
    BY <1>1, <1>4, <2>1 DEF Startup, Start, StartRecovering, Ready, Stopped, Crash,
       FailQueuedRaises
<1>5. ASSUME NEW p \in Procs, NEW j \in Jobs, EnqueuePending(p, j) \/ RetryEnqueue(p, j)
      PROVE  UniqueActiveKey'
  BY <1>1, <1>5 DEF EnqueuePending, RetryEnqueue
<1>6. ASSUME NEW p \in Procs, NEW j \in Jobs, NEW k \in Requests,
             Submit(p, j, k) \/ SubmitRaises(p, j, k)
      PROVE  UniqueActiveKey'
  BY <1>6, KeyInsert DEF Submit, SubmitRaises
<1>7. ASSUME NEW w \in Workers, WorkerStep(w) \/ Handler(w) \/ WorkerFault(w)
      PROVE  UniqueActiveKey'
  <2>1. CASE MarkSucceeded(w) \/ MarkFailed(w) \/ MarkFailedRaises(w)
    BY <1>1, <1>2, <2>1 DEF MarkSucceeded, MarkFailed, MarkFailedRaises, Terminal, rows
  <2>2. QED
    BY <1>1, <1>7, <2>1, KeyMarkRunning
       DEF WorkerStep, Handler, WorkerFault, Take, Read, AcquireFree, Own, AcquireTaken,
           HandlerReturns, HandlerRaises, Reread, Release, Leave, LookupRaises,
           UpdateRaises, ReleaseRaises
<1>8. ASSUME NEW w \in Workers, FailQueued(w)
      PROVE  UniqueActiveKey'
  BY <1>2, <1>8 DEF FailQueued, Terminal
<1>9. ASSUME NEW j \in Jobs, LockExpires(j)
      PROVE  UniqueActiveKey'
  BY <1>1, <1>9 DEF LockExpires
<1>10. QED
  BY <1>3, <1>4, <1>5, <1>6, <1>7, <1>8, <1>9 DEF Next

\* However many processes, requests, restarts, stale queue entries and faults
\* there are, no two rows of one profile target are queued or running at once.
THEOREM OneActiveJobPerProfile == Spec => []UniqueActiveKey
<1>1. Init => UniqueActiveKey
  BY DEF Init, UniqueActiveKey, Active
<1>2. QED
  BY <1>1, KeyStep, TypeCorrect, PTL DEF Spec

-----------------------------------------------------------------------------
(***************************************************************************)
(* One place per job.  In the memory of a process a job waits for its      *)
(* first enqueue, waits for a retry, waits in the queue of its lane or is  *)
(* worked on by the worker of its lane, and is enqueued in the last two.   *)
(***************************************************************************)
Distinct(q) == \A i, k \in 1 .. Len(q) : q[i] = q[k] => i = k

LEMMA DistinctCount ==
    ASSUME NEW S, NEW q \in Seq(S), Distinct(q)
    PROVE  Cardinality(Elements(q)) = Len(q)
<1>1. Len(q) \in Nat
  OBVIOUS
<1>2. IsFiniteSet(1 .. Len(q)) /\ Cardinality(1 .. Len(q)) = Len(q)
  BY <1>1, FS_Interval
<1> DEFINE f == [i \in 1 .. Len(q) |-> q[i]]
<1>3. f \in Surjection(1 .. Len(q), Elements(q)) /\ f \in Injection(1 .. Len(q), Elements(q))
  BY DEF Surjection, Injection, IsInjective, Elements, Distinct
<1> HIDE DEF f
<1> QED
  BY <1>2, <1>3, FS_Surjection

LEMMA InsertPlaces ==
    ASSUME NEW S, NEW q \in Seq(S), NEW j \in S, j \notin Elements(q), Distinct(q)
    PROVE  /\ Elements(Insert(q, j)) = Elements(q) \cup {j}
           /\ Distinct(Insert(q, j))
<1> DEFINE n == Cardinality(NotAfter(q, j))
           r == Insert(q, j)
<1>1. n \in 0 .. Len(q) /\ Len(q) \in Nat
  BY NotAfterCount
<1>2. r = SubSeq(q, 1, (n + 1) - 1) \o <<j>> \o SubSeq(q, n + 1, Len(q))
  BY DEF Insert, InsertAt
<1> HIDE DEF n, r
<1>3. /\ Len(r) = Len(q) + 1
      /\ \A i \in 1 .. n : r[i] = q[i]
      /\ r[n + 1] = j
      /\ \A i \in n + 2 .. Len(q) + 1 : r[i] = q[i - 1]
  <2> DEFINE a == SubSeq(q, 1, n)
             b == SubSeq(q, n + 1, Len(q))
             c == a \o <<j>>
  <2>1. \A i \in 1 .. Len(q) : q[i] \in S
    BY ElementOfSeq
  <2>2. a \in Seq(S) /\ Len(a) = n /\ \A i \in 1 .. n : a[i] = q[i]
    <3>1. \A i \in 1 .. n : q[i] \in S
      BY <1>1, <2>1
    <3>2. 1 \in Int /\ n \in Int
      BY <1>1
    <3>3. /\ a \in Seq(S)
          /\ Len(a) = IF 1 <= n THEN n - 1 + 1 ELSE 0
          /\ \A i \in 1 .. n - 1 + 1 : a[i] = q[1 + i - 1]
      BY <3>1, <3>2, SubSeqProperties
    <3> HIDE DEF a
    <3> QED
      BY <1>1, <3>3
  <2>3. /\ b \in Seq(S) /\ Len(b) = Len(q) - n
        /\ \A i \in 1 .. Len(q) - n : b[i] = q[n + i]
    <3>1. \A i \in n + 1 .. Len(q) : q[i] \in S
      BY <1>1, <2>1
    <3>2. n + 1 \in Int /\ Len(q) \in Int
      BY <1>1
    <3>3. /\ b \in Seq(S)
          /\ Len(b) = IF n + 1 <= Len(q) THEN Len(q) - (n + 1) + 1 ELSE 0
          /\ \A i \in 1 .. Len(q) - (n + 1) + 1 : b[i] = q[n + 1 + i - 1]
      BY <3>1, <3>2, SubSeqProperties
    <3> HIDE DEF b
    <3> QED
      BY <1>1, <3>3
  <2>4. <<j>> \in Seq(S) /\ Len(<<j>>) = 1 /\ <<j>>[1] = j
    OBVIOUS
  <2>5. r = c \o b
    <3>1. (n + 1) - 1 = n
      BY <1>1
    <3> QED
      BY <1>2, <3>1
  <2> HIDE DEF a, b
  <2>6. /\ c \in Seq(S) /\ Len(c) = n + 1
        /\ \A i \in 1 .. n : c[i] = a[i]
        /\ c[n + 1] = j
    <3>1. /\ c \in Seq(S)
          /\ Len(c) = Len(a) + Len(<<j>>)
          /\ \A i \in 1 .. Len(a) + Len(<<j>>) :
                c[i] = IF i <= Len(a) THEN a[i] ELSE <<j>>[i - Len(a)]
      BY <2>2, <2>4, ConcatProperties
    <3> HIDE DEF c
    <3> QED
      BY <1>1, <2>2, <2>4, <3>1
  <2> HIDE DEF c
  <2>7. /\ Len(r) = (n + 1) + Len(b)
        /\ \A i \in 1 .. n + 1 : r[i] = c[i]
        /\ \A i \in n + 2 .. (n + 1) + Len(b) : r[i] = b[i - (n + 1)]
    <3>1. /\ Len(r) = Len(c) + Len(b)
          /\ \A i \in 1 .. Len(c) + Len(b) :
                r[i] = IF i <= Len(c) THEN c[i] ELSE b[i - Len(c)]
      BY <2>3, <2>5, <2>6, ConcatProperties
    <3>2. Len(c) = n + 1 /\ n \in Nat /\ Len(b) \in Nat
      BY <1>1, <2>3, <2>6
    <3>3. ASSUME NEW i \in n + 2 .. (n + 1) + Len(b)
          PROVE  r[i] = b[i - (n + 1)]
      <4>1. i \in 1 .. Len(c) + Len(b) /\ ~(i <= Len(c))
        BY <3>2
      <4> QED
        BY <3>1, <3>2, <4>1
    <3>4. ASSUME NEW i \in 1 .. n + 1
          PROVE  r[i] = c[i]
      <4>1. i \in 1 .. Len(c) + Len(b) /\ i <= Len(c)
        BY <3>2
      <4> QED
        BY <3>1, <4>1
    <3> QED
      BY <3>1, <3>2, <3>3, <3>4
  <2>8. ASSUME NEW i \in n + 2 .. Len(q) + 1
        PROVE  r[i] = q[i - 1]
    <3>1. /\ i \in n + 2 .. (n + 1) + Len(b)
          /\ i - (n + 1) \in 1 .. Len(q) - n
          /\ n + (i - (n + 1)) = i - 1
      BY <1>1, <2>3
    <3>2. r[i] = b[i - (n + 1)] /\ b[i - (n + 1)] = q[n + (i - (n + 1))]
      BY <2>3, <2>7, <3>1
    <3> QED
      BY <3>1, <3>2
  <2>9. Len(r) = Len(q) + 1 /\ r[n + 1] = j
    BY <1>1, <2>3, <2>6, <2>7
  <2>10. \A i \in 1 .. n : r[i] = q[i]
    BY <1>1, <2>2, <2>6, <2>7
  <2> QED
    BY <2>8, <2>9, <2>10
<1>4. \A i \in 1 .. Len(q) + 1 : i \in 1 .. n \/ i = n + 1 \/ i \in n + 2 .. Len(q) + 1
  BY <1>1
<1>5. \A i \in 1 .. Len(q) : q[i] # j
  BY DEF Elements
<1>6. Elements(r) = Elements(q) \cup {j}
  <2>1. \A i \in 1 .. Len(r) : r[i] \in Elements(q) \cup {j}
    BY <1>1, <1>3, <1>4 DEF Elements
  <2>2. \A i \in 1 .. Len(q) : \E k \in 1 .. Len(r) : r[k] = q[i]
    <3>1. \A i \in 1 .. n : i \in 1 .. Len(r) /\ r[i] = q[i]
      BY <1>1, <1>3
    <3>2. \A i \in n + 1 .. Len(q) : i + 1 \in 1 .. Len(r) /\ r[i + 1] = q[i]
      BY <1>1, <1>3
    <3> QED
      BY <1>1, <3>1, <3>2
  <2>3. n + 1 \in 1 .. Len(r)
    BY <1>1, <1>3
  <2> QED
    BY <1>3, <2>1, <2>2, <2>3 DEF Elements
<1>7. Distinct(r)
  <2> SUFFICES ASSUME NEW i \in 1 .. Len(q) + 1, NEW k \in 1 .. Len(q) + 1, r[i] = r[k]
               PROVE  i = k
    BY <1>3 DEF Distinct
  <2> DEFINE Old(x) == IF x <= n THEN x ELSE x - 1
  <2>1. \A x \in 1 .. Len(q) + 1 : x # n + 1 => Old(x) \in 1 .. Len(q) /\ r[x] = q[Old(x)]
    BY <1>1, <1>3
  <2>2. \A x, y \in 1 .. Len(q) + 1 : x # n + 1 /\ y # n + 1 /\ Old(x) = Old(y) => x = y
    BY <1>1
  <2> HIDE DEF Old
  <2>3. i = n + 1 <=> k = n + 1
    BY <1>3, <1>5, <2>1
  <2> QED
    BY <2>1, <2>2, <2>3 DEF Distinct
<1> QED
  BY <1>6, <1>7 DEF r

LEMMA TailPlaces ==
    ASSUME NEW S, NEW q \in Seq(S), q # <<>>, Distinct(q)
    PROVE  /\ Head(q) \in Elements(q) /\ Head(q) \in S
           /\ Elements(Tail(q)) = Elements(q) \ {Head(q)}
           /\ Distinct(Tail(q))
<1>1. /\ Len(q) \in Nat \ {0} /\ Head(q) = q[1] /\ Len(Tail(q)) = Len(q) - 1
      /\ \A i \in 1 .. Len(q) - 1 : Tail(q)[i] = q[i + 1]
  OBVIOUS
<1>2. \A i \in 1 .. Len(q) : i = 1 \/ (i - 1 \in 1 .. Len(q) - 1 /\ Tail(q)[i - 1] = q[i])
  BY <1>1
<1>3. \A i \in 1 .. Len(q) - 1 : i + 1 \in 1 .. Len(q) /\ i + 1 # 1
  BY <1>1
<1>4. Elements(Tail(q)) = Elements(q) \ {Head(q)}
  <2>1. \A i \in 1 .. Len(q) - 1 : Tail(q)[i] \in Elements(q) \ {Head(q)}
    BY <1>1, <1>3 DEF Elements, Distinct
  <2>2. \A i \in 1 .. Len(q) : q[i] = Head(q) \/ q[i] \in Elements(Tail(q))
    BY <1>1, <1>2 DEF Elements
  <2> QED
    BY <1>1, <2>1, <2>2 DEF Elements
<1>5. Distinct(Tail(q))
  BY <1>1, <1>3 DEF Distinct
<1>6. Head(q) \in Elements(q) /\ Head(q) \in S
  BY <1>1 DEF Elements
<1> QED
  BY <1>4, <1>5, <1>6

LEMMA NoPlaces == Elements(<<>>) = {} /\ Distinct(<<>>)
  BY DEF Elements, Distinct

PlaceOK(p) ==
    /\ \A w \in WorkersOf(p) :
          /\ Distinct(queue[w])
          /\ \A j \in Elements(queue[w]) : LaneOf(kind[j]) = w[2] /\ j \in enqueued[p]
          /\ cur[w] # NoJob => /\ LaneOf(kind[cur[w]]) = w[2] /\ cur[w] \in enqueued[p]
                               /\ cur[w] \notin Elements(queue[w])
    /\ \A j \in enqueued[p] : \E w \in WorkersOf(p) : j \in Elements(queue[w]) \/ cur[w] = j
    /\ enqueued[p] \cap (retry[p] \cup pending[p]) = {}
    /\ retry[p] \cap pending[p] = {}
    /\ phase[p] = "down" => pending[p] = {} /\ enqueued[p] = {} /\ retry[p] = {}

PlacesOK == \A p \in Procs : PlaceOK(p)

LEMMA PlacesAre ==
    ASSUME TypeOK
    PROVE  /\ \A w \in Workers : /\ queue[w] \in Seq(Created)
                                 /\ Elements(queue[w]) \subseteq Created
                                 /\ cur[w] \in Created \cup {NoJob}
           /\ \A p \in Procs : pending[p] \cup enqueued[p] \cup retry[p] \subseteq Created
           /\ NoJob \notin Created
<1>1. ASSUME NEW w \in Workers
      PROVE  /\ queue[w] \in Seq(Created) /\ Elements(queue[w]) \subseteq Created
             /\ cur[w] \in Created \cup {NoJob}
  <2>1. queue[w] \in Seq(Created) /\ cur[w] \in Created \cup {NoJob}
    BY DEF TypeOK, MemoryOK, WorkersOK
  <2>2. \A i \in 1 .. Len(queue[w]) : queue[w][i] \in Created
    BY <2>1, ElementOfSeq
  <2> QED
    BY <2>1, <2>2 DEF Elements
<1> QED
  BY <1>1, JobsAreNumbers DEF TypeOK, MemoryOK

\* Two workers of a process have different lanes, hence different jobs.
LEMMA LanesDiffer ==
    ASSUME NEW p \in Procs, NEW v \in WorkersOf(p), NEW w \in WorkersOf(p), v[2] = w[2]
    PROVE  v = w
  BY DEF WorkersOf

\* What a process knows, where nothing of it changes.
LEMMA PlaceFrame ==
    ASSUME TypeOK, NEW p \in Procs, PlaceOK(p),
           pending'[p] = pending[p], enqueued'[p] = enqueued[p], retry'[p] = retry[p],
           phase'[p] = "down" => phase[p] = "down",
           \A w \in WorkersOf(p) : queue'[w] = queue[w] /\ cur'[w] = cur[w],
           \A j \in Created : kind'[j] = kind[j]
    PROVE  PlaceOK(p)'
<1>1. \A w \in WorkersOf(p) : /\ Elements(queue[w]) \subseteq Created
                              /\ cur[w] \in Created \cup {NoJob}
                              /\ Elements(queue[w])' = Elements(queue[w])
                              /\ Distinct(queue[w])' <=> Distinct(queue[w])
  BY PlacesAre, WorkersOfType DEF Elements, Distinct
<1> QED
  BY <1>1 DEF PlaceOK

LEMMA PlaceEnqueue ==
    ASSUME TypeOK, NEW p \in Procs, PlaceOK(p), NEW j \in pending[p] \cup retry[p],
           Enqueue(p, j), UNCHANGED <<kind, phase, cur>>,
           \/ pending'[p] = pending[p] \ {j} /\ retry'[p] = retry[p] /\ j \in pending[p]
           \/ retry'[p] = retry[p] \ {j} /\ pending'[p] = pending[p] /\ j \in retry[p]
    PROVE  PlaceOK(p)'
<1> DEFINE home == WorkerFor(p, j)
<1>1. j \in Created /\ j \in Jobs /\ j # NoJob /\ j \notin enqueued[p]
  <2>1. j \notin enqueued[p]
    BY DEF PlaceOK
  <2>2. pending[p] \cup retry[p] \subseteq Created
    BY PlacesAre
  <2> QED
    BY <2>1, <2>2, JobsAreNumbers
<1>2. home \in Workers /\ home \in WorkersOf(p) /\ home[2] = LaneOf(kind[j])
  BY <1>1, WorkerForType DEF WorkerFor, WorkersOf, LaneOf, Lanes
<1>3. /\ enqueued'[p] = enqueued[p] \cup {j}
      /\ queue'[home] = Insert(queue[home], j)
      /\ \A w \in WorkersOf(p) \ {home} : queue'[w] = queue[w]
  BY <1>1, <1>2, WorkersOfType DEF Enqueue, TypeOK, MemoryOK
<1> HIDE DEF home
<1>4. \A w \in WorkersOf(p) : j \notin Elements(queue[w]) /\ cur[w] # j
  BY <1>1 DEF PlaceOK
<1>5. /\ Elements(queue'[home]) = Elements(queue[home]) \cup {j}
      /\ Distinct(queue'[home])
  <2>1. queue[home] \in Seq(Created) /\ Distinct(queue[home]) /\ j \notin Elements(queue[home])
    BY <1>2, <1>4, PlacesAre DEF PlaceOK
  <2> QED
    BY <1>1, <1>3, <2>1, InsertPlaces
<1>6. \A w \in WorkersOf(p) :
         /\ Distinct(queue'[w])
         /\ \A i \in Elements(queue'[w]) : LaneOf(kind[i]) = w[2] /\ i \in enqueued'[p]
         /\ cur[w] # NoJob => /\ LaneOf(kind[cur[w]]) = w[2] /\ cur[w] \in enqueued'[p]
                              /\ cur[w] \notin Elements(queue'[w])
  <2>1. ASSUME NEW w \in WorkersOf(p), w # home
        PROVE  queue'[w] = queue[w]
    BY <1>3, <2>1
  <2> QED
    BY <1>2, <1>3, <1>4, <1>5, <2>1 DEF PlaceOK
<1>7. \A i \in enqueued'[p] : \E w \in WorkersOf(p) : i \in Elements(queue'[w]) \/ cur[w] = i
  <2>1. ASSUME NEW w \in WorkersOf(p)
        PROVE  Elements(queue[w]) \subseteq Elements(queue'[w])
    BY <1>3, <1>5
  <2> QED
    BY <1>2, <1>3, <1>5, <2>1 DEF PlaceOK
<1>8. /\ enqueued'[p] \cap (retry'[p] \cup pending'[p]) = {}
      /\ retry'[p] \cap pending'[p] = {}
  BY <1>3 DEF PlaceOK
<1>9. phase'[p] # "down"
  BY DEF PlaceOK
<1> QED
  BY <1>6, <1>7, <1>8, <1>9 DEF PlaceOK

\* A worker, or stop(), takes the head of a queue; cur is the worker's.
LEMMA PlaceHead ==
    ASSUME TypeOK, NEW w \in Workers, PlaceOK(w[1]), Take(w) \/ FailQueued(w)
    PROVE  PlaceOK(w[1])'
<1> DEFINE p == w[1]
           j == Head(queue[w])
<1>1. p \in Procs /\ w \in WorkersOf(p)
  BY WorkerParts
<1>2. /\ queue[w] # <<>> /\ UNCHANGED <<kind, phase, pending, retry>>
      /\ queue' = [queue EXCEPT ![w] = Tail(@)]
  BY DEF Take, FailQueued, rows
<1>3. queue[w] \in Seq(Created) /\ Distinct(queue[w])
  BY <1>1, PlacesAre DEF PlaceOK
<1>4. /\ j \in Elements(queue[w]) /\ j \in Created
      /\ Elements(Tail(queue[w])) = Elements(queue[w]) \ {j}
      /\ Distinct(Tail(queue[w]))
  BY <1>2, <1>3, TailPlaces
<1>5. queue'[w] = Tail(queue[w]) /\ \A v \in WorkersOf(p) \ {w} : queue'[v] = queue[v]
  BY <1>1, <1>2, WorkersOfType DEF TypeOK, MemoryOK
<1>6. j \in enqueued[p] /\ LaneOf(kind[j]) = w[2] /\ j # NoJob
  BY <1>1, <1>4, PlacesAre DEF PlaceOK
<1>7. \A v \in WorkersOf(p) \ {w} : j \notin Elements(queue[v]) /\ cur[v] # j
  BY <1>1, <1>6, LanesDiffer DEF PlaceOK
<1> HIDE DEF j, p
<1>8. CASE Take(w)
  <2>1. /\ enqueued' = enqueued /\ cur'[w] = j
        /\ \A v \in WorkersOf(p) \ {w} : cur'[v] = cur[v]
    BY <1>1, <1>8, WorkersOfType DEF Take, TypeOK, WorkersOK, j
  <2>2. cur[w] = NoJob
    BY <1>8 DEF Take, TypeOK, WorkersOK
  <2>3. \A v \in WorkersOf(p) :
           /\ Distinct(queue'[v])
           /\ \A i \in Elements(queue'[v]) : LaneOf(kind[i]) = v[2] /\ i \in enqueued[p]
           /\ cur'[v] # NoJob => /\ LaneOf(kind[cur'[v]]) = v[2] /\ cur'[v] \in enqueued[p]
                                 /\ cur'[v] \notin Elements(queue'[v])
    <3>1. ASSUME NEW v \in WorkersOf(p), v # w
          PROVE  queue'[v] = queue[v] /\ cur'[v] = cur[v]
      BY <1>5, <2>1, <3>1
    <3> QED
      BY <1>1, <1>4, <1>5, <1>6, <2>1, <3>1 DEF PlaceOK, p
  <2>4. \A i \in enqueued[p] : \E v \in WorkersOf(p) : i \in Elements(queue'[v]) \/ cur'[v] = i
    <3>1. ASSUME NEW i \in enqueued[p], NEW v \in WorkersOf(p),
                 i \in Elements(queue[v]) \/ cur[v] = i
          PROVE  i \in Elements(queue'[v]) \/ cur'[v] = i
      <4>1. i # NoJob
        BY <1>1, <3>1, PlacesAre
      <4> QED
        BY <1>4, <1>5, <2>1, <2>2, <3>1, <4>1
    <3> QED
      BY <3>1 DEF PlaceOK, p
  <2> QED
    BY <1>2, <2>1, <2>3, <2>4 DEF PlaceOK, p
<1>9. CASE FailQueued(w)
  <2>1. enqueued'[p] = enqueued[p] \ {j} /\ UNCHANGED cur
    BY <1>1, <1>9 DEF FailQueued, TypeOK, MemoryOK, worker, j, p
  <2>2. cur[w] # j
    BY <1>1, <1>4, <1>6 DEF PlaceOK, p
  <2>3. \A v \in WorkersOf(p) :
           /\ Distinct(queue'[v])
           /\ \A i \in Elements(queue'[v]) : LaneOf(kind[i]) = v[2] /\ i \in enqueued'[p]
           /\ cur[v] # NoJob => /\ LaneOf(kind[cur[v]]) = v[2] /\ cur[v] \in enqueued'[p]
                                /\ cur[v] \notin Elements(queue'[v])
    <3>1. ASSUME NEW v \in WorkersOf(p), v # w
          PROVE  queue'[v] = queue[v]
      BY <1>5, <3>1
    <3> QED
      BY <1>1, <1>4, <1>5, <1>7, <2>1, <2>2, <3>1 DEF PlaceOK, p
  <2>4. \A i \in enqueued'[p] : \E v \in WorkersOf(p) : i \in Elements(queue'[v]) \/ cur[v] = i
    <3>1. ASSUME NEW i \in enqueued'[p], NEW v \in WorkersOf(p), i \in Elements(queue[v])
          PROVE  i \in Elements(queue'[v])
      BY <1>4, <1>5, <2>1, <3>1
    <3> QED
      BY <2>1, <3>1 DEF PlaceOK, p
  <2> QED
    BY <1>2, <2>1, <2>3, <2>4 DEF PlaceOK, p
<1> QED
  BY <1>8, <1>9

\* A worker is done with its job: it forgets the id, and may leave the job to
\* a retry.
LEMMA PlaceForget ==
    ASSUME TypeOK, NEW w \in Workers, PlaceOK(w[1]), cur[w] # NoJob,
           UNCHANGED <<kind, phase, pending, queue>>,
           cur' = [cur EXCEPT ![w] = NoJob],
           enqueued' = [enqueued EXCEPT ![w[1]] = OtherIds(w)],
           retry'[w[1]] \in {retry[w[1]], retry[w[1]] \cup {cur[w]}}
    PROVE  PlaceOK(w[1])'
<1> DEFINE p == w[1]
<1>1. p \in Procs /\ w \in WorkersOf(p)
  BY WorkerParts
<1>2. /\ cur'[w] = NoJob /\ \A v \in WorkersOf(p) \ {w} : cur'[v] = cur[v]
      /\ enqueued'[p] = enqueued[p] \ {cur[w]}
  BY <1>1, WorkersOfType DEF TypeOK, WorkersOK, MemoryOK, OtherIds
<1>3. cur[w] \in enqueued[p] /\ cur[w] \notin Elements(queue[w])
  BY <1>1 DEF PlaceOK
<1>4. \A v \in WorkersOf(p) \ {w} : cur[w] \notin Elements(queue[v]) /\ cur[v] # cur[w]
  BY <1>1, LanesDiffer DEF PlaceOK
<1>5. NoJob \notin enqueued[p]
  BY <1>1, PlacesAre
<1> HIDE DEF p
<1>6. \A v \in WorkersOf(p) :
         /\ Distinct(queue[v])
         /\ \A j \in Elements(queue[v]) : LaneOf(kind[j]) = v[2] /\ j \in enqueued'[p]
         /\ cur'[v] # NoJob => /\ LaneOf(kind[cur'[v]]) = v[2] /\ cur'[v] \in enqueued'[p]
                               /\ cur'[v] \notin Elements(queue[v])
  <2>1. ASSUME NEW v \in WorkersOf(p), v # w
        PROVE  cur'[v] = cur[v]
    BY <1>2, <2>1
  <2> QED
    BY <1>2, <1>3, <1>4, <2>1 DEF PlaceOK, p
<1>7. \A j \in enqueued'[p] : \E v \in WorkersOf(p) : j \in Elements(queue[v]) \/ cur'[v] = j
  <2>1. ASSUME NEW j \in enqueued'[p], NEW v \in WorkersOf(p), cur[v] = j
        PROVE  cur'[v] = j
    BY <1>2, <2>1
  <2> QED
    BY <1>2, <2>1 DEF PlaceOK, p
<1>8. /\ enqueued'[p] \cap (retry'[p] \cup pending'[p]) = {}
      /\ retry'[p] \cap pending'[p] = {}
  BY <1>2, <1>3 DEF PlaceOK, p
<1>9. phase'[p] # "down"
  BY <1>3 DEF PlaceOK, p
<1> QED
  BY <1>6, <1>7, <1>8, <1>9 DEF PlaceOK, p

LEMMA PlaceStop ==
    ASSUME TypeOK, NEW p \in Procs, PlaceOK(p), Stop(p)
    PROVE  PlaceOK(p)'
<1> DEFINE ending == {w \in WorkersOf(p) : CancelTarget(pc[w]) = "off"}
<1>1. /\ UNCHANGED <<kind, pending, queue>> /\ phase'[p] = "stopping"
      /\ pending[p] = {} /\ retry'[p] = {}
      /\ enqueued'[p] = enqueued[p] \ {cur[w] : w \in ending}
      /\ \A w \in WorkersOf(p) : cur'[w] = IF w \in ending THEN NoJob ELSE cur[w]
  BY WorkersOfType DEF Stop, TypeOK, MemoryOK
<1> HIDE DEF ending
<1>2. ending \subseteq WorkersOf(p)
  BY DEF ending
<1>3. \A v, w \in WorkersOf(p) : cur[w] # NoJob =>
         cur[w] \notin Elements(queue[v]) /\ (cur[v] = cur[w] => v = w)
  BY LanesDiffer DEF PlaceOK
<1>4. NoJob \notin enqueued[p]
  BY PlacesAre
<1>5. \A w \in WorkersOf(p) :
         /\ Distinct(queue[w])
         /\ \A j \in Elements(queue[w]) : LaneOf(kind[j]) = w[2] /\ j \in enqueued'[p]
         /\ cur'[w] # NoJob => /\ LaneOf(kind[cur'[w]]) = w[2] /\ cur'[w] \in enqueued'[p]
                               /\ cur'[w] \notin Elements(queue[w])
  <2> SUFFICES ASSUME NEW w \in WorkersOf(p)
               PROVE  /\ \A j \in Elements(queue[w]) : j \in enqueued'[p]
                      /\ cur'[w] # NoJob => cur'[w] = cur[w] /\ cur'[w] \in enqueued'[p]
    BY DEF PlaceOK
  <2>1. \A j \in Elements(queue[w]) : j \in enqueued'[p]
    BY <1>1, <1>2, <1>3, <1>4 DEF PlaceOK
  <2>2. cur'[w] # NoJob => cur'[w] = cur[w] /\ cur'[w] \in enqueued'[p]
    BY <1>1, <1>2, <1>3 DEF PlaceOK
  <2> QED
    BY <2>1, <2>2
<1>6. \A j \in enqueued'[p] : \E w \in WorkersOf(p) : j \in Elements(queue[w]) \/ cur'[w] = j
  BY <1>1, <1>2 DEF PlaceOK
<1> QED
  BY <1>1, <1>5, <1>6 DEF PlaceOK

LEMMA PlacePowerOff ==
    ASSUME TypeOK, NEW p \in Procs, PowerOff(p)
    PROVE  PlaceOK(p)'
<1>1. /\ pending'[p] = {} /\ enqueued'[p] = {} /\ retry'[p] = {}
      /\ \A w \in WorkersOf(p) : queue'[w] = <<>> /\ cur'[w] = NoJob
  BY WorkersOfType DEF PowerOff, TypeOK, MemoryOK
<1> QED
  BY <1>1, NoPlaces DEF PlaceOK

LEMMA PlaceStart ==
    ASSUME TypeOK, NEW p \in Procs, PlaceOK(p), Start(p)
    PROVE  PlaceOK(p)'
<1>1. /\ UNCHANGED <<kind, queue, enqueued, retry, cur>> /\ phase'[p] # "down"
      /\ enqueued[p] = {} /\ retry[p] = {}
  BY DEF Start, StartRecovering, rows, TypeOK, MemoryOK, PlaceOK
<1> QED
  BY <1>1 DEF PlaceOK

LEMMA PlaceSubmit ==
    ASSUME TypeOK, NEW p \in Procs, PlaceOK(p), NEW j \in Jobs, NEW k \in Requests,
           Submit(p, j, k)
    PROVE  PlaceOK(p)'
<1>1. j \notin Created
  BY DEF Submit, InsertRow, Insertable, Created
<1>2. /\ UNCHANGED <<phase, queue, enqueued, retry, cur>>
      /\ pending'[p] = pending[p] \cup {j} /\ phase[p] # "down"
      /\ \A i \in Created : kind'[i] = kind[i]
  BY <1>1 DEF Submit, InsertRow, worker, TypeOK, RowsOK, MemoryOK, Created
<1>3. /\ \A w \in WorkersOf(p) : Elements(queue[w]) \subseteq Created
                                 /\ cur[w] \in Created \cup {NoJob}
      /\ enqueued[p] \cup retry[p] \subseteq Created
  BY PlacesAre, WorkersOfType
<1> QED
  BY <1>1, <1>2, <1>3 DEF PlaceOK

\* A step of one process leaves the memory of the others alone.
LEMMA PlacesLocal ==
    ASSUME TypeOK, PlacesOK, NEW p \in Procs, PlaceOK(p)',
           \A q \in Procs \ {p} : /\ pending'[q] = pending[q] /\ enqueued'[q] = enqueued[q]
                                  /\ retry'[q] = retry[q] /\ phase'[q] = phase[q],
           \A w \in Workers : w[1] # p => queue'[w] = queue[w] /\ cur'[w] = cur[w],
           \A j \in Created : kind'[j] = kind[j]
    PROVE  PlacesOK'
<1>1. ASSUME NEW q \in Procs, q # p
      PROVE  PlaceOK(q)'
  <2>1. \A w \in WorkersOf(q) : queue'[w] = queue[w] /\ cur'[w] = cur[w]
    BY <1>1, WorkersOfType, WorkerParts
  <2> QED
    BY <1>1, <2>1, PlaceFrame DEF PlacesOK
<1> QED
  BY <1>1 DEF PlacesOK

LEMMA PlacesSame ==
    ASSUME TypeOK, PlacesOK, UNCHANGED <<pending, enqueued, retry, queue, cur, kind>>,
           \A p \in Procs : phase'[p] = "down" => phase[p] = "down"
    PROVE  PlacesOK'
  BY PlaceFrame DEF PlacesOK

LEMMA PlacesWorker ==
    ASSUME TypeOK, PlacesOK, NEW w \in Workers,
           WorkerStep(w) \/ Handler(w) \/ WorkerFault(w) \/ FailQueued(w)
    PROVE  PlacesOK'
<1>1. w[1] \in Procs /\ PlaceOK(w[1])
  BY WorkerParts DEF PlacesOK
<1>2. pc[w] \notin {"off", "idle"} => cur[w] # NoJob
  BY DEF TypeOK, WorkersOK
<1>3. CASE Take(w) \/ FailQueued(w)
  <2>1. PlaceOK(w[1])'
    BY <1>1, <1>3, PlaceHead
  <2>2. \A v \in Workers : v[1] # w[1] => queue'[v] = queue[v] /\ cur'[v] = cur[v]
    BY <1>3 DEF Take, FailQueued, worker, TypeOK, MemoryOK, WorkersOK
  <2>3. /\ \A q \in Procs \ {w[1]} : enqueued'[q] = enqueued[q]
        /\ UNCHANGED <<pending, retry, phase, kind>>
    BY <1>3 DEF Take, FailQueued, rows, TypeOK, MemoryOK
  <2> QED
    BY <1>1, <2>1, <2>2, <2>3, PlacesLocal
<1>4. ASSUME cur[w] # NoJob, UNCHANGED <<kind, phase, pending, queue>>,
             cur' = [cur EXCEPT ![w] = NoJob],
             enqueued' = [enqueued EXCEPT ![w[1]] = OtherIds(w)],
             NEW retries \in {{}, {cur[w]}},
             retry' = [retry EXCEPT ![w[1]] = @ \cup retries]
      PROVE  PlacesOK'
  <2>1. retry'[w[1]] \in {retry[w[1]], retry[w[1]] \cup {cur[w]}}
    BY <1>1, <1>4 DEF TypeOK, MemoryOK
  <2>2. PlaceOK(w[1])'
    BY <1>1, <1>4, <2>1, PlaceForget
  <2>3. \A v \in Workers : v[1] # w[1] => queue'[v] = queue[v] /\ cur'[v] = cur[v]
    BY <1>4 DEF TypeOK, WorkersOK
  <2>4. \A q \in Procs \ {w[1]} : /\ pending'[q] = pending[q] /\ enqueued'[q] = enqueued[q]
                                  /\ retry'[q] = retry[q] /\ phase'[q] = phase[q]
    BY <1>4 DEF TypeOK, MemoryOK
  <2> QED
    BY <1>1, <1>4, <2>2, <2>3, <2>4, PlacesLocal
<1>5. ASSUME cur[w] # NoJob, UNCHANGED kind, NEW again \in BOOLEAN, Done(w, again)
      PROVE  PlacesOK'
  <2>1. Retries(w, again) \in {{}, {cur[w]}}
    BY DEF Retries
  <2> QED
    BY <1>4, <1>5, <2>1 DEF Done, Finish
<1>6. CASE Leave(w)
  <2>1. retry' = [retry EXCEPT ![w[1]] = @ \cup {}]
    BY <1>6 DEF Leave, TypeOK, MemoryOK
  <2> QED
    BY <1>2, <1>4, <1>6, <2>1 DEF Leave, rows
<1>7. CASE AcquireTaken(w) \/ Release(w) \/ LookupRaises(w) \/ ReleaseRaises(w)
  BY <1>2, <1>5, <1>7 DEF AcquireTaken, Release, LookupRaises, ReleaseRaises, rows
<1>8. CASE Read(w)
  <2>1. CASE status[cur[w]] \in Active
    BY <1>8, <2>1, PlacesSame DEF Read, rows, volatile
  <2>2. CASE status[cur[w]] \notin Active
    BY <1>2, <1>5, <1>8, <2>2 DEF Read, rows
  <2> QED
    BY <2>1, <2>2
<1>9. CASE \/ AcquireFree(w) \/ MarkRunning(w) \/ Handler(w) \/ MarkSucceeded(w) \/ Reread(w)
           \/ MarkFailed(w) \/ UpdateRaises(w) \/ MarkFailedRaises(w)
  <2>1. UNCHANGED <<pending, enqueued, retry, queue, cur, kind, phase>>
    BY <1>9 DEF AcquireFree, Own, MarkRunning, Handler, HandlerReturns, HandlerRaises,
       MarkSucceeded, Reread, MarkFailed, UpdateRaises, MarkFailedRaises, rows, volatile
  <2> QED
    BY <2>1, PlacesSame
<1> QED
  BY <1>3, <1>6, <1>7, <1>8, <1>9 DEF WorkerStep, WorkerFault

LEMMA PlacesProcess ==
    ASSUME TypeOK, PlacesOK, NEW p \in Procs,
           Startup(p) \/ Stop(p) \/ Stopped(p) \/ Crash(p) \/ FailQueuedRaises(p)
    PROVE  PlacesOK'
<1>1. PlaceOK(p)
  BY DEF PlacesOK
<1>2. CASE Ready(p)
  <2>1. \A q \in Procs : phase'[q] = "down" => phase[q] = "down"
    BY <1>2 DEF Ready, TypeOK, MemoryOK
  <2> QED
    BY <1>2, <2>1, PlacesSame DEF Ready, rows, worker
<1>3. CASE Start(p)
  <2>1. PlaceOK(p)'
    BY <1>1, <1>3, PlaceStart
  <2>2. \A q \in Procs \ {p} : pending'[q] = pending[q] /\ phase'[q] = phase[q]
    BY <1>3 DEF Start, StartRecovering, TypeOK, MemoryOK
  <2> QED
    BY <1>3, <2>1, <2>2, PlacesLocal DEF Start, StartRecovering, rows
<1>4. CASE Stop(p)
  <2>1. PlaceOK(p)'
    BY <1>1, <1>4, PlaceStop
  <2>2. \A w \in Workers : w[1] # p => queue'[w] = queue[w] /\ cur'[w] = cur[w]
    BY <1>4, WorkerParts DEF Stop
  <2>3. \A q \in Procs \ {p} : /\ pending'[q] = pending[q] /\ enqueued'[q] = enqueued[q]
                               /\ retry'[q] = retry[q] /\ phase'[q] = phase[q]
    BY <1>4 DEF Stop, TypeOK, MemoryOK
  <2>4. UNCHANGED kind
    BY <1>4 DEF Stop
  <2> QED
    BY <2>1, <2>2, <2>3, <2>4, PlacesLocal
<1>5. CASE Stopped(p) \/ Crash(p) \/ FailQueuedRaises(p)
  <2>1. PowerOff(p) /\ UNCHANGED kind
    BY <1>5 DEF Stopped, Crash, FailQueuedRaises, rows
  <2>2. PlaceOK(p)'
    BY <2>1, PlacePowerOff
  <2>3. \A w \in Workers : w[1] # p => queue'[w] = queue[w] /\ cur'[w] = cur[w]
    BY <2>1, WorkerParts DEF PowerOff
  <2>4. \A q \in Procs \ {p} : /\ pending'[q] = pending[q] /\ enqueued'[q] = enqueued[q]
                               /\ retry'[q] = retry[q] /\ phase'[q] = phase[q]
    BY <2>1 DEF PowerOff, TypeOK, MemoryOK
  <2> QED
    BY <2>1, <2>2, <2>3, <2>4, PlacesLocal
<1> QED
  BY <1>2, <1>3, <1>4, <1>5 DEF Startup

LEMMA PlacesEnqueue ==
    ASSUME TypeOK, PlacesOK, NEW p \in Procs, NEW j \in Jobs,
           EnqueuePending(p, j) \/ RetryEnqueue(p, j)
    PROVE  PlacesOK'
<1>1. /\ Enqueue(p, j) /\ UNCHANGED <<kind, phase, cur>> /\ j \in pending[p] \cup retry[p]
      /\ \/ pending' = [pending EXCEPT ![p] = @ \ {j}] /\ retry' = retry /\ j \in pending[p]
         \/ retry' = [retry EXCEPT ![p] = @ \ {j}] /\ pending' = pending /\ j \in retry[p]
  BY DEF EnqueuePending, RetryEnqueue, rows, worker
<1>2. PlaceOK(p) /\ (\/ pending'[p] = pending[p] \ {j} /\ retry'[p] = retry[p] /\ j \in pending[p]
                     \/ retry'[p] = retry[p] \ {j} /\ pending'[p] = pending[p] /\ j \in retry[p])
  BY <1>1 DEF TypeOK, MemoryOK, PlacesOK
<1>3. PlaceOK(p)'
  BY <1>1, <1>2, PlaceEnqueue
<1>4. \A q \in Procs \ {p} : /\ pending'[q] = pending[q] /\ enqueued'[q] = enqueued[q]
                             /\ retry'[q] = retry[q] /\ phase'[q] = phase[q]
  BY <1>1 DEF Enqueue, TypeOK, MemoryOK
<1>5. \A w \in Workers : w[1] # p => queue'[w] = queue[w] /\ cur'[w] = cur[w]
  BY <1>1, WorkerForType DEF Enqueue, WorkerFor, TypeOK, MemoryOK
<1> QED
  BY <1>1, <1>3, <1>4, <1>5, PlacesLocal

LEMMA PlacesInsert ==
    ASSUME TypeOK, PlacesOK, NEW p \in Procs, NEW j \in Jobs, NEW k \in Requests,
           Submit(p, j, k) \/ SubmitRaises(p, j, k)
    PROVE  PlacesOK'
<1>1. PlaceOK(p)
  BY DEF PlacesOK
<1>2. \A i \in Created : kind'[i] = kind[i]
  BY DEF Submit, SubmitRaises, InsertRow, Insertable, Created, TypeOK, RowsOK
<1>3. CASE Submit(p, j, k)
  <2>1. PlaceOK(p)'
    BY <1>1, <1>3, PlaceSubmit
  <2>2. \A q \in Procs \ {p} : pending'[q] = pending[q]
    BY <1>3 DEF Submit, TypeOK, MemoryOK
  <2>3. UNCHANGED <<enqueued, retry, phase, queue, cur>>
    BY <1>3 DEF Submit, worker
  <2> QED
    BY <1>2, <2>1, <2>2, <2>3, PlacesLocal
<1>4. CASE SubmitRaises(p, j, k)
  <2>1. UNCHANGED <<pending, enqueued, retry, phase, queue, cur>>
    BY <1>4 DEF SubmitRaises, volatile, worker
  <2> QED
    BY <1>2, <2>1, PlaceFrame DEF PlacesOK
<1> QED
  BY <1>3, <1>4

LEMMA PlacesStep == TypeOK /\ PlacesOK /\ [Next]_vars => PlacesOK'
<1> SUFFICES ASSUME TypeOK, PlacesOK, [Next]_vars
             PROVE  PlacesOK'
  OBVIOUS
<1>1. CASE UNCHANGED vars
  BY <1>1, PlacesSame DEF vars, volatile, rows, worker
<1>2. ASSUME NEW j \in Jobs, LockExpires(j)
      PROVE  PlacesOK'
  BY <1>2, PlacesSame DEF LockExpires, volatile, rows, worker
<1> QED
  BY <1>1, <1>2, PlacesProcess, PlacesEnqueue, PlacesInsert, PlacesWorker DEF Next

LEMMA PlacesInit == Init => PlacesOK
<1> SUFFICES ASSUME Init, NEW p \in Procs
             PROVE  PlaceOK(p)
  BY DEF PlacesOK
<1>1. /\ pending[p] = {} /\ enqueued[p] = {} /\ retry[p] = {}
      /\ \A w \in WorkersOf(p) : queue[w] = <<>> /\ cur[w] = NoJob
  BY WorkersOfType DEF Init
<1> QED
  BY <1>1, NoPlaces DEF PlaceOK

LEMMA PlacesSuffice == TypeOK /\ PlacesOK => QueuedOnce
<1> SUFFICES ASSUME TypeOK, PlacesOK, NEW p \in Procs
             PROVE  /\ enqueued[p] = QueuedIn(p) \cup TakenIn(p)
                    /\ QueuedIn(p) \cap TakenIn(p) = {}
                    /\ enqueued[p] \cap (retry[p] \cup pending[p]) = {}
                    /\ retry[p] \cap pending[p] = {}
                    /\ \A w \in WorkersOf(p) : Cardinality(Elements(queue[w])) = Len(queue[w])
  BY DEF QueuedOnce
<1>1. PlaceOK(p)
  BY DEF PlacesOK
<1>2. NoJob \notin enqueued[p]
  BY PlacesAre
<1>3. \A j : j \in QueuedIn(p) <=> \E w \in WorkersOf(p) : j \in Elements(queue[w])
  BY DEF QueuedIn
<1>4. \A j : j \in TakenIn(p) <=> j # NoJob /\ \E w \in WorkersOf(p) : cur[w] = j
  BY DEF TakenIn
<1>5. enqueued[p] = QueuedIn(p) \cup TakenIn(p)
  BY <1>1, <1>2, <1>3, <1>4 DEF PlaceOK
<1>6. QueuedIn(p) \cap TakenIn(p) = {}
  BY <1>1, <1>3, <1>4, LanesDiffer DEF PlaceOK
<1>7. \A w \in WorkersOf(p) : Cardinality(Elements(queue[w])) = Len(queue[w])
  BY <1>1, PlacesAre, WorkersOfType, DistinctCount DEF PlaceOK
<1> QED
  BY <1>1, <1>5, <1>6, <1>7 DEF PlaceOK

\* The set of enqueued ids never goes stale and no job is at two places of a
\* process: for any number of processes and jobs, and whatever fails.
THEOREM OnePlacePerJob == Spec => []QueuedOnce
  BY PlacesInit, PlacesStep, PlacesSuffice, TypeCorrect, PTL DEF Spec

-----------------------------------------------------------------------------
(***************************************************************************)
(* No orphans.  A worker that has written the end of its job no longer     *)
(* counts as holding it, for another process may have put the row back to  *)
(* running meanwhile.  So the invariant asks for more than NoOrphan: an    *)
(* unfinished job is in the memory of a process none of whose workers is   *)
(* past the end of it.                                                     *)
(***************************************************************************)
Past == {"reread", "release", "leave"}

Carried(p, j) ==
    \/ j \in pending[p] \cup retry[p]
    \/ j \in enqueued[p] /\ \A w \in WorkersOf(p) : cur[w] = j => pc[w] \notin Past

Ending == \E p \in Procs : phase[p] \in {"down", "stopping"}

CarriedOK ==
    Ending \/ \A j \in Jobs : status[j] \in Active => \E p \in Procs : Carried(p, j)

LEMMA CarriedFrame ==
    ASSUME CarriedOK, Ending => Ending',
           \A j \in Jobs : status'[j] \in Active => status[j] \in Active,
           \A p \in Procs, j \in Jobs : status'[j] \in Active /\ Carried(p, j) => Carried(p, j)'
    PROVE  CarriedOK'
  BY DEF CarriedOK

\* A step of one worker that leaves the queues alone.
LEMMA CarriedMove ==
    ASSUME TypeOK, NEW w \in Workers,
           UNCHANGED <<pending, retry, enqueued, cur>>,
           \A v \in Workers \ {w} : pc'[v] = pc[v],
           pc'[w] \in Past => pc[w] \in Past \/ status'[cur[w]] \notin Active
    PROVE  \A p \in Procs, j \in Jobs : status'[j] \in Active /\ Carried(p, j) => Carried(p, j)'
<1>1. \A p \in Procs : \A v \in WorkersOf(p) : v = w \/ pc'[v] = pc[v]
  BY WorkersOfType
<1> QED
  BY <1>1 DEF Carried

LEMMA CarriedDone ==
    ASSUME TypeOK, PlacesOK, NEW w \in Workers, cur[w] # NoJob,
           UNCHANGED <<status, pending>>,
           \A v \in Workers \ {w} : pc'[v] = pc[v] /\ cur'[v] = cur[v],
           cur'[w] = NoJob,
           enqueued' = [enqueued EXCEPT ![w[1]] = OtherIds(w)],
           \A p \in Procs : retry[p] \subseteq retry'[p],
           \/ status[cur[w]] \notin Active
           \/ pc[w] \in Past
           \/ cur[w] \in retry'[w[1]]
    PROVE  \A p \in Procs, j \in Jobs : status'[j] \in Active /\ Carried(p, j) => Carried(p, j)'
<1> SUFFICES ASSUME NEW p \in Procs, NEW j \in Jobs, status[j] \in Active, Carried(p, j)
             PROVE  Carried(p, j)'
  OBVIOUS
<1>1. CASE j \in pending[p] \cup retry[p]
  BY <1>1 DEF Carried
<1>2. CASE j \in enqueued[p] /\ \A v \in WorkersOf(p) : cur[v] = j => pc[v] \notin Past
  <2>1. \A v \in WorkersOf(p) : cur'[v] = j => v # w /\ cur[v] = j /\ pc'[v] = pc[v]
    BY WorkersOfType, JobsAreNumbers
  <2>2. CASE p = w[1]
    <3>1. w \in WorkersOf(p)
      BY <2>2, WorkerParts
    <3>2. CASE j = cur[w]
      BY <1>2, <2>2, <3>1, <3>2 DEF Carried
    <3>3. CASE j # cur[w]
      <4>1. j \in enqueued'[p]
        BY <1>2, <2>2, <3>3 DEF OtherIds, TypeOK, MemoryOK
      <4> QED
        BY <1>2, <2>1, <4>1 DEF Carried
    <3> QED
      BY <3>2, <3>3
  <2>3. CASE p # w[1]
    <3>1. j \in enqueued'[p]
      BY <1>2, <2>3 DEF TypeOK, MemoryOK
    <3> QED
      BY <1>2, <2>1, <3>1 DEF Carried
  <2> QED
    BY <2>2, <2>3
<1> QED
  BY <1>1, <1>2 DEF Carried

LEMMA CarriedWorker ==
    ASSUME TypeOK, PlacesOK, CarriedOK, NEW w \in Workers, WorkerStep(w) \/ Handler(w)
    PROVE  CarriedOK'
<1> USE DEF Goto, rows, volatile
<1>0. w[1] \in Procs /\ w \in WorkersOf(w[1]) /\ PlaceOK(w[1])
  BY WorkerParts DEF PlacesOK
<1>1. UNCHANGED phase
  BY DEF WorkerStep, Handler, Take, Read, AcquireFree, Own, AcquireTaken, MarkRunning,
     HandlerReturns, HandlerRaises, MarkSucceeded, Reread, MarkFailed, Release, Leave, Done, Finish
<1>2. Ending => Ending'
  BY <1>1 DEF Ending
<1>3. pc[w] \notin {"off", "idle"} => cur[w] # NoJob /\ cur[w] \in Jobs
  BY JobsAreNumbers DEF TypeOK, WorkersOK
<1>4. pc \in [Workers -> Steps] /\ cur \in [Workers -> Created \cup {NoJob}]
  BY DEF TypeOK, WorkersOK
<1>5. CASE Take(w)
  <2>1. ASSUME NEW p \in Procs, NEW j \in Jobs, Carried(p, j)
        PROVE  Carried(p, j)'
    <3>1. UNCHANGED <<pending, retry, enqueued>>
      BY <1>5 DEF Take
    <3>2. \A v \in WorkersOf(p) : (cur'[v] = cur[v] /\ pc'[v] = pc[v]) \/ pc'[v] \notin Past
      BY <1>4, <1>5, WorkersOfType DEF Take, Past
    <3> QED
      BY <2>1, <3>1, <3>2 DEF Carried
  <2> QED
    BY <1>2, <1>5, <2>1, CarriedFrame DEF Take
<1>6. ASSUME NEW again \in BOOLEAN, Done(w, again), UNCHANGED status, cur[w] # NoJob,
             status[cur[w]] \notin Active \/ pc[w] \in Past \/ cur[w] \in retry'[w[1]]
      PROVE  CarriedOK'
  <2>1. /\ UNCHANGED pending /\ cur'[w] = NoJob
        /\ \A v \in Workers \ {w} : pc'[v] = pc[v] /\ cur'[v] = cur[v]
        /\ enqueued' = [enqueued EXCEPT ![w[1]] = OtherIds(w)]
        /\ \A p \in Procs : retry[p] \subseteq retry'[p]
    BY <1>4, <1>6 DEF Done, Finish, TypeOK, MemoryOK
  <2> QED
    BY <1>2, <1>6, <2>1, CarriedDone, CarriedFrame
<1>7. CASE Read(w)
  <2>1. CASE status[cur[w]] \in Active
    <3>1. /\ UNCHANGED <<pending, retry, enqueued, cur, status>>
          /\ \A v \in Workers \ {w} : pc'[v] = pc[v]
          /\ pc'[w] \notin Past
      BY <1>4, <1>7, <2>1 DEF Read, Past
    <3> QED
      BY <1>2, <3>1, CarriedMove, CarriedFrame
  <2>2. CASE status[cur[w]] \notin Active
    BY <1>3, <1>6, <1>7, <2>2 DEF Read
  <2> QED
    BY <2>1, <2>2
<1>8. CASE AcquireTaken(w)
  <2>1. cur[w] # NoJob /\ UNCHANGED status /\ Done(w, TRUE)
    BY <1>3, <1>8 DEF AcquireTaken
  <2>2. CASE phase[w[1]] = "stopping"
    BY <1>0, <1>2, <2>2 DEF Ending, CarriedOK
  <2>3. CASE phase[w[1]] # "stopping"
    <3>1. cur[w] \in retry'[w[1]]
      BY <1>0, <2>1, <2>3 DEF Done, Finish, Retries, TypeOK, MemoryOK
    <3> QED
      BY <1>6, <2>1, <3>1
  <2> QED
    BY <2>2, <2>3
<1>9. CASE Release(w)
  BY <1>3, <1>6, <1>9 DEF Release, Past
<1>10. CASE Leave(w)
  <2>1. /\ cur[w] # NoJob /\ pc[w] \in Past /\ UNCHANGED <<status, pending, retry>>
        /\ cur'[w] = NoJob
        /\ \A v \in Workers \ {w} : pc'[v] = pc[v] /\ cur'[v] = cur[v]
        /\ enqueued' = [enqueued EXCEPT ![w[1]] = OtherIds(w)]
    BY <1>3, <1>4, <1>10 DEF Leave, Past
  <2> QED
    BY <1>2, <2>1, CarriedDone, CarriedFrame
<1>11. CASE AcquireFree(w) \/ Handler(w) \/ Reread(w)
  <2>1. /\ UNCHANGED <<pending, retry, enqueued, cur, status>>
        /\ \A v \in Workers \ {w} : pc'[v] = pc[v]
        /\ pc'[w] \in Past => pc[w] \in Past
    BY <1>4, <1>11 DEF AcquireFree, Own, AfterLock, Handler, HandlerReturns, HandlerRaises,
       Reread, Past
  <2> QED
    BY <1>2, <2>1, CarriedMove, CarriedFrame
<1>12. CASE MarkSucceeded(w) \/ MarkFailed(w)
  <2>1. /\ UNCHANGED <<pending, retry, enqueued, cur>>
        /\ \A v \in Workers \ {w} : pc'[v] = pc[v]
    BY <1>4, <1>12 DEF MarkSucceeded, MarkFailed
  <2>2. /\ status'[cur[w]] \notin Active
        /\ \A j \in Jobs : status'[j] \in Active => status[j] \in Active
    BY <1>3, <1>12 DEF MarkSucceeded, MarkFailed, TypeOK, RowsOK, Active
  <2> QED
    BY <1>2, <2>1, <2>2, CarriedMove, CarriedFrame
<1>13. CASE MarkRunning(w)
  <2>1. /\ UNCHANGED <<pending, retry, enqueued, cur>>
        /\ \A v \in Workers \ {w} : pc'[v] = pc[v]
        /\ pc'[w] \notin Past
        /\ cur[w] # NoJob
    BY <1>3, <1>4, <1>13 DEF MarkRunning, Past
  <2>2. \A p \in Procs, j \in Jobs : Carried(p, j) => Carried(p, j)'
    <3>1. \A p \in Procs : \A v \in WorkersOf(p) : v = w \/ pc'[v] = pc[v]
      BY <2>1, WorkersOfType
    <3> QED
      BY <2>1, <3>1 DEF Carried
  <2>3. ASSUME NEW j \in Jobs, j = cur[w]
        PROVE  Carried(w[1], j)'
    <3>1. j \in enqueued[w[1]]
      BY <1>0, <2>1, <2>3 DEF PlaceOK
    <3>2. \A v \in WorkersOf(w[1]) : cur[v] = j => v = w
      BY <1>0, <2>1, <2>3, LanesDiffer DEF PlaceOK
    <3> QED
      BY <2>1, <3>1, <3>2 DEF Carried
  <2>4. \A j \in Jobs : status'[j] \in Active => status[j] \in Active \/ j = cur[w]
    BY <1>3, <1>13 DEF MarkRunning, TypeOK, RowsOK
  <2> QED
    BY <1>0, <1>2, <2>2, <2>3, <2>4 DEF CarriedOK
<1> QED
  BY <1>5, <1>7, <1>8, <1>9, <1>10, <1>11, <1>12, <1>13 DEF WorkerStep

LEMMA CarriedStep ==
    ASSUME "error" \notin Faults
    PROVE  TypeOK /\ PlacesOK /\ CarriedOK /\ [Next]_vars => CarriedOK'
<1> SUFFICES ASSUME TypeOK, PlacesOK, CarriedOK, [Next]_vars
             PROVE  CarriedOK'
  OBVIOUS
<1> USE DEF rows, volatile, worker
<1>1. ASSUME UNCHANGED <<status, pending, retry, enqueued, cur, pc, phase>>
      PROVE  CarriedOK'
  BY <1>1 DEF CarriedOK, Carried, Ending
<1>2. CASE UNCHANGED vars
  BY <1>1, <1>2 DEF vars
<1>3. ASSUME NEW j \in Jobs, LockExpires(j)
      PROVE  CarriedOK'
  BY <1>1, <1>3 DEF LockExpires
<1>4. ASSUME NEW w \in Workers, WorkerStep(w) \/ Handler(w) \/ WorkerFault(w) \/ FailQueued(w)
      PROVE  CarriedOK'
  <2>1. ~WorkerFault(w)
    BY DEF WorkerFault, LookupRaises, UpdateRaises, MarkFailedRaises, ReleaseRaises, Fault
  <2>2. CASE FailQueued(w)
    <3>1. Ending'
      BY <2>2, WorkerParts DEF FailQueued, Ending
    <3> QED
      BY <3>1 DEF CarriedOK
  <2> QED
    BY <1>4, <2>1, <2>2, CarriedWorker
<1>5. ASSUME NEW p \in Procs,
             Startup(p) \/ Stop(p) \/ Stopped(p) \/ Crash(p) \/ FailQueuedRaises(p)
      PROVE  CarriedOK'
  <2>1. CASE Start(p)
    <3>1. UNCHANGED status /\ \A j \in Jobs : status[j] \in Active => j \in pending'[p]
      BY <2>1 DEF Start, StartRecovering, TypeOK, MemoryOK
    <3> QED
      BY <3>1 DEF CarriedOK, Carried
  <2>2. CASE Ready(p)
    <3>1. UNCHANGED <<status, pending, retry, enqueued, cur, pc>>
          /\ (Ending => Ending')
      BY <2>2 DEF Ready, Ending, TypeOK, MemoryOK
    <3> QED
      BY <3>1 DEF CarriedOK, Carried
  <2>3. CASE Stop(p) \/ Stopped(p) \/ Crash(p) \/ FailQueuedRaises(p)
    <3>1. phase'[p] \in {"down", "stopping"}
      BY <2>3 DEF Stop, Stopped, Crash, FailQueuedRaises, PowerOff, TypeOK, MemoryOK
    <3> QED
      BY <3>1 DEF CarriedOK, Ending
  <2> QED
    BY <1>5, <2>1, <2>2, <2>3 DEF Startup
<1>6. ASSUME NEW p \in Procs, NEW j \in Jobs, EnqueuePending(p, j) \/ RetryEnqueue(p, j)
      PROVE  CarriedOK'
  <2>1. /\ Enqueue(p, j) /\ UNCHANGED <<status, phase, cur, pc>>
        /\ j \in pending[p] \cup retry[p]
        /\ \A q \in Procs, i \in Jobs : i \in pending[q] \cup retry[q] =>
              i \in pending'[q] \cup retry'[q] \/ (q = p /\ i = j)
    BY <1>6 DEF EnqueuePending, RetryEnqueue, TypeOK, MemoryOK
  <2>2. j \notin enqueued[p] /\ j # NoJob
    BY <2>1, JobsAreNumbers DEF PlacesOK, PlaceOK
  <2>3. j \in enqueued'[p] /\ \A q \in Procs : enqueued[q] \subseteq enqueued'[q]
    BY <2>1, <2>2 DEF Enqueue, TypeOK, MemoryOK
  <2>4. \A w \in WorkersOf(p) : cur[w] # j
    BY <2>2 DEF PlacesOK, PlaceOK
  <2>5. \A q \in Procs, i \in Jobs : Carried(q, i) => Carried(q, i)'
    BY <2>1, <2>3, <2>4 DEF Carried
  <2> QED
    BY <2>1, <2>5, CarriedFrame DEF Ending
<1>7. ASSUME NEW p \in Procs, NEW j \in Jobs, NEW k \in Requests,
             Submit(p, j, k) \/ SubmitRaises(p, j, k)
      PROVE  CarriedOK'
  <2>1. Submit(p, j, k)
    BY <1>7 DEF SubmitRaises, Fault
  <2>2. /\ UNCHANGED <<phase, enqueued, retry, cur, pc>>
        /\ \A q \in Procs : pending[q] \subseteq pending'[q]
        /\ j \in pending'[p]
        /\ \A i \in Jobs : status'[i] \in Active => status[i] \in Active \/ i = j
    BY <2>1 DEF Submit, InsertRow, TypeOK, RowsOK, MemoryOK
  <2>3. \A q \in Procs, i \in Jobs : Carried(q, i) => Carried(q, i)'
    BY <2>2 DEF Carried
  <2>4. Carried(p, j)'
    BY <2>2 DEF Carried
  <2>5. Ending => Ending'
    BY <2>2 DEF Ending
  <2> QED
    BY <2>2, <2>3, <2>4, <2>5 DEF CarriedOK
<1> QED
  BY <1>2, <1>3, <1>4, <1>5, <1>6, <1>7 DEF Next

\* No unfinished job is lost while database and Redis calls do not raise: for
\* any number of processes and jobs, and whatever crashes, stops and locks that
\* expire under their owners.
THEOREM NothingLost ==
    ASSUME "error" \notin Faults
    PROVE  Spec => []NoOrphan
<1>1. Init => CarriedOK
  BY DEF Init, CarriedOK, Active
<1>2. TypeOK /\ PlacesOK /\ CarriedOK /\ [Next]_vars => CarriedOK'
  BY CarriedStep
<1>3. CarriedOK => NoOrphan
  BY DEF CarriedOK, NoOrphan, Carried, Ending
<1> QED
  BY <1>1, <1>2, <1>3, PlacesInit, PlacesStep, TypeCorrect, PTL DEF Spec

-----------------------------------------------------------------------------
(***************************************************************************)
(* The lifecycle of a job.  With one process that is never stopped and     *)
(* whose calls do not raise, the place of a worker tells the status of its *)
(* job: nobody else writes the row, because the job is at one place of the *)
(* process, and what a crash leaves behind is read again by the next       *)
(* worker.                                                                 *)
(***************************************************************************)
StageOK(w) ==
    /\ pc[w] = "lock" => status[cur[w]] = seen[w]
    /\ pc[w] = "mark" => status[cur[w]] = "queued"
    /\ pc[w] \in {"handle", "commit"} => status[cur[w]] = "running"
    /\ pc[w] = "fail" => status[cur[w]] \in Active
    /\ pc[w] \notin {"cancel", "leave"}

StagesOK ==
    /\ \A p \in Procs : phase[p] # "stopping"
    /\ \A w \in Workers : StageOK(w)

\* One process: its two workers have different jobs.
LEMMA OneHasJob ==
    ASSUME TypeOK, PlacesOK, \A p, q \in Procs : p = q,
           NEW v \in Workers, NEW w \in Workers, cur[v] = cur[w], cur[w] # NoJob
    PROVE  v = w
<1>1. w[1] \in Procs /\ v \in WorkersOf(w[1]) /\ w \in WorkersOf(w[1])
  BY WorkerParts
<1>2. v[2] = w[2]
  BY <1>1 DEF PlacesOK, PlaceOK
<1> QED
  BY <1>1, <1>2, LanesDiffer

\* A step of one worker that leaves the rows alone.
LEMMA StageMove ==
    ASSUME StagesOK, NEW w \in Workers, UNCHANGED <<status, phase>>, StageOK(w)',
           \A v \in Workers \ {w} : pc'[v] = pc[v] /\ cur'[v] = cur[v] /\ seen'[v] = seen[v]
    PROVE  StagesOK' /\ [Lifecycle!Next]_status
  BY DEF StagesOK, StageOK

\* A worker writes the status of its job.
LEMMA StageUpdate ==
    ASSUME TypeOK, PlacesOK, StagesOK, \A p, q \in Procs : p = q,
           NEW w \in Workers, cur[w] \in Jobs, NEW s,
           status' = [status EXCEPT ![cur[w]] = s], UNCHANGED <<cur, seen, phase>>,
           \A v \in Workers \ {w} : pc'[v] = pc[v],
           StageOK(w)'
    PROVE  StagesOK'
<1>1. ASSUME NEW v \in Workers \ {w}
      PROVE  StageOK(v)'
  <2>1. StageOK(v) /\ cur[v] \in Jobs \cup {NoJob}
    BY JobsAreNumbers DEF StagesOK, TypeOK, WorkersOK
  <2>2. CASE cur[v] = NoJob
    <3>1. pc[v] \in {"off", "idle"}
      BY <2>2 DEF TypeOK, WorkersOK
    <3> QED
      BY <3>1 DEF StageOK
  <2>3. CASE cur[v] \in Jobs
    <3>1. cur[v] # cur[w]
      BY <2>3, OneHasJob, JobsAreNumbers
    <3>2. status'[cur[v]] = status[cur[v]]
      BY <2>3, <3>1 DEF TypeOK, RowsOK
    <3> QED
      BY <2>1, <3>2 DEF StageOK
  <2> QED
    BY <2>1, <2>2, <2>3
<1> QED
  BY <1>1 DEF StagesOK

\* A worker takes its job through the stages of the lifecycle.
LEMMA StageWorker ==
    ASSUME TypeOK, PlacesOK, StagesOK, \A p, q \in Procs : p = q,
           NEW w \in Workers, WorkerStep(w) \/ Handler(w)
    PROVE  StagesOK' /\ [Lifecycle!Next]_status
<1> USE DEF Goto, rows, volatile
<1>1. /\ pc \in [Workers -> Steps] /\ cur \in [Workers -> Created \cup {NoJob}]
      /\ seen \in [Workers -> Active \cup {"none"}]
      /\ status \in [Jobs -> Status]
  BY DEF TypeOK, WorkersOK, RowsOK
<1>2. pc[w] \notin {"off", "idle"} => cur[w] \in Jobs
  BY JobsAreNumbers DEF TypeOK, WorkersOK
<1>3. StageOK(w)
  BY DEF StagesOK
<1>4. ASSUME NEW again \in BOOLEAN, Done(w, again), UNCHANGED status
      PROVE  StagesOK' /\ [Lifecycle!Next]_status
  <2>1. StageOK(w)'
    BY <1>1, <1>4 DEF Done, Finish, StageOK
  <2> QED
    BY <1>1, <1>4, <2>1, StageMove DEF Done, Finish
<1>5. CASE Take(w)
  <2>1. StageOK(w)'
    BY <1>1, <1>5 DEF Take, StageOK
  <2> QED
    BY <1>1, <1>5, <2>1, StageMove DEF Take
<1>6. CASE Read(w)
  <2>1. CASE status[cur[w]] \in Active
    <3>1. StageOK(w)'
      BY <1>1, <1>6, <2>1 DEF Read, StageOK
    <3> QED
      BY <1>1, <1>6, <2>1, <3>1, StageMove DEF Read
  <2>2. CASE status[cur[w]] \notin Active
    BY <1>4, <1>6, <2>2 DEF Read
  <2> QED
    BY <2>1, <2>2
<1>7. CASE AcquireFree(w)
  <2>1. seen[w] \in Active
    BY <1>1, <1>7 DEF AcquireFree, TypeOK, WorkersOK
  <2>2. StageOK(w)'
    BY <1>1, <1>3, <1>7, <2>1 DEF AcquireFree, Own, AfterLock, StageOK, Active
  <2> QED
    BY <1>1, <1>7, <2>2, StageMove DEF AcquireFree, Own
<1>8. CASE AcquireTaken(w)
  BY <1>4, <1>8 DEF AcquireTaken
<1>9. CASE MarkRunning(w)
  <2>1. CASE KeyTaken(cur[w], kind[cur[w]])
    <3>1. StageOK(w)'
      BY <1>1, <1>3, <1>9, <2>1 DEF MarkRunning, StageOK, Active
    <3> QED
      BY <1>1, <1>9, <2>1, <3>1, StageMove DEF MarkRunning
  <2>2. CASE ~KeyTaken(cur[w], kind[cur[w]])
    <3>1. /\ status' = [status EXCEPT ![cur[w]] = "running"]
          /\ cur[w] \in Jobs /\ UNCHANGED <<cur, seen, phase>>
          /\ \A v \in Workers \ {w} : pc'[v] = pc[v]
      BY <1>1, <1>2, <1>9, <2>2 DEF MarkRunning
    <3>2. StageOK(w)'
      BY <1>1, <1>9, <2>2, <3>1 DEF MarkRunning, StageOK
    <3>3. Lifecycle!Begin(cur[w])
      BY <1>3, <1>9, <3>1 DEF MarkRunning, StageOK, Lifecycle!Begin
    <3> QED
      BY <3>1, <3>2, <3>3, StageUpdate DEF Lifecycle!Next
  <2> QED
    BY <2>1, <2>2
<1>10. CASE HandlerReturns(w) \/ HandlerRaises(w) \/ Reread(w)
  <2>1. StageOK(w)'
    BY <1>1, <1>3, <1>10 DEF HandlerReturns, HandlerRaises, Reread, StageOK, Active
  <2> QED
    BY <1>1, <1>10, <2>1, StageMove DEF HandlerReturns, HandlerRaises, Reread
<1>11. CASE MarkSucceeded(w)
  <2>1. /\ status' = [status EXCEPT ![cur[w]] = "succeeded"]
        /\ cur[w] \in Jobs /\ UNCHANGED <<cur, seen, phase>>
        /\ \A v \in Workers \ {w} : pc'[v] = pc[v]
    BY <1>1, <1>2, <1>11 DEF MarkSucceeded
  <2>2. StageOK(w)'
    BY <1>1, <1>11 DEF MarkSucceeded, StageOK
  <2>3. Lifecycle!Succeed(cur[w])
    BY <1>3, <1>11, <2>1 DEF MarkSucceeded, StageOK, Lifecycle!Succeed
  <2> QED
    BY <2>1, <2>2, <2>3, StageUpdate DEF Lifecycle!Next
<1>12. CASE MarkFailed(w)
  <2>1. /\ status' = [status EXCEPT ![cur[w]] = "failed"]
        /\ cur[w] \in Jobs /\ UNCHANGED <<cur, seen, phase>>
        /\ \A v \in Workers \ {w} : pc'[v] = pc[v]
        /\ pc[w] = "fail"
    BY <1>1, <1>2, <1>3, <1>12 DEF MarkFailed, StageOK
  <2>2. StageOK(w)'
    BY <1>1, <1>12, <2>1 DEF MarkFailed, StageOK
  <2>3. Lifecycle!Fail(cur[w])
    BY <1>3, <2>1 DEF StageOK, Lifecycle!Fail, Lifecycle!Active, Active
  <2> QED
    BY <2>1, <2>2, <2>3, StageUpdate DEF Lifecycle!Next
<1>13. CASE Release(w)
  BY <1>4, <1>13 DEF Release
<1>14. ~Leave(w)
  BY <1>3 DEF Leave, StageOK
<1> QED
  BY <1>5, <1>6, <1>7, <1>8, <1>9, <1>10, <1>11, <1>12, <1>13, <1>14 DEF WorkerStep, Handler

\* A new row, which no worker has yet.
LEMMA StageSubmit ==
    ASSUME TypeOK, StagesOK, NEW p \in Procs, NEW j \in Jobs, NEW k \in Requests, Submit(p, j, k)
    PROVE  StagesOK' /\ [Lifecycle!Next]_status
<1>1. /\ status[j] = "absent" /\ status' = [status EXCEPT ![j] = "queued"]
      /\ UNCHANGED <<phase, pc, cur, seen>>
  BY DEF Submit, InsertRow, Insertable, worker
<1>2. ASSUME NEW w \in Workers
      PROVE  StageOK(w)'
  <2>1. CASE cur[w] = NoJob
    <3>1. pc[w] \in {"off", "idle"}
      BY <2>1 DEF TypeOK, WorkersOK
    <3> QED
      BY <1>1, <3>1 DEF StageOK
  <2>2. CASE cur[w] # NoJob
    <3>1. cur[w] \in Jobs /\ cur[w] # j
      BY <1>1, <2>2 DEF TypeOK, WorkersOK, Created
    <3>2. status'[cur[w]] = status[cur[w]]
      BY <1>1, <3>1 DEF TypeOK, RowsOK
    <3> QED
      BY <1>1, <3>2 DEF StagesOK, StageOK
  <2> QED
    BY <2>1, <2>2
<1>3. Lifecycle!Accept(j)
  BY <1>1 DEF Lifecycle!Accept
<1> QED
  BY <1>1, <1>2, <1>3 DEF StagesOK, Lifecycle!Next

\* Starts and crashes leave the rows alone.
LEMMA StageProcess ==
    ASSUME TypeOK, StagesOK, NEW p \in Procs, Startup(p) \/ Crash(p)
    PROVE  StagesOK' /\ [Lifecycle!Next]_status
<1> USE DEF rows, worker
<1>1. UNCHANGED status /\ \A q \in Procs : phase'[q] # "stopping"
  BY DEF StagesOK, Startup, Start, StartRecovering, Ready, Crash, PowerOff, TypeOK, MemoryOK
<1>2. ASSUME NEW w \in Workers
      PROVE  StageOK(w)'
  <2>1. \/ pc'[w] \in {"off", "idle"}
        \/ pc'[w] = pc[w] /\ cur'[w] = cur[w] /\ seen'[w] = seen[w]
    BY DEF Startup, Start, StartRecovering, Ready, Crash, PowerOff
  <2> QED
    BY <1>1, <2>1 DEF StagesOK, StageOK
<1> QED
  BY <1>1, <1>2 DEF StagesOK

LEMMA StageStep ==
    ASSUME \A p, q \in Procs : p = q, Faults \subseteq {"crash", "expiry"}
    PROVE  TypeOK /\ PlacesOK /\ StagesOK /\ [Next]_vars =>
              StagesOK' /\ [Lifecycle!Next]_status
<1> SUFFICES ASSUME TypeOK, PlacesOK, StagesOK, [Next]_vars
             PROVE  StagesOK' /\ [Lifecycle!Next]_status
  OBVIOUS
<1> USE DEF rows, volatile, worker
<1>1. ASSUME UNCHANGED <<status, phase, pc, cur, seen>>
      PROVE  StagesOK' /\ [Lifecycle!Next]_status
  BY <1>1 DEF StagesOK, StageOK
<1>2. CASE UNCHANGED vars
  BY <1>1, <1>2 DEF vars
<1>3. ASSUME NEW j \in Jobs, LockExpires(j)
      PROVE  StagesOK' /\ [Lifecycle!Next]_status
  BY <1>1, <1>3 DEF LockExpires
<1>4. ASSUME NEW w \in Workers, WorkerStep(w) \/ Handler(w) \/ WorkerFault(w) \/ FailQueued(w)
      PROVE  StagesOK' /\ [Lifecycle!Next]_status
  <2>1. ~WorkerFault(w)
    BY DEF WorkerFault, LookupRaises, UpdateRaises, MarkFailedRaises, ReleaseRaises, Fault
  <2>2. ~FailQueued(w)
    BY WorkerParts DEF FailQueued, StagesOK
  <2> QED
    BY <1>4, <2>1, <2>2, StageWorker
<1>5. ASSUME NEW p \in Procs,
             Startup(p) \/ Stop(p) \/ Stopped(p) \/ Crash(p) \/ FailQueuedRaises(p)
      PROVE  StagesOK' /\ [Lifecycle!Next]_status
  <2>1. ~Stop(p) /\ ~FailQueuedRaises(p)
    BY DEF Stop, FailQueuedRaises, Fault
  <2>2. ~Stopped(p)
    BY DEF Stopped, StagesOK
  <2> QED
    BY <1>5, <2>1, <2>2, StageProcess
<1>6. ASSUME NEW p \in Procs, NEW j \in Jobs, EnqueuePending(p, j) \/ RetryEnqueue(p, j)
      PROVE  StagesOK' /\ [Lifecycle!Next]_status
  BY <1>1, <1>6 DEF EnqueuePending, RetryEnqueue
<1>7. ASSUME NEW p \in Procs, NEW j \in Jobs, NEW k \in Requests,
             Submit(p, j, k) \/ SubmitRaises(p, j, k)
      PROVE  StagesOK' /\ [Lifecycle!Next]_status
  BY <1>7, StageSubmit DEF SubmitRaises, Fault
<1> QED
  BY <1>2, <1>3, <1>4, <1>5, <1>6, <1>7 DEF Next

\* One process that is never stopped and whose database and Redis calls do not
\* raise implements the lifecycle that JobLifecycle promises: for any number of
\* jobs and crashes, and although locks expire under their owners, no job is
\* marked running twice, ended twice or taken back from its end.
THEOREM LifecycleKept ==
    ASSUME \A p, q \in Procs : p = q, Faults \subseteq {"crash", "expiry"}
    PROVE  Spec => LifecycleSafety
<1>1. Init => StagesOK /\ Lifecycle!Init
  BY DEF Init, StagesOK, StageOK, Lifecycle!Init
<1>2. TypeOK /\ PlacesOK /\ StagesOK /\ [Next]_vars => StagesOK' /\ [Lifecycle!Next]_status
  BY StageStep
<1> QED
  BY <1>1, <1>2, PlacesInit, PlacesStep, TypeCorrect, PTL
     DEF Spec, LifecycleSafety, Lifecycle!Safety

=============================================================================
