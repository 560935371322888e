---------------------------- MODULE JobLifecycle ----------------------------
(***************************************************************************)
(* What the job API promises a client that polls /jobs/{job_id}: a job is  *)
(* accepted as queued, is started at most once, ends exactly once, and its *)
(* end is final.  The job queue, its locks and its recovery are the        *)
(* machinery that should implement this (module JobQueue).                 *)
(***************************************************************************)

CONSTANT Jobs

VARIABLE state      \* what a read of the job store says of each job

Active   == {"queued", "running"}
Terminal == {"succeeded", "failed"}
States   == {"absent"} \cup Active \cup Terminal

Init == state = [j \in Jobs |-> "absent"]

Accept(j) ==
    /\ state[j] = "absent"
    /\ state' = [state EXCEPT ![j] = "queued"]

Begin(j) ==
    /\ state[j] = "queued"
    /\ state' = [state EXCEPT ![j] = "running"]

Succeed(j) ==
    /\ state[j] = "running"
    /\ state' = [state EXCEPT ![j] = "succeeded"]

Fail(j) ==
    /\ state[j] \in Active
    /\ state' = [state EXCEPT ![j] = "failed"]

Next == \E j \in Jobs : Accept(j) \/ Begin(j) \/ Succeed(j) \/ Fail(j)

Safety == Init /\ [][Next]_state

=============================================================================
