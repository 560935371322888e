--------------------------- MODULE ProfileServer ---------------------------
(***************************************************************************)
(* What the jobs and the response cache are to one who asks for a profile: *)
(* at most one active job, the ways jobs ended, and whether answers are    *)
(* cached.  ProfileView implements it with job rows that several processes *)
(* insert; ProfilePage is the page that asks.                              *)
(***************************************************************************)
EXTENDS Naturals

VARIABLES
    active,   \* a job of the profile is queued or running
    ended,    \* the statuses that jobs of the profile ended with
    cache     \* status_at of the cached answers: hit, stale or none

serverVars == <<active, ended, cache>>

Terminal == {"succeeded", "failed"}
Busy == {"populating", "refreshing"}
Lifecycles == Busy \cup {"missing", "ready", "failed"}

ServerInit ==
    /\ active = FALSE
    /\ ended = {}
    /\ cache \in {"none", "stale"}

\* A refresh is asked for: while a job is active, that one is answered.
Create ==
    /\ active' = TRUE
    /\ UNCHANGED <<ended, cache>>

End(status) ==
    /\ active
    /\ active' = FALSE
    /\ ended' = ended \cup {status}
    /\ UNCHANGED cache

\* An active job fills the cache, and the entries age.
FillCache ==
    /\ active
    /\ cache # "hit"
    /\ cache' = "hit"
    /\ UNCHANGED <<active, ended>>

CacheAges ==
    /\ cache # "none"
    /\ cache' = IF cache = "hit" THEN "stale" ELSE "none"
    /\ UNCHANGED <<active, ended>>

JobEnds == \E status \in Terminal : End(status)

ServerNext == Create \/ JobEnds \/ FillCache \/ CacheAges

ServerSpec == ServerInit /\ [][ServerNext]_serverVars

(***************************************************************************)
(* _profile_status, by whether an active job was seen, the statuses of the *)
(* ended ones and whether an account is known.  A job that succeeded has   *)
(* an account; another one may have been answered one.                     *)
(***************************************************************************)
ProfileStatus(isActive, statuses, account) ==
    CASE isActive /\ "succeeded" \notin statuses -> "populating"
      [] isActive /\ "succeeded" \in statuses    -> "refreshing"
      [] ~isActive /\ account                     -> "ready"
      [] ~isActive /\ ~account -> IF "failed" \in statuses THEN "failed" ELSE "missing"

AccountsOf(isActive, statuses) ==
    IF cache # "none" \/ "succeeded" \in statuses THEN {TRUE}
    ELSE IF isActive \/ statuses # {} THEN BOOLEAN ELSE {FALSE}

\* The states of a view that reads the ended jobs and the cache now.
StatesOf(isActive, statuses) ==
    {ProfileStatus(isActive, statuses, account) : account \in AccountsOf(isActive, statuses)}

=============================================================================
