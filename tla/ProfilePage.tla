---------------------------- MODULE ProfilePage ----------------------------
(***************************************************************************)
(* The profile page of the experimental frontend (the script in            *)
(* experimental_frontend/__init__.py) against the server that answers its  *)
(* views and starts its refreshes.                                         *)
(*                                                                         *)
(* The script awaits its requests, so a thread here is one of its          *)
(* asynchronous functions between two awaits: boot (loadProfile and then   *)
(* its polling loop), click (the refresh button and then a loop) and those *)
(* of the buttons of the list of matches: the one that loads older         *)
(* matches, and those of a match that change it and then show the profile  *)
(* again.  Answers come in any order.  A loop is the request of a tick or  *)
(* the timer of the next one.  The list itself is left out: its buttons    *)
(* are there once a view was shown.                                        *)
(***************************************************************************)
EXTENDS ProfileServer

CONSTANTS
    Buttons,         \* bound: buttons of the list with requests under way at once
    MaxEvents        \* bound: requests that fail, clicks on those buttons, jobs
                     \* that others start and ends of the lockout

Loops == {"boot", "click"}
Threads == Loops \cup Buttons

VARIABLES
    thread,     \* what each thread awaits: its view, or a step of its POST
    page,       \* state: the lifecycle and pollTimer
    locked,     \* localStorage: the lockout of the refresh button
    events      \* how many of those happened

pageVars == <<thread, page, locked, events>>
vars == <<serverVars, pageVars>>

(***************************************************************************)
(* thread: load, tick and show await a view, whose reads are two instants: *)
(* of the active job, and of the ended ones and the cache; manage awaits   *)
(* the request that changes a match; check and insert are the POST at the  *)
(* server; posted has its answer; timer.                                   *)
(* page: the lifecycle, the loop whose timer is pollTimer, and whether the *)
(* lifecycle is adrift: when the last loop failed, or a button showed it,  *)
(* no loop was left to follow it.                                          *)
(***************************************************************************)
NoView == [at |-> "none", active |-> FALSE, state |-> "none", due |-> FALSE]

Off == [pc |-> "off", view |-> NoView]

Asking(pc) == [pc |-> pc, view |-> [NoView EXCEPT !.at = "asked"]]

Init ==
    /\ ServerInit
    /\ thread = [t \in Threads |-> IF t = "boot" THEN Asking("load") ELSE Off]
    /\ page = [life |-> "none", timer |-> {}, adrift |-> FALSE]
    /\ locked = FALSE
    /\ events = 0

Happens == events < MaxEvents /\ events' = events + 1

Goto(t, pc) == thread' = [thread EXCEPT ![t] = [Off EXCEPT !.pc = pc]]

Ask(t, pc) == thread' = [thread EXCEPT ![t] = Asking(pc)]

InFlight(v) == v.at \in {"asked", "seen"}

Answered(t, pc) == thread[t].pc = pc /\ thread[t].view.at = "answered"

\* A loop other than t awaits its tick or its timer.
Followed(t) == \E s \in Loops \ {t} : thread[s].pc \in {"tick", "timer"}

-----------------------------------------------------------------------------
(* Views.                                                                  *)

ReadActive(t) ==
    /\ thread[t].view.at = "asked"
    /\ thread' = [thread EXCEPT ![t].view.at = "seen", ![t].view.active = active]
    /\ UNCHANGED <<serverVars, page, locked, events>>

\* A view is due for a refresh when an entry expired and is still served.
ReadRest(t) ==
    /\ thread[t].view.at = "seen"
    /\ \E state \in StatesOf(thread[t].view.active, ended) :
          thread' = [thread EXCEPT ![t].view =
                        [NoView EXCEPT !.at = "answered", !.state = state,
                                       !.due = thread[t].pc = "load" /\ cache = "stale"]]
    /\ UNCHANGED <<serverVars, page, locked, events>>

\* renderProfileView.
Render(t, timer) ==
    page' = [life |-> thread[t].view.state, timer |-> timer,
             adrift |-> t \in Buttons /\ ~Followed(t)]

\* The other loop whose timer pollTimer holds.
Cleared(t) == {s \in page.timer \ {t} : thread[s].pc = "timer"}

\* pollProfileView clears pollTimer and asks at once.
Poll(t) ==
    thread' = [s \in Threads |->
                  IF s = t THEN Asking("tick") ELSE IF s \in Cleared(t) THEN Off ELSE thread[s]]

\* loadProfile polls a busy profile, and refreshes one that is missing or due.
Loaded ==
    LET v == thread["boot"].view
        refresh == v.state = "missing" \/ (v.state = "ready" /\ v.due)
    IN
    /\ Answered("boot", "load")
    /\ Render("boot", IF v.state \in Busy THEN {} ELSE page.timer)
    /\ \/ v.state \in Busy /\ Poll("boot") /\ UNCHANGED locked
       \/ v.state \notin Busy /\ refresh /\ ~locked /\ Goto("boot", "check") /\ locked' = TRUE
       \/ v.state \notin Busy /\ ~(refresh /\ ~locked) /\ Goto("boot", "off") /\ UNCHANGED locked
    /\ UNCHANGED <<serverVars, events>>

\* variant: a loop goes on for refreshes only
RefreshesOnly == {"refreshing"}

Polled == {"populating", "refreshing"}

\* A tick shows its view and sets the timer of the next one.
Ticked(t) ==
    LET v == thread[t].view IN
    /\ Answered(t, "tick")
    /\ \/ v.state \in Polled /\ Render(t, {t}) /\ Goto(t, "timer")
       \/ v.state \notin Polled /\ Render(t, page.timer) /\ Goto(t, "off")
    /\ UNCHANGED <<serverVars, locked, events>>

TimerFires(t) ==
    /\ thread[t].pc = "timer"
    /\ Ask(t, "tick")
    /\ UNCHANGED <<serverVars, page, locked, events>>

\* refreshCurrentProfile, after the request that changed the match.
Managed(t) ==
    /\ thread[t].pc = "manage"
    /\ Ask(t, "show")
    /\ UNCHANGED <<serverVars, page, locked, events>>

\* A view with older matches, or after a change, shows its lifecycle too.
Shown(t) ==
    /\ Answered(t, "show")
    /\ Render(t, page.timer)
    /\ Goto(t, "off")
    /\ UNCHANGED <<serverVars, locked, events>>

\* The request of a view fails: the page says so, and a loop ends.
ViewFails(t) ==
    /\ InFlight(thread[t].view)
    /\ Happens
    /\ Goto(t, "off")
    /\ page' = [page EXCEPT !.adrift = @ \/ (thread[t].pc = "tick" /\ ~Followed(t))]
    /\ UNCHANGED <<serverVars, locked>>

-----------------------------------------------------------------------------
(* POST /profiles/fetch.                                                   *)

\* An active job is answered at once; else the account is resolved first,
\* unless the rate limit leaves that to the job.
PostCheck(t) ==
    /\ thread[t].pc = "check"
    /\ Goto(t, IF active THEN "posted" ELSE "insert")
    /\ UNCHANGED <<serverVars, page, locked, events>>

PostInsert(t) ==
    /\ thread[t].pc = "insert"
    /\ Create
    /\ Goto(t, "posted")
    /\ UNCHANGED <<page, locked, events>>

\* The POST is refused by the operator limiter or by Riot, and the lockout
\* stays; or the request that changes a match fails.
RequestFails(t) ==
    /\ thread[t].pc \in {"check", "insert", "manage"}
    /\ Happens
    /\ Goto(t, "off")
    /\ UNCHANGED <<serverVars, page, locked>>

\* queueProfileRefresh returns the job, which is polled.
Posted(t) ==
    /\ thread[t].pc = "posted"
    /\ page' = [page EXCEPT !.life = IF @ = "missing" THEN "populating" ELSE "refreshing",
                            !.timer = {}, !.adrift = FALSE]
    /\ Poll(t)
    /\ UNCHANGED <<serverVars, locked, events>>

-----------------------------------------------------------------------------
(* The user.                                                               *)

\* The button is disabled while a job is active or locked out.
Click ==
    /\ thread["click"].pc = "off"
    /\ page.life \notin Busy
    /\ ~locked
    /\ locked' = TRUE
    /\ Goto("click", "check")
    /\ UNCHANGED <<serverVars, page, events>>

LockExpires ==
    /\ locked
    /\ Happens
    /\ locked' = FALSE
    /\ UNCHANGED <<serverVars, thread, page>>

ClickMore(t) ==
    /\ thread[t].pc = "off"
    /\ page.life # "none"
    /\ Happens
    /\ Ask(t, "show")
    /\ UNCHANGED <<serverVars, page, locked>>

\* Fetch, Force, Unlink player, Delete DB or Delete both.
ClickMatch(t) ==
    /\ thread[t].pc = "off"
    /\ page.life # "none"
    /\ Happens
    /\ Goto(t, "manage")
    /\ UNCHANGED <<serverVars, page, locked>>

OthersCreate ==
    /\ ~active
    /\ Happens
    /\ Create
    /\ UNCHANGED <<thread, page, locked>>

ThreadStep(t) ==
    \/ ReadActive(t) \/ ReadRest(t) \/ PostCheck(t) \/ PostInsert(t) \/ Posted(t)
    \/ TimerFires(t)
    \/ t = "boot" /\ Loaded
    \/ t \in Loops /\ Ticked(t)
    \/ t \in Buttons /\ (Managed(t) \/ Shown(t))

Next ==
    \/ \E t \in Threads : ThreadStep(t) \/ ViewFails(t) \/ RequestFails(t)
    \/ \E t \in Buttons : ClickMore(t) \/ ClickMatch(t)
    \/ Click \/ LockExpires \/ OthersCreate
    \/ (JobEnds \/ FillCache \/ CacheAges) /\ UNCHANGED pageVars

\* The requests of the page are answered, and the queue ends every job
\* (EveryJobEnds of JobQueue).
Fairness ==
    /\ \A t \in Threads : WF_vars(ThreadStep(t))
    /\ WF_vars(JobEnds /\ UNCHANGED pageVars)

Spec == Init /\ [][Next]_vars /\ Fairness

-----------------------------------------------------------------------------
(* Properties.                                                             *)

TypeOK ==
    /\ active \in BOOLEAN /\ ended \subseteq Terminal /\ cache \in {"hit", "stale", "none"}
    /\ thread \in [Threads ->
          [pc : {"off", "load", "tick", "show", "timer", "manage", "check", "insert", "posted"},
           view : [at : {"none", "asked", "seen", "answered"}, active : BOOLEAN,
                   state : Lifecycles \cup {"none"}, due : BOOLEAN]]]
    /\ page \in [life : Lifecycles \cup {"none"}, timer : SUBSET Loops,
                 adrift : BOOLEAN]
    /\ locked \in BOOLEAN
    /\ events \in 0 .. MaxEvents

\* "Refresh in progress" disables the button, and ends: of any loops that run
\* at once, one shows the end of the job.  What stays busy was shown by a
\* button of the list, or was left by a failed request, with no loop to follow.
PageSettles == page.life \in Busy ~> page.life \notin Busy \/ page.adrift

=============================================================================
