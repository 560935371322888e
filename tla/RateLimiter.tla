----------------------------- MODULE RateLimiter -----------------------------
(***************************************************************************)
(* The process-local limiter of Riot requests, riot/rate_limiter.py, with  *)
(* the request loop of riot/client.py that uses it.                        *)
(*                                                                         *)
(* Every sliding window holds the reservations of its last window_seconds. *)
(* A call takes a place in all windows at once or sleeps until they may    *)
(* have room; automatic calls leave a share of each window to manual ones, *)
(* except when its oldest reservation is about to expire; a 429 stops all  *)
(* calls of the process for Retry-After.                                   *)
(*                                                                         *)
(* All callers run on one event loop and _reserve_or_delay does not await, *)
(* so it is one step and its lock is always free.  Time is discrete.       *)
(***************************************************************************)
EXTENDS Naturals, Sequences, FiniteSets

CONSTANTS
    Callers,         \* the coroutines that call the Riot client
    Automatic,       \* those of them that call for automatic work
    Impatient,       \* those that call with wait_for_rate_limit=False
    Limits,          \* the limits: [count |-> requests, window |-> seconds]
    ReservePercent,  \* manual_reserve_fraction
    Unlock,          \* manual_reserve_unlock_seconds
    MaxRetries,      \* RIOT_RATE_LIMIT_MAX_RETRIES
    RetryAfter,      \* the pauses 429 answers ask for, buffer included
    LastCall,        \* bound: when the last call begins
    MaxTime,         \* bound: the clock
    Lag              \* bound: how late a caller is resumed or answered

ASSUME LimitsOK ==
    /\ Limits \in Seq([count : Nat \ {0}, window : Nat \ {0}])
    /\ Automatic \subseteq Callers /\ Impatient \subseteq Callers
    /\ ReservePercent \in 0 .. 100 /\ Unlock \in Nat
    /\ MaxRetries \in Nat /\ RetryAfter \subseteq Nat

VARIABLES
    now,        \* time.monotonic()
    windows,    \* the deque of each limit
    blocked,    \* _blocked_until
    pc,         \* of each caller, where it is in _get_json
    due,        \* of each caller, when its sleep ends or its step is due
    attempts,   \* of each caller, the 429 answers of its call
    grants      \* history: every reservation ever made, in order

vars == <<now, windows, blocked, pc, due, attempts, grants>>
caller == <<pc, due, attempts>>

\* "asking" is before acquire, "waiting" and "throttled" are asleep in acquire
\* and in pause_for_retry_after, "sent" awaits the answer of Riot.
Sleeping == {"waiting", "throttled"}
Places == {"idle", "asking", "sent"} \cup Sleeping

Windows == DOMAIN Limits
Reservations == [at : Nat, automatic : BOOLEAN]

-----------------------------------------------------------------------------
(* What _reserve_or_delay computes.                                        *)

\* ceil(count * fraction) places are for manual calls only.
AutomaticCapacity(i) ==
    LET reserved == (Limits[i].count * ReservePercent + 99) \div 100
    IN  IF Limits[i].count > reserved THEN Limits[i].count - reserved ELSE 0

ExpiredTooSoon(i) ==                \* variant: a window is too short
    {k \in DOMAIN windows[i] : windows[i][k].at + Limits[i].window <= now + 1}

\* The deque without the reservations at its head that left the window.
Expired(i) == {k \in DOMAIN windows[i] : windows[i][k].at + Limits[i].window <= now}
Live(i) == SubSeq(windows[i], Cardinality(Expired(i)) + 1, Len(windows[i]))

FullBeyondCount(i) == Len(Live(i)) > Limits[i].count    \* variant: off by one

Full(i) == Len(Live(i)) >= Limits[i].count

ReachedNever(c, i) == FALSE         \* variant: no share is reserved

\* An automatic call finds its own share of the window used up.
Reached(c, i) == c \in Automatic /\ ~Full(i) /\ Len(Live(i)) >= AutomaticCapacity(i)

Unlocked(i) ==
    IF Live(i) = <<>>
    THEN Limits[i].window <= Unlock
    ELSE Live(i)[1].at + Limits[i].window <= now + Unlock

\* The windows an automatic call can never enter: RiotConfigurationError.
Hopeless(c) == {i \in Windows : Reached(c, i) /\ ~Unlocked(i) /\ Live(i) = <<>>}

OpensAt(c, i) ==
    CASE Full(i) -> Live(i)[1].at + Limits[i].window
      [] Reached(c, i) /\ ~Unlocked(i) -> Live(i)[1].at + Limits[i].window - Unlock
      [] OTHER -> now

\* wait_until - now is positive for a window that opens later.
OpensLast(c, i) == OpensAt(c, i) > now /\ \A k \in Windows : OpensAt(c, k) <= OpensAt(c, i)

-----------------------------------------------------------------------------
Init ==
    /\ now = 0
    /\ windows = [i \in Windows |-> <<>>]
    /\ blocked = 0
    /\ pc = [c \in Callers |-> "idle"]
    /\ due = [c \in Callers |-> 0]
    /\ attempts = [c \in Callers |-> 0]
    /\ grants = <<>>

Goto(c, place, time) ==
    /\ pc' = [pc EXCEPT ![c] = place]
    /\ due' = [due EXCEPT ![c] = time]

\* The call returns or raises; its local variables are gone.
End(c) == Goto(c, "idle", 0) /\ attempts' = [attempts EXCEPT ![c] = 0]

\* A call that is not answered by the cache.
Request(c) ==
    /\ pc[c] = "idle"
    /\ now <= LastCall
    /\ Goto(c, "asking", now)
    /\ UNCHANGED <<now, windows, blocked, attempts, grants>>

\* acquire, first or again after a sleep, or try_acquire.
Asks(c) == pc[c] = "asking" \/ (pc[c] \in Sleeping /\ due[c] <= now)

WaitOrGiveUp(c, time) ==
    /\ IF c \in Impatient THEN End(c) ELSE Goto(c, "waiting", time) /\ UNCHANGED attempts
    /\ UNCHANGED <<now, blocked, grants>>

AskBlocked(c) ==
    /\ Asks(c)
    /\ blocked > now
    /\ WaitOrGiveUp(c, blocked)
    /\ UNCHANGED windows

\* The loop over the windows ends at the hopeless one.
AskHopeless(c) ==
    /\ Asks(c)
    /\ blocked <= now
    /\ \E first \in Hopeless(c) :
          /\ \A i \in Hopeless(c) : first <= i
          /\ windows' = [i \in Windows |-> IF i <= first THEN Live(i) ELSE windows[i]]
    /\ End(c)
    /\ UNCHANGED <<now, blocked, grants>>

AskDelayed(c) ==
    /\ Asks(c)
    /\ blocked <= now
    /\ Hopeless(c) = {}
    /\ \E i \in Windows : OpensLast(c, i) /\ WaitOrGiveUp(c, OpensAt(c, i))
    /\ windows' = [i \in Windows |-> Live(i)]

Reserve(c) == [at |-> now, automatic |-> c \in Automatic]

AskGranted(c) ==
    /\ Asks(c)
    /\ blocked <= now
    /\ Hopeless(c) = {}
    /\ \A i \in Windows : OpensAt(c, i) <= now
    /\ windows' = [i \in Windows |-> Append(Live(i), Reserve(c))]
    /\ grants' = Append(grants, Reserve(c))
    /\ Goto(c, "sent", now)
    /\ UNCHANGED <<now, blocked, attempts>>

Ask(c) == AskBlocked(c) \/ AskHopeless(c) \/ AskDelayed(c) \/ AskGranted(c)

\* An answer other than 429, or a transport error: the call returns or raises.
Answer(c) ==
    /\ pc[c] = "sent"
    /\ End(c)
    /\ UNCHANGED <<now, windows, blocked, grants>>

PauseWithoutMax(d) == now + d       \* variant: the last 429 decides

Pause(d) == IF now + d > blocked THEN now + d ELSE blocked

ThrottledUnbounded(c, d) ==         \* variant: retries are not limited
    /\ pc[c] = "sent"
    /\ attempts' = [attempts EXCEPT ![c] = @ + 1]
    /\ blocked' = Pause(d)
    /\ Goto(c, "throttled", now + d)
    /\ UNCHANGED <<now, windows, grants>>

ThrottledUncounted(c, d) ==         \* variant: attempts is not incremented
    /\ pc[c] = "sent"
    /\ blocked' = Pause(d)
    /\ Goto(c, "throttled", now + d)
    /\ UNCHANGED <<now, windows, attempts, grants>>

\* A 429 that is retried.  No pause is asked for by a delay of zero.
Throttled(c, d) ==
    /\ pc[c] = "sent"
    /\ attempts[c] < MaxRetries
    /\ attempts' = [attempts EXCEPT ![c] = @ + 1]
    /\ IF d > 0
       THEN blocked' = Pause(d) /\ Goto(c, "throttled", now + d)
       ELSE UNCHANGED blocked /\ Goto(c, "asking", now)
    /\ UNCHANGED <<now, windows, grants>>

\* A 429 too many: the call raises.
Exceeded(c) ==
    /\ pc[c] = "sent"
    /\ attempts[c] >= MaxRetries
    /\ End(c)
    /\ UNCHANGED <<now, windows, blocked, grants>>

Tick ==
    /\ now < MaxTime
    /\ \A c \in Callers : pc[c] # "idle" => now < due[c] + Lag
    /\ now' = now + 1
    /\ UNCHANGED <<windows, blocked, caller, grants>>

Next ==
    \/ Tick
    \/ \E c \in Callers : Request(c) \/ Ask(c) \/ Answer(c) \/ Exceeded(c)
    \/ \E c \in Callers, d \in RetryAfter : Throttled(c, d)

Spec == Init /\ [][Next]_vars

\* Time passes, the event loop resumes a coroutine whose sleep is over, and
\* Riot answers.  Who is resumed first is open: Tick waits for all (Lag).
CallProgress ==
    \/ \E c \in Callers : Ask(c) \/ Answer(c) \/ Exceeded(c)
    \/ \E c \in Callers, d \in RetryAfter : Throttled(c, d)

Fairness == WF_vars(Tick) /\ WF_vars(CallProgress)

FairSpec == Spec /\ Fairness

-----------------------------------------------------------------------------
(* Properties.                                                             *)

TypeOK ==
    /\ now \in Nat
    /\ windows \in [Windows -> Seq(Reservations)]
    /\ blocked \in Nat
    /\ pc \in [Callers -> Places]
    /\ due \in [Callers -> Nat]
    /\ attempts \in [Callers -> 0 .. MaxRetries]
    /\ grants \in Seq(Reservations)

\* The deque of a limit is the end of the history of reservations, and what
\* it lacks left the window: no reservation is forgotten while it counts, or
\* recorded in one window only.
WindowComplete(i) ==
    LET forgotten == Len(grants) - Len(windows[i]) IN
    /\ forgotten >= 0
    /\ \A k \in 1 .. Len(windows[i]) : windows[i][k] = grants[forgotten + k]
    /\ \A k \in 1 .. forgotten : grants[k].at + Limits[i].window <= now

WindowsComplete == \A i \in Windows : WindowComplete(i)

\* README: the budget is count requests per window seconds.  In no interval
\* of that length, wherever it begins, are more reservations made: count + 1
\* successive ones take at least a window, whatever callers, retries and
\* late wake-ups there are.
WithinLimits ==
    \A i \in Windows : \A k \in 1 .. Len(grants) :
        LET last == k + Limits[i].count IN
        last <= Len(grants) => grants[last].at >= grants[k].at + Limits[i].window

\* README: if Riot answers 429, the client waits for Retry-After.  While one
\* caller waits it out, no caller of the process is granted a request, also
\* when several 429 answers ask for different pauses.  A request granted
\* before the 429 came may still be on its way.
PauseRespected ==
    [][\A c \in Callers :
          pc[c] = "throttled" /\ now < due[c] => UNCHANGED grants]_vars

\* A call that waits, is throttled and waits again returns or raises, whatever
\* the others take: the calls, which begin until LastCall, all come to rest.
EveryCallEnds ==
    (\E c \in Callers : pc[c] # "idle") ~> (\A c \in Callers : pc[c] = "idle")

ManualIn(i) == {k \in DOMAIN Live(i) : ~Live(i)[k].automatic}

\* The automatic reservations of the window that were made when the oldest
\* place of that moment was about to expire.
BorrowedIn(i) ==
    {k \in DOMAIN grants :
        LET left(j) == grants[j].at + Limits[i].window
            present == {j \in 1 .. k - 1 : left(j) > grants[k].at}
        IN /\ left(k) > now /\ grants[k].automatic
           /\ \/ \E j \in present : left(j) <= grants[k].at + Unlock
              \/ present = {} /\ Limits[i].window <= Unlock}

\* README: manual requests reserve a share of the budget.  A window is full
\* for manual calls only when they used their share of it, or when places of
\* the share were taken shortly before the oldest place became free.
ReserveKept ==
    \A i \in Windows : Full(i) =>
        Cardinality(ManualIn(i)) + Cardinality(BorrowedIn(i))
            >= Limits[i].count - AutomaticCapacity(i)

\* README.md:54-56: manual profile requests reserve 20% of the budget, and
\* automatic requests can use that share during the last seconds before a
\* window resets.  So whenever a manual call finds the window full although
\* manual calls have not used their share, a place opens within that time.
ReserveBackInTime ==
    \A i \in Windows :
        Full(i) /\ Cardinality(ManualIn(i)) < Limits[i].count - AutomaticCapacity(i)
        => Live(i)[1].at + Limits[i].window <= now + Unlock

=============================================================================
