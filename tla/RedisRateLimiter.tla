-------------------------- MODULE RedisRateLimiter --------------------------
(***************************************************************************)
(* The limiter of Riot requests that several processes share through       *)
(* Redis, riot/redis_rate_limiter.py, with the request loop of             *)
(* riot/client.py that uses it.                                            *)
(*                                                                         *)
(* _reserve_or_delay reads the clock, takes a Redis lock that expires by   *)
(* itself, and then examines and fills the windows, which are sorted sets, *)
(* command by command.  Other processes act between any two commands, also *)
(* inside the locked section when it outlives the lock.  The pause of a    *)
(* 429 is read and written without the lock.                               *)
(*                                                                         *)
(* The commands on one window (zremrangebyscore, zcard, zrange; zadd and   *)
(* expire) are one step.  The processes share one clock; its resolution is *)
(* the time unit of the model, so readings are equal more often than those *)
(* of time.monotonic() are.                                                *)
(***************************************************************************)
EXTENDS Naturals, Sequences, FiniteSets, FiniteSetsExt

CONSTANTS
    Callers,         \* processes with a call to Riot in progress
    Automatic,       \* those of them that call for automatic work
    Limits,          \* the limits: [count |-> requests, window |-> seconds]
    ReservePercent,  \* manual_reserve_fraction
    Unlock,          \* manual_reserve_unlock_seconds
    LockTTL,         \* timeout of the lock
    MaxRetries,      \* RIOT_RATE_LIMIT_MAX_RETRIES
    RetryAfter,      \* the pauses 429 answers ask for, buffer included
    Nobody,          \* holder of the lock when it is free
    LastCall,        \* bound: when the last call begins
    MaxTime,         \* bound: the clock
    MaxDelays,       \* bound: time units that pass between two steps of a call
    MaxCrashes       \* bound: processes that die

ASSUME LimitsOK ==
    /\ Limits \in Seq([count : Nat \ {0}, window : Nat \ {0}]) /\ Limits # <<>>
    /\ Automatic \subseteq Callers /\ Nobody \notin Callers
    /\ ReservePercent \in 0 .. 100 /\ {Unlock, MaxRetries} \subseteq Nat
    /\ LockTTL \in Nat \ {0} /\ RetryAfter \subseteq Nat

VARIABLES
    now,      \* time.monotonic(), and the clock of Redis
    lock,     \* {key_prefix}:lock
    blocked,  \* {key_prefix}:blocked-until
    windows,  \* {key_prefix}:window:i
    call,     \* of each caller, where it is and its local variables
    grants,   \* history: the reservations that count, see call[c].counts
    raced,    \* history: callers whose pause a concurrent one overwrote
    delays,   \* bound: time units that passed between two steps of a call
    crashes   \* bound: processes that died

vars == <<now, lock, blocked, windows, call, grants, raced, delays, crashes>>
redis == <<lock, blocked, windows>>
history == <<grants, raced, delays, crashes>>

Windows == DOMAIN Limits
Members == [score : Nat, automatic : BOOLEAN]

\* The section between lock.acquire and lock.release.
Section == {"scanning", "reserving", "granted", "refused", "hopeless"}
Sleeping == {"waiting", "throttled"}
Places == {"idle", "locking", "sent", "paused"} \cup Section \cup Sleeping

\* reading is the local now, until the instant computed from it, window the
\* position in the loop over the limits, due when the next step can be taken,
\* since when the lock was taken, seen the pause that was read, and counts
\* whether the reservation is a member of its own made under the lock.
Idle == [pc |-> "idle", reading |-> 0, until |-> 0, window |-> 1, due |-> 0,
         since |-> 0, seen |-> 0, attempts |-> 0, counts |-> TRUE]

NoLock == [holder |-> Nobody, expires |-> 0]
NoPause == [until |-> 0, expires |-> 0]
NoMembers == [members |-> {}, expires |-> 0]

Init ==
    /\ now = 0
    /\ lock = NoLock
    /\ blocked = NoPause
    /\ windows = [i \in Windows |-> NoMembers]
    /\ call = [c \in Callers |-> Idle]
    /\ grants = {}
    /\ raced = {}
    /\ delays = 0
    /\ crashes = 0

Free == lock.holder = Nobody
Holds(c) == lock.holder = c

Step(c, place) == [call[c] EXCEPT !.pc = place]

\* Of the locals only attempts is used again.
Fresh(c, place, time) ==
    [Idle EXCEPT !.pc = place, !.due = time, !.attempts = call[c].attempts]

End(c) == call' = [call EXCEPT ![c] = Idle]

-----------------------------------------------------------------------------
(* acquire and the section of _reserve_or_delay under the lock.            *)

\* The clock is read here, before the lock is awaited.
Ask(c) ==
    /\ \/ call[c].pc = "idle" /\ now <= LastCall
       \/ call[c].pc \in Sleeping /\ call[c].due <= now
    /\ call' = [call EXCEPT ![c] = [Fresh(c, "locking", 0) EXCEPT !.reading = now]]
    /\ raced' = raced \ {c}
    /\ UNCHANGED <<now, redis, grants, delays, crashes>>

LockForEver(c) ==                   \* variant: the lock has no timeout
    /\ call[c].pc = "locking" /\ Free
    /\ lock' = [holder |-> c, expires |-> MaxTime + 1]
    /\ call' = [call EXCEPT ![c].pc = "scanning", ![c].since = now,
                            ![c].until = call[c].reading]
    /\ UNCHANGED <<now, blocked, windows, history>>

Lock(c) ==
    /\ call[c].pc = "locking" /\ Free
    /\ lock' = [holder |-> c, expires |-> now + LockTTL]
    /\ call' = [call EXCEPT ![c].pc = "scanning", ![c].since = now,
                            ![c].until = call[c].reading]
    /\ UNCHANGED <<now, blocked, windows, history>>

PrunedTooSoon(c, i) ==              \* variant: a window is too short
    {m \in windows[i].members : m.score + Limits[i].window > call[c].reading + 1}

\* What zremrangebyscore leaves, by the reading of the clock.
Pruned(c, i) == {m \in windows[i].members : m.score + Limits[i].window > call[c].reading}

Oldest(c, i) == Min({m.score : m \in Pruned(c, i)})

AutomaticCapacity(i) ==
    LET reserved == (Limits[i].count * ReservePercent + 99) \div 100
    IN  IF Limits[i].count > reserved THEN Limits[i].count - reserved ELSE 0

Full(c, i) == Cardinality(Pruned(c, i)) >= Limits[i].count

Reached(c, i) ==
    c \in Automatic /\ ~Full(c, i) /\ Cardinality(Pruned(c, i)) >= AutomaticCapacity(i)

Unlocked(c, i) ==
    IF Pruned(c, i) = {}
    THEN Limits[i].window <= Unlock
    ELSE Oldest(c, i) + Limits[i].window <= call[c].reading + Unlock

OpensAt(c, i) ==
    CASE Full(c, i) -> Oldest(c, i) + Limits[i].window
      [] Reached(c, i) /\ ~Unlocked(c, i) -> Oldest(c, i) + Limits[i].window - Unlock
      [] OTHER -> call[c].reading

\* A pause that is still going on at the reading ends the section.
CheckBlocked(c) ==
    /\ call[c].pc = "scanning" /\ call[c].window = 1
    /\ blocked.until > call[c].reading
    /\ call' = [call EXCEPT ![c] = [Step(c, "refused") EXCEPT !.until = blocked.until]]
    /\ UNCHANGED <<now, redis, history>>

\* No automatic call can ever enter the window: RiotConfigurationError.
Hopeless(c, i) == Reached(c, i) /\ ~Unlocked(c, i) /\ Pruned(c, i) = {}

\* One turn of the loop over the limits.
Scan(c) ==
    /\ call[c].pc = "scanning"
    /\ call[c].window = 1 => blocked.until <= call[c].reading
    /\ LET i     == call[c].window
           until == IF OpensAt(c, i) > call[c].until THEN OpensAt(c, i) ELSE call[c].until
           place == IF until > call[c].reading THEN "refused" ELSE "reserving"
       IN  /\ windows' = [windows EXCEPT ![i].members = Pruned(c, i)]
           /\ \/ /\ Hopeless(c, i)
                 /\ call' = [call EXCEPT ![c].pc = "hopeless"]
              \/ /\ ~Hopeless(c, i) /\ i + 1 \in Windows
                 /\ call' = [call EXCEPT ![c].window = i + 1, ![c].until = until]
              \/ /\ ~Hopeless(c, i) /\ i + 1 \notin Windows
                 /\ call' = [call EXCEPT ![c] = [Step(c, place) EXCEPT !.window = 1, !.until = until]]
    /\ UNCHANGED <<now, lock, blocked, history>>

Member(c) == [score |-> call[c].reading, automatic |-> c \in Automatic]

\* zadd adds nothing when another call used the same reservation_id.
Reserve(c) ==
    /\ call[c].pc = "reserving"
    /\ LET i == call[c].window IN
       /\ windows' = [windows EXCEPT ![i] = [members |-> windows[i].members \cup {Member(c)},
                                             expires |-> now + Limits[i].window]]
       /\ call' = [call EXCEPT ![c] =
            [Step(c, IF i + 1 \in Windows THEN "reserving" ELSE "granted") EXCEPT
                !.window = IF i + 1 \in Windows THEN i + 1 ELSE 1,
                !.counts = @ /\ Holds(c) /\ Member(c) \notin windows[i].members]]
    /\ UNCHANGED <<now, lock, blocked, history>>

Delay(c) == call[c].until - call[c].reading

\* acquire sleeps after a delay; try_acquire returns, as a call does that ends
\* asleep (Crash).  RiotConfigurationError passes through.
AfterSection(c) ==
    CASE call[c].pc = "granted" -> Fresh(c, "sent", 0)
      [] call[c].pc = "refused" -> Fresh(c, "waiting", now + Delay(c))
      [] OTHER -> Idle

Releasing(c) == call[c].pc \in {"granted", "refused", "hopeless"}

\* The release of redis-py compares the token of the holder.
Release(c) ==
    /\ Releasing(c) /\ Holds(c)
    /\ lock' = NoLock
    /\ call' = [call EXCEPT ![c] = AfterSection(c)]
    /\ grants' = IF call[c].pc = "granted" /\ call[c].counts
                 THEN grants \cup {[reading |-> call[c].reading, at |-> now,
                                    automatic |-> c \in Automatic]}
                 ELSE grants
    /\ UNCHANGED <<now, blocked, windows, raced, delays, crashes>>

ReleaseAnyway(c) ==                 \* variant: the token is not compared
    /\ Releasing(c) /\ ~Holds(c)
    /\ lock' = NoLock
    /\ call' = [call EXCEPT ![c] = AfterSection(c)]
    /\ UNCHANGED <<now, blocked, windows, history>>

\* The release raises when the lock expired: the call fails, also when its
\* places are taken.
ReleaseLost(c) ==
    /\ Releasing(c) /\ ~Holds(c)
    /\ End(c)
    /\ UNCHANGED <<now, redis, history>>

-----------------------------------------------------------------------------
(* The request, its answers and pause_for_retry_after.                     *)

Answer(c) ==
    /\ call[c].pc = "sent"
    /\ End(c)
    /\ UNCHANGED <<now, redis, history>>

\* A 429 that is retried: the stored pause is read, and written in a later step.
Throttled(c, d) ==
    /\ call[c].pc = "sent"
    /\ call[c].attempts < MaxRetries
    /\ call' = [call EXCEPT ![c] = [Step(c, "paused") EXCEPT !.reading = now, !.until = now + d,
                                !.seen = blocked.until, !.attempts = @ + 1]]
    /\ UNCHANGED <<now, redis, history>>

Exceeded(c) ==
    /\ call[c].pc = "sent"
    /\ call[c].attempts >= MaxRetries
    /\ End(c)
    /\ UNCHANGED <<now, redis, history>>

\* A caller whose pause is stored, by itself or by one that asked for longer.
Relies(d) ==
    \/ call[d].pc = "throttled"
    \/ call[d].pc = "paused" /\ call[d].until <= call[d].seen

\* The pauses that a write of c, who did not see them, takes back.
Overwritten(c) ==
    {d \in Callers : Relies(d) /\ blocked.until # call[c].seen /\ call[d].until > call[c].until}

SetAlways(c) ==                     \* variant: the last 429 decides
    /\ blocked' = [until |-> call[c].until, expires |-> now + Delay(c)]
    /\ raced' = raced \cup Overwritten(c)

Set(c) ==
    IF call[c].until > call[c].seen
    THEN /\ blocked' = [until |-> call[c].until, expires |-> now + Delay(c)]
         /\ raced' = raced \cup Overwritten(c)
    ELSE UNCHANGED <<blocked, raced>>

SetPause(c) ==
    /\ call[c].pc = "paused"
    /\ Set(c)
    /\ call' = [call EXCEPT ![c] = [Fresh(c, "throttled", now + Delay(c)) EXCEPT !.until = call[c].until]]
    /\ UNCHANGED <<now, lock, windows, grants, delays, crashes>>

\* The process dies; in Redis its lock stays until it expires.
Crash(c) ==
    /\ crashes < MaxCrashes
    /\ call[c].pc # "idle"
    /\ End(c)
    /\ raced' = raced \ {c}
    /\ crashes' = crashes + 1
    /\ UNCHANGED <<now, redis, grants, delays>>

\* Redis deletes the keys whose time is over.
Expire ==
    /\ lock' = IF lock.expires <= now' THEN NoLock ELSE lock
    /\ blocked' = IF blocked.expires <= now' THEN NoPause ELSE blocked
    /\ windows' = [i \in Windows |-> IF windows[i].expires <= now' THEN NoMembers ELSE windows[i]]

\* Callers that are neither asleep nor kept waiting for the lock.
Asleep(c) == call[c].pc \in Sleeping /\ call[c].due > now
Busy == {c \in Callers : call[c].pc # "idle" /\ ~Asleep(c) /\ (call[c].pc = "locking" => Free)}

Tick ==
    /\ now < MaxTime
    /\ Busy # {} => delays < MaxDelays
    /\ now' = now + 1
    /\ Expire
    /\ grants' = {g \in grants : \E i \in Windows : g.reading + Limits[i].window > now'}
    /\ delays' = IF Busy = {} THEN delays ELSE delays + 1
    /\ UNCHANGED <<call, raced, crashes>>

Locked(c) ==
    \/ Lock(c) \/ CheckBlocked(c) \/ Scan(c) \/ Reserve(c) \/ Release(c) \/ ReleaseLost(c)

Answered(c) ==
    \/ Answer(c) \/ Exceeded(c)
    \/ \E d \in RetryAfter : Throttled(c, d)

Advance(c) == Ask(c) \/ Locked(c) \/ Answered(c) \/ SetPause(c)

Next == Tick \/ \E c \in Callers : Advance(c) \/ Crash(c)

Spec == Init /\ [][Next]_vars

\* Redis and Riot answer, and the event loop resumes a coroutine whose sleep
\* is over.  A waiter polls for the lock: strong fairness, since it may miss
\* the moments at which the lock is free, but not for ever.
CallFairness(c) ==
    /\ WF_vars(Ask(c) /\ call[c].pc # "idle")
    /\ SF_vars(Lock(c))
    /\ WF_vars(Locked(c) /\ ~Lock(c))
    /\ WF_vars(Answered(c))
    /\ WF_vars(SetPause(c))

\* Time passes too, also where the resolution of the clock would let a call
\* begin again and again within one reading.
FairSpec == Spec /\ SF_vars(Tick) /\ \A c \in Callers : CallFairness(c)

-----------------------------------------------------------------------------
(* Properties.                                                             *)

TypeOK ==
    /\ {now, delays, crashes} \subseteq Nat
    /\ lock \in [holder : Callers \cup {Nobody}, expires : Nat]
    /\ blocked \in [until : Nat, expires : Nat]
    /\ windows \in [Windows -> [members : SUBSET Members, expires : Nat]]
    /\ call \in [Callers -> [pc : Places, reading : Nat, until : Nat, window : Windows,
                             due : Nat, since : Nat, seen : Nat,
                             attempts : 0 .. MaxRetries, counts : BOOLEAN]]
    /\ grants \subseteq [reading : Nat, at : Nat, automatic : BOOLEAN]
    /\ raced \subseteq Callers

\* README: the budget is count requests per window seconds, docs: shared by
\* the processes.  Requests are sent some time after the clock was read, so
\* what holds is weaker than in one process: from the earliest reading to the
\* latest grant of any count + 1 reservations a window passes, although the
\* lock is granted in any order and windows are pruned by old readings.
\* Reservations made after the lock was lost, or that share the reading and
\* the audience of another, are beyond the budget and not counted.
WithinLimits ==
    \A i \in Windows : \A g \in grants :
        Cardinality({h \in grants : h.reading + Limits[i].window > g.at /\ h.at <= g.at})
            <= Limits[i].count

\* The lock: two calls are in the section only if one of them has been there
\* for as long as the lock lasts.  A call that lost its lock, or died, never
\* lets another one into the section of a third.
SectionExclusive ==
    \A c, d \in Callers :
        c # d /\ call[c].pc \in Section /\ call[d].pc \in Section
        => \E e \in {c, d} : now >= call[e].since + LockTTL

Passes(c) == call[c].pc = "scanning" /\ call[c].window = 1 /\ Scan(c)

\* README: if Riot answers 429, the client waits for Retry-After.  While a
\* caller sleeps a pause, calls of all processes whose clock reading lies in
\* it are refused.  The exception is a pause that a shorter one overwrote:
\* blocked-until is read and written in two steps, without the lock.
PauseShared ==
    [][\A c, d \in Callers :
          Passes(c) /\ call[d].pc = "throttled" /\ d \notin raced /\ now < call[d].until
          => call[d].until <= call[c].reading]_vars

\* A dead process, a lost lock, a refused window or a 429 never keeps the
\* call of another process for ever.
EveryCallEnds == \A c \in Callers : call[c].pc # "idle" ~> call[c].pc = "idle"

=============================================================================
