--------------------------- MODULE OperatorLimiter ---------------------------
(***************************************************************************)
(* The limiter of operator mutations, core/auth.py: profile refreshes,     *)
(* ingestion starts and manager mutations pass it before they act.         *)
(*                                                                         *)
(* require_operator_token keeps one sliding window per client key: one for *)
(* everybody when a token is configured, else one for each host.  Between  *)
(* the reading of the clock and its answer it does not await, so a request *)
(* is one step and its lock is always free.  A refusal announces, in whole *)
(* seconds, when to retry.                                                 *)
(***************************************************************************)
EXTENDS Naturals, Sequences, FiniteSets

CONSTANTS
    Hosts,           \* request.client.host of the operators
    TokenRequired,   \* operator_api_token is configured
    Token,           \* the client key when it is
    Mutations,       \* operator_mutation_requests
    Window,          \* operator_mutation_window_seconds, in time units
    Second,          \* the time units of a second
    MaxTime          \* bound: the clock

ASSUME LimiterOK ==
    /\ TokenRequired \in BOOLEAN /\ Token \notin Hosts
    /\ Mutations \in Nat \ {0} /\ Window \in Nat \ {0} /\ Second \in Nat \ {0}

VARIABLES
    now,       \* time.monotonic
    windows,   \* _mutation_windows
    admitted,  \* history: when the requests of a client key were admitted
    refusal    \* history: what the last 429 to a host announced, and whether
               \* a request of the same client key was admitted since

vars == <<now, windows, admitted, refusal>>

\* Requests without the expected token are rejected before they are counted.
Keys == IF TokenRequired THEN {Token} ELSE Hosts
KeyOf(h) == IF TokenRequired THEN Token ELSE h

Init ==
    /\ now = 0
    /\ windows = [k \in Keys |-> <<>>]
    /\ admitted = [k \in Keys |-> <<>>]
    /\ refusal = [h \in Hosts |-> [until |-> 0, holds |-> FALSE]]

ExpiredTooSoon(k) ==               \* variant: the window is too short
    {i \in DOMAIN windows[k] : windows[k][i] + Window <= now + 1}

\* The window without the requests at its head that left it.
Expired(k) == {i \in DOMAIN windows[k] : windows[k][i] + Window <= now}
Left(k) == SubSeq(windows[k], Cardinality(Expired(k)) + 1, Len(windows[k]))

\* What is left of the window.
Delay(k) == (Head(Left(k)) + Window) - now

AtLeast(s, delay) == IF delay < s THEN s ELSE delay

AnnouncedFloor(k) ==               \* variant: rounded down
    AtLeast(Second, (Delay(k) \div Second) * Second)

Announced(k) == AtLeast(Second, ((Delay(k) + Second - 1) \div Second) * Second)

Admit(h) ==
    LET k == KeyOf(h) IN
    /\ Len(Left(k)) < Mutations
    /\ windows' = [windows EXCEPT ![k] = Append(Left(k), now)]
    /\ admitted' = [admitted EXCEPT ![k] = Append(@, now)]
    /\ refusal' = [g \in Hosts |-> [refusal[g] EXCEPT !.holds = @ /\ KeyOf(g) # k]]
    /\ UNCHANGED now

Refuse(h) ==
    LET k == KeyOf(h) IN
    /\ Len(Left(k)) >= Mutations
    /\ windows' = [windows EXCEPT ![k] = Left(k)]
    /\ refusal' = [refusal EXCEPT ![h] = [until |-> now + Announced(k), holds |-> TRUE]]
    /\ UNCHANGED <<now, admitted>>

Tick ==
    /\ now < MaxTime
    /\ now' = now + 1
    /\ UNCHANGED <<windows, admitted, refusal>>

Next == Tick \/ \E h \in Hosts : Admit(h) \/ Refuse(h)

Spec == Init /\ [][Next]_vars

-----------------------------------------------------------------------------
(* Properties.                                                             *)

TypeOK ==
    /\ now \in Nat
    /\ windows \in [Keys -> Seq(Nat)]
    /\ \A k \in Keys : Len(windows[k]) <= Mutations
    /\ admitted \in [Keys -> Seq(Nat)]
    /\ refusal \in [Hosts -> [until : Nat, holds : BOOLEAN]]

\* In no interval of a window's length, wherever it begins, are more than
\* operator_mutation_requests mutations of one client key admitted, however
\* admissions and refusals, which also drop what left the window, follow one
\* another.
WithinLimit ==
    \A k \in Keys : \A i \in 1 .. Len(admitted[k]) :
        LET next == i + Mutations IN
        next <= Len(admitted[k]) => admitted[k][next] >= admitted[k][i] + Window

\* The Retry-After of a refusal, in whole seconds, covers what is left of the
\* window: who waits for it is refused again only if another mutation of the
\* same client key was admitted in between.
RetryAfterSuffices ==
    [][\A h \in Hosts : refusal[h].holds /\ now >= refusal[h].until => ~Refuse(h)]_vars

=============================================================================
