------------------------------ MODULE RiotCache ------------------------------
(***************************************************************************)
(* The cache of Riot answers in PostgreSQL, riot/postgres_cache.py and     *)
(* riot/cache.py, as the Riot client (riot/client.py), the cached profile  *)
(* view and the manager routes use it.                                     *)
(*                                                                         *)
(* put is one transaction that deletes the rows whose stale window is over *)
(* and then inserts or updates its own row.  It stamps the row before the  *)
(* transaction begins and after Riot answered, and several calls for the   *)
(* same resource may be doing so.  A statement waits for the rows that     *)
(* another transaction deleted; PostgreSQL ends a cycle of waits by        *)
(* aborting one of them.  Statements run at READ COMMITTED.                *)
(*                                                                         *)
(* A payload is the instant at which Riot produced it.  The in-memory      *)
(* store is the case in which a transaction is one step.                   *)
(***************************************************************************)
EXTENDS Naturals

CONSTANTS
    Callers,         \* coroutines that call the Riot client
    Operators,       \* requests to the manager routes
    Keys,            \* the cached resources
    TTL,             \* ttl_for_riot_path of each resource
    Stale,           \* cache_stale_while_revalidate_seconds
    None,            \* no row, no resource
    MaxTime,         \* bound: the clock
    MaxWait          \* bound: time between an answer and its stamp, and for a put

ASSUME CacheOK ==
    /\ TTL \in [Keys -> Nat] /\ {Stale, MaxWait} \subseteq Nat
    /\ Callers \cap Operators = {}
    /\ None \notin Keys /\ None \notin [payload : Nat, fetched_at : Nat]

VARIABLES
    now,      \* datetime.now and time.monotonic
    entries,  \* riot_response_cache, the committed rows
    call      \* of each caller and operator, where it is and its locals

vars == <<now, entries, call>>

Clients == Callers \cup Operators
Rows == [payload : Nat, fetched_at : Nat]

\* "answered" is between the answer of Riot and the stamp, "pruning" and
\* "writing" are inside the transaction of put, "deleting" is before delete.
Places == {"idle", "fetching", "answered", "pruning", "writing", "deleting"}

\* gone are the rows the transaction deleted and has locked.
Idle == [pc |-> "idle", key |-> None, payload |-> 0, stamp |-> 0, gone |-> {}]

Init ==
    /\ now = 0
    /\ entries = [k \in Keys |-> None]
    /\ call = [c \in Clients |-> Idle]

End(c) == call' = [call EXCEPT ![c] = Idle]

ExpiresAt(k) == entries[k].fetched_at + TTL[k]

StaleForEver(k) == entries[k].fetched_at + MaxTime         \* variant: no stale window

StaleUntil(k) == ExpiresAt(k) + Stale

\* status_at is "hit" or "stale".
Servable(k) == entries[k] # None /\ now <= StaleUntil(k)

-----------------------------------------------------------------------------
(* _get_json.                                                              *)

Fetch(c, k) == [call EXCEPT ![c] = [Idle EXCEPT !.pc = "fetching", !.key = k]]

\* A usable row ends the call, which returns its payload.
Lookup(c, k) ==
    /\ call[c].pc = "idle"
    /\ call' = IF Servable(k) THEN call ELSE Fetch(c, k)
    /\ UNCHANGED <<now, entries>>

\* bypass_cache reads nothing, and a read that raises is logged.
Bypass(c, k) ==
    /\ call[c].pc = "idle"
    /\ call' = Fetch(c, k)
    /\ UNCHANGED <<now, entries>>

Answered(c) ==
    /\ call[c].pc = "fetching"
    /\ call' = [call EXCEPT ![c].pc = "answered", ![c].payload = now]
    /\ UNCHANGED <<now, entries>>

RiotFails(c) ==
    /\ call[c].pc = "fetching"
    /\ End(c)
    /\ UNCHANGED <<now, entries>>

\* put stamps the row; without a time to live nothing is stored.
Stamp(c) ==
    /\ call[c].pc = "answered"
    /\ IF TTL[call[c].key] > 0
       THEN call' = [call EXCEPT ![c].pc = "pruning", ![c].stamp = now]
       ELSE End(c)
    /\ UNCHANGED <<now, entries>>

-----------------------------------------------------------------------------
(* The transaction of put, and of prune_expired, which has no row of its   *)
(* own.                                                                    *)

LockedBy(k) == {d \in Clients : k \in call[d].gone}
Taken(c, k) == LockedBy(k) \ {c} # {}

PrunedFresh(c) ==                   \* variant: expires_at instead of stale_until
    {k \in Keys \ {call[c].key} : entries[k] # None /\ ExpiresAt(k) < call[c].stamp} \ call[c].gone

PrunedLate(c) ==                    \* variant: a stamp of one unit ago
    {k \in Keys \ {call[c].key} : entries[k] # None /\ StaleUntil(k) + 1 < call[c].stamp} \ call[c].gone

PrunedAtEdge(c) ==                  \* variant: <= in the delete statement
    {k \in Keys \ {call[c].key} : entries[k] # None /\ StaleUntil(k) <= call[c].stamp} \ call[c].gone

\* The rows the delete statement has still to lock.
ToPrune(c) ==
    {k \in Keys \ {call[c].key} : entries[k] # None /\ StaleUntil(k) < call[c].stamp} \ call[c].gone

PruneRow(c) ==
    /\ call[c].pc = "pruning"
    /\ \E k \in ToPrune(c) :
          /\ ~Taken(c, k)
          /\ call' = [call EXCEPT ![c].gone = @ \cup {k}]
    /\ UNCHANGED <<now, entries>>

Pruned(c) == [k \in Keys |-> IF k \in call[c].gone THEN None ELSE entries[k]]

\* The delete statement has ended; prune_expired commits.
PruneEnds(c) ==
    /\ call[c].pc = "pruning"
    /\ ToPrune(c) = {}
    /\ IF call[c].key = None
       THEN entries' = Pruned(c) /\ End(c)
       ELSE UNCHANGED entries /\ call' = [call EXCEPT ![c].pc = "writing"]
    /\ UNCHANGED now

Put(c) ==
    /\ call[c].pc = "writing"
    /\ ~Taken(c, call[c].key)
    /\ entries' = [Pruned(c) EXCEPT ![call[c].key] =
                  [payload |-> call[c].payload, fetched_at |-> call[c].stamp]]
    /\ End(c)
    /\ UNCHANGED now

\* What c waits for: a row for its next statement.
Awaited(c) ==
    CASE call[c].pc = "pruning" -> IF \A k \in ToPrune(c) : Taken(c, k) THEN ToPrune(c) ELSE {}
      [] call[c].pc \in {"writing", "deleting"} -> {call[c].key}
      [] OTHER -> {}
WaitsFor(c) == UNION {LockedBy(k) \ {c} : k \in Awaited(c)}

\* c waits for itself: every set that holds those it waits for, and those they
\* wait for in turn, holds c.
Deadlocked(c) ==
    \A S \in SUBSET Clients :
        WaitsFor(c) \subseteq S /\ (\A d \in S : WaitsFor(d) \subseteq S) => c \in S

\* The client catches what put raises and returns the live payload; the rows
\* of the transaction are as before.
PutAborted(c) ==
    /\ Deadlocked(c)
    /\ End(c)
    /\ UNCHANGED <<now, entries>>

\* A database call raises, the task is cancelled or its process dies: the
\* transaction is rolled back.
Fail(c) ==
    /\ call[c].pc # "idle"
    /\ End(c)
    /\ UNCHANGED <<now, entries>>

-----------------------------------------------------------------------------
(* The manager routes.                                                      *)

\* delete_match_cache, and delete_match with include_cache.
DeleteCached(o, k) ==
    /\ call[o].pc = "idle"
    /\ call' = [call EXCEPT ![o] = [Idle EXCEPT !.pc = "deleting", !.key = k]]
    /\ UNCHANGED <<now, entries>>

Delete(o) ==
    /\ call[o].pc = "deleting"
    /\ ~Taken(o, call[o].key)
    /\ entries' = [entries EXCEPT ![call[o].key] = None]
    /\ End(o)
    /\ UNCHANGED now

\* prune_expired_cache; prune_expired reads the clock before its transaction.
PruneExpired(o) ==
    /\ call[o].pc = "idle"
    /\ call' = [call EXCEPT ![o] = [Idle EXCEPT !.pc = "pruning", !.stamp = now]]
    /\ UNCHANGED <<now, entries>>

-----------------------------------------------------------------------------
Since(c) == IF call[c].pc = "answered" THEN call[c].payload ELSE call[c].stamp

Tick ==
    /\ now < MaxTime
    /\ \A c \in Clients :
          call[c].pc \in {"answered", "pruning", "writing"} => now < Since(c) + MaxWait
    /\ now' = now + 1
    /\ UNCHANGED <<entries, call>>

InTransaction(c) == PruneRow(c) \/ PruneEnds(c) \/ Put(c) \/ PutAborted(c)
Advance(c) == Answered(c) \/ RiotFails(c) \/ Stamp(c) \/ InTransaction(c) \/ Delete(c)

Next ==
    \/ Tick
    \/ \E c \in Callers, k \in Keys : Lookup(c, k) \/ Bypass(c, k)
    \/ \E o \in Operators, k \in Keys : DeleteCached(o, k)
    \/ \E o \in Operators : PruneExpired(o)
    \/ \E c \in Clients : Advance(c) \/ Fail(c)

Spec == Init /\ [][Next]_vars

-----------------------------------------------------------------------------
(* Properties.                                                             *)

TypeOK ==
    /\ now \in Nat
    /\ entries \in [Keys -> Rows \cup {None}]
    /\ call \in [Clients -> [pc : Places, key : Keys \cup {None}, payload : Nat, stamp : Nat,
                             gone : SUBSET Keys]]
    /\ \A c \in Clients : call[c].gone # {} => call[c].pc \in {"pruning", "writing"}

\* README.md: entries are usable only through their TTL and stale window.
\* Calls for one resource may answer, stamp and commit in any order, and the
\* later commit wins also when its answer is the older one; still, no usable
\* row is older than its windows and the time one answer took to be stamped.
ServedFresh ==
    \A k \in Keys : Servable(k) => now <= entries[k].payload + MaxWait + TTL[k] + Stale

\* README.md: rows past that window are pruned during subsequent cache
\* writes.  When a put commits, no other row is left that was past its
\* window at the stamp of the put, although other transactions deleted,
\* inserted or gave up rows while its delete statement was waiting.
PrunedOnWrite ==
    [][\A c \in Callers : call[c].pc = "writing" /\ Put(c) =>
          \A k \in Keys \ {call[c].key} : entries'[k] # None => StaleUntil(k)' >= call[c].stamp]_vars

\* A row that is usable is removed by no one but the operator who deletes it:
\* neither by the pruning of a put or of prune_expired, whose stamps are old
\* when they act, nor by a transaction that saw another version of the row.
UsableRowsStay ==
    [][\A k \in Keys : Servable(k) /\ entries'[k] = None =>
          \E o \in Operators : call[o].pc = "deleting" /\ call[o].key = k]_vars

\* Two puts for resources whose rows both expired delete each other's row and
\* wait for each other, since neither deletes its own, and PostgreSQL aborts
\* one.  Only such rows are waited for: a put, or a deletion by the operator,
\* that finds its row deleted by another transaction, finds one that nobody
\* could be served any more, however old the stamp of that transaction is, so
\* that a call that renews a usable answer (bypass_cache) is not held up, nor
\* aborted in its insert.
UsableRowsAreFree ==
    \A c \in Clients : \A k \in Awaited(c) : Taken(c, k) => ~Servable(k)

=============================================================================
