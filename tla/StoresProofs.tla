---------------------------- MODULE StoresProofs ----------------------------
(***************************************************************************)
(* What the stores promise their readers (MCStores).                       *)
(*                                                                         *)
(* The cache of Riot answers, for any number of clients, resources and     *)
(* lifetimes, while transactions of put wait for, abort and overwrite one  *)
(* another.  The argument is about the rows a transaction has deleted but  *)
(* not yet committed: they are locked, so nobody else changes them, and    *)
(* they were past their window when they were locked, so they still are    *)
(* when the transaction commits.  Everything else is a bound on the        *)
(* lateness of stamps that each step of a put keeps.                       *)
(*                                                                         *)
(* The table of jobs and the views of profiles, for any number of jobs,    *)
(* routes and readers, and any limits: to one who asks for a profile the   *)
(* rows behave as ProfileServer says, a listing lists each job once, and a *)
(* view overlooks no job.                                                  *)
(***************************************************************************)
EXTENDS MCStores, CountingLemmas, FiniteSetTheorems, TLAPS

InPut == {"pruning", "writing"}

\* A call knows its resource, was answered and stamped in the past, and is
\* not later than the bound.  prune_expired has no resource.
CallTimely(c) ==
    LET r == call[c] IN
    /\ r.pc \in {"fetching", "answered", "writing", "deleting"} => r.key \in Keys
    /\ r.pc = "deleting" => c \in Operators
    /\ r.pc = "answered" => r.payload <= now /\ now <= r.payload + MaxWait
    /\ r.pc \in InPut => r.stamp <= now /\ now <= r.stamp + MaxWait
    /\ r.pc \in InPut /\ r.key # None => r.stamp <= r.payload + MaxWait /\ TTL[r.key] > 0

RowTimely(k) ==
    entries[k] # None =>
        entries[k].fetched_at <= now /\ entries[k].fetched_at <= entries[k].payload + MaxWait

\* A row that a transaction deleted is there for all others, past its window,
\* not the row of the put itself, and deleted by no other transaction.
Locked(c, k) ==
    /\ entries[k] # None
    /\ StaleUntil(k) < call[c].stamp
    /\ k # call[c].key
    /\ \A d \in Clients \ {c} : k \notin call[d].gone

CacheInv ==
    /\ TypeOK
    /\ \A c \in Clients : CallTimely(c) /\ \A k \in call[c].gone : Locked(c, k)
    /\ \A k \in Keys : RowTimely(k)

-----------------------------------------------------------------------------
(* The invariant.                                                          *)

LEMMA ConstantTypes ==
    /\ Stale \in Nat /\ MaxWait \in Nat
    /\ \A k \in Keys : TTL[k] \in Nat
    /\ None \notin Keys /\ None \notin Rows
    /\ Callers \cap Operators = {}
BY CacheOK DEF Rows

LEMMA InvInit == Init => CacheInv
BY ConstantTypes DEF Init, CacheInv, TypeOK, CallTimely, RowTimely, Locked, Idle, Places, InPut, Clients

LEMMA CallTypes ==
    ASSUME TypeOK, NEW c \in Clients
    PROVE  /\ call[c] \in [pc : Places, key : Keys \cup {None}, payload : Nat, stamp : Nat,
                           gone : SUBSET Keys]
           /\ call[c].gone # {} => call[c].pc \in InPut
           /\ now \in Nat
           /\ DOMAIN call = Clients
BY DEF TypeOK, InPut

LEMMA RowTypes ==
    ASSUME TypeOK, NEW k \in Keys, entries[k] # None
    PROVE  /\ entries[k] \in Rows
           /\ entries[k].payload \in Nat /\ entries[k].fetched_at \in Nat
           /\ ExpiresAt(k) \in Nat /\ StaleUntil(k) \in Nat
           /\ StaleUntil(k) = entries[k].fetched_at + TTL[k] + Stale
<1>1. entries[k] \in Rows
  BY DEF TypeOK
<1>2. entries[k].payload \in Nat /\ entries[k].fetched_at \in Nat
  BY <1>1 DEF Rows
<1>3. QED
  BY <1>1, <1>2, ConstantTypes DEF ExpiresAt, StaleUntil

\* A step of one client that leaves the clock and the rows as they are: what
\* is to show is about this client.
LEMMA LocalStep ==
    ASSUME CacheInv, NEW c \in Clients, UNCHANGED <<now, entries>>,
           NEW r, call' = [call EXCEPT ![c] = r],
           r \in [pc : Places, key : Keys \cup {None}, payload : Nat, stamp : Nat,
                  gone : SUBSET Keys],
           r.gone # {} => r.pc \in InPut,
           CallTimely(c)',
           \A k \in r.gone : /\ entries[k] # None
                             /\ StaleUntil(k) < r.stamp
                             /\ k # r.key
                             /\ \A d \in Clients \ {c} : k \notin call[d].gone
    PROVE  CacheInv'
<1>1. /\ call'[c] = r
      /\ \A d \in Clients \ {c} : call'[d] = call[d]
      /\ DOMAIN call' = Clients
  BY DEF CacheInv, TypeOK
<1>2. TypeOK'
  <2>1. call' \in [Clients -> [pc : Places, key : Keys \cup {None}, payload : Nat,
                               stamp : Nat, gone : SUBSET Keys]]
    BY DEF CacheInv, TypeOK
  <2>2. \A d \in Clients : call'[d].gone # {} => call'[d].pc \in InPut
    BY <1>1 DEF CacheInv, TypeOK, InPut
  <2>3. QED
    BY <2>1, <2>2 DEF CacheInv, TypeOK, InPut
<1>3. \A k \in Keys : RowTimely(k)'
  BY DEF CacheInv, RowTimely
<1>4. ASSUME NEW d \in Clients PROVE CallTimely(d)'
  <2>1. CASE d = c
    BY <2>1
  <2>2. CASE d # c
    <3>1. call'[d] = call[d] /\ CallTimely(d)
      BY <1>1, <2>2 DEF CacheInv
    <3>2. QED
      BY <3>1 DEF CallTimely
  <2>3. QED
    BY <2>1, <2>2
<1>5. \A k \in Keys : StaleUntil(k)' = StaleUntil(k)
  BY DEF StaleUntil, ExpiresAt
<1>6. ASSUME NEW d \in Clients, NEW k \in call'[d].gone PROVE Locked(d, k)'
  <2>0. k \in Keys
    BY <1>2, CallTypes DEF TypeOK
  <2>1. CASE d = c
    BY <1>1, <1>5, <2>0, <2>1 DEF Locked
  <2>2. CASE d # c
    <3>1. k \in call[d].gone /\ Locked(d, k) /\ call'[d] = call[d]
      BY <1>1, <2>2 DEF CacheInv
    <3>2. k \notin r.gone
      BY <2>2, <3>1
    <3>3. QED
      BY <1>1, <1>5, <2>0, <3>1, <3>2 DEF Locked
  <2>3. QED
    BY <2>1, <2>2
<1>7. QED
  BY <1>2, <1>3, <1>4, <1>6 DEF CacheInv

LEMMA EndStep ==
    ASSUME CacheInv, NEW c \in Clients, UNCHANGED <<now, entries>>, End(c)
    PROVE  CacheInv'
<1>1. call' = [call EXCEPT ![c] = Idle]
  BY DEF End
<1>2. /\ Idle \in [pc : Places, key : Keys \cup {None}, payload : Nat, stamp : Nat,
                   gone : SUBSET Keys]
      /\ Idle.gone = {} /\ Idle.pc = "idle"
  BY DEF Idle, Places
<1>3. call'[c] = Idle
  BY <1>1 DEF CacheInv, TypeOK
<1>4. CallTimely(c)'
  BY <1>2, <1>3 DEF CallTimely, InPut
<1>5. QED
  BY <1>1, <1>2, <1>4, LocalStep

\* The commit of c, who leaves or deletes rows or writes one that nobody has
\* locked.
LEMMA CommitStep ==
    ASSUME CacheInv, NEW c \in Clients, UNCHANGED now, End(c),
           entries' \in [Keys -> Rows \cup {None}],
           \A k \in Keys : \/ entries'[k] = entries[k]
                           \/ entries'[k] = None /\ k \in call[c].gone
                           \/ ~Taken(c, k) /\ k \notin call[c].gone,
           \A k \in Keys : entries'[k] # None =>
               \/ entries'[k] = entries[k]
               \/ entries'[k].fetched_at <= now /\ entries'[k].fetched_at <= entries'[k].payload + MaxWait
    PROVE  CacheInv'
<1>1. /\ call'[c] = Idle
      /\ \A d \in Clients \ {c} : call'[d] = call[d]
      /\ DOMAIN call' = Clients
      /\ Idle \in [pc : Places, key : Keys \cup {None}, payload : Nat, stamp : Nat,
                   gone : SUBSET Keys]
      /\ Idle.gone = {} /\ Idle.pc = "idle"
  BY DEF CacheInv, TypeOK, End, Idle, Places
<1>2. TypeOK'
  <2>1. call' \in [Clients -> [pc : Places, key : Keys \cup {None}, payload : Nat,
                               stamp : Nat, gone : SUBSET Keys]]
    BY <1>1 DEF CacheInv, TypeOK, End
  <2>2. \A d \in Clients : call'[d].gone # {} => call'[d].pc \in InPut
    BY <1>1 DEF CacheInv, TypeOK, InPut
  <2>3. QED
    BY <2>1, <2>2 DEF CacheInv, TypeOK, InPut
<1>3. ASSUME NEW k \in Keys PROVE RowTimely(k)'
  BY DEF CacheInv, RowTimely
<1>4. ASSUME NEW d \in Clients PROVE CallTimely(d)'
  <2>1. CASE d = c
    BY <1>1, <2>1 DEF CallTimely, InPut
  <2>2. CASE d # c
    <3>1. call'[d] = call[d] /\ CallTimely(d)
      BY <1>1, <2>2 DEF CacheInv
    <3>2. QED
      BY <3>1 DEF CallTimely
  <2>3. QED
    BY <2>1, <2>2
<1>5. ASSUME NEW d \in Clients, NEW k \in call'[d].gone PROVE Locked(d, k)'
  <2>1. d # c /\ call'[d] = call[d] /\ k \in call[d].gone /\ k \in Keys
    BY <1>1, <1>2, CallTypes DEF TypeOK
  <2>2. Locked(d, k)
    BY <2>1 DEF CacheInv
  <2>3. k \notin call[c].gone /\ Taken(c, k)
    BY <2>1, <2>2 DEF Locked, Taken, LockedBy
  <2>4. entries'[k] = entries[k]
    BY <2>1, <2>3
  <2>5. StaleUntil(k)' = StaleUntil(k)
    BY <2>4 DEF StaleUntil, ExpiresAt
  <2>6. \A e \in Clients \ {d} : k \notin call'[e].gone
    BY <1>1, <2>2 DEF Locked
  <2>7. QED
    BY <2>1, <2>2, <2>4, <2>5, <2>6 DEF Locked
<1>6. QED
  BY <1>2, <1>3, <1>4, <1>5 DEF CacheInv

-----------------------------------------------------------------------------
(* Every step keeps the invariant.                                         *)

LEMMA LookupStep ==
    ASSUME CacheInv, NEW c \in Callers, NEW k \in Keys, Lookup(c, k) \/ Bypass(c, k)
    PROVE  CacheInv'
<1> DEFINE r == [Idle EXCEPT !.pc = "fetching", !.key = k]
<1>1. c \in Clients /\ UNCHANGED <<now, entries>>
  BY DEF Lookup, Bypass, Clients
<1>2. /\ r \in [pc : Places, key : Keys \cup {None}, payload : Nat, stamp : Nat,
                gone : SUBSET Keys]
      /\ r.pc = "fetching" /\ r.key = k /\ r.gone = {}
  BY DEF Idle, Places
<1>3. CASE UNCHANGED call
  BY <1>1, <1>3 DEF CacheInv, TypeOK, CallTimely, RowTimely, Locked, StaleUntil, ExpiresAt
<1>4. CASE call' = [call EXCEPT ![c] = r]
  <2>1. call'[c] = r
    BY <1>1, <1>4 DEF CacheInv, TypeOK
  <2>2. CallTimely(c)'
    BY <1>2, <2>1 DEF CallTimely, InPut
  <2> HIDE DEF r
  <2>3. QED
    BY <1>1, <1>2, <1>4, <2>2, LocalStep
<1>5. QED
  BY <1>3, <1>4 DEF Lookup, Bypass, Fetch

LEMMA AnsweredStep ==
    ASSUME CacheInv, NEW c \in Clients, Answered(c)
    PROVE  CacheInv'
<1> DEFINE r == [call[c] EXCEPT !.pc = "answered", !.payload = now]
<1>1. /\ call[c].pc = "fetching" /\ UNCHANGED <<now, entries>>
      /\ call' = [call EXCEPT ![c] = r]
  BY DEF Answered
<1>2. /\ r \in [pc : Places, key : Keys \cup {None}, payload : Nat, stamp : Nat,
                gone : SUBSET Keys]
      /\ r.pc = "answered" /\ r.key = call[c].key /\ r.payload = now
      /\ r.gone = {} /\ call[c].key \in Keys
  BY <1>1, CallTypes DEF CacheInv, CallTimely, Places, InPut
<1>3. call'[c] = r
  BY <1>1 DEF CacheInv, TypeOK
<1>4. CallTimely(c)'
  BY <1>1, <1>2, <1>3, ConstantTypes DEF CallTimely, InPut, CacheInv, TypeOK
<1> HIDE DEF r
<1>5. QED
  BY <1>1, <1>2, <1>4, LocalStep

LEMMA StampStep ==
    ASSUME CacheInv, NEW c \in Clients, Stamp(c)
    PROVE  CacheInv'
<1> DEFINE r == [call[c] EXCEPT !.pc = "pruning", !.stamp = now]
<1>1. call[c].pc = "answered" /\ UNCHANGED <<now, entries>>
  BY DEF Stamp
<1>2. CASE End(c)
  BY <1>1, <1>2, EndStep
<1>3. CASE TTL[call[c].key] > 0 /\ call' = [call EXCEPT ![c] = r]
  <2>1. /\ r \in [pc : Places, key : Keys \cup {None}, payload : Nat, stamp : Nat,
                  gone : SUBSET Keys]
        /\ r.pc = "pruning" /\ r.key = call[c].key /\ r.payload = call[c].payload
        /\ r.stamp = now /\ r.gone = {}
        /\ call[c].payload <= now /\ now <= call[c].payload + MaxWait
    BY <1>1, CallTypes DEF CacheInv, CallTimely, Places, InPut
  <2>2. call'[c] = r
    BY <1>3 DEF CacheInv, TypeOK
  <2>3. CallTimely(c)'
    BY <1>1, <1>3, <2>1, <2>2, ConstantTypes DEF CallTimely, InPut, CacheInv, TypeOK
  <2> HIDE DEF r
  <2>4. QED
    BY <1>1, <1>3, <2>1, <2>3, LocalStep
<1>4. QED
  BY <1>2, <1>3 DEF Stamp

LEMMA PruneRowStep ==
    ASSUME CacheInv, NEW c \in Clients, PruneRow(c)
    PROVE  CacheInv'
<1>1. call[c].pc = "pruning" /\ UNCHANGED <<now, entries>>
  BY DEF PruneRow
<1>2. PICK k \in ToPrune(c) : ~Taken(c, k) /\ call' = [call EXCEPT ![c].gone = @ \cup {k}]
  BY DEF PruneRow
<1> DEFINE r == [call[c] EXCEPT !.gone = @ \cup {k}]
<1>3. /\ k \in Keys /\ k # call[c].key /\ entries[k] # None
      /\ StaleUntil(k) < call[c].stamp
  BY DEF ToPrune
<1>4. /\ call' = [call EXCEPT ![c] = r]
      /\ r \in [pc : Places, key : Keys \cup {None}, payload : Nat, stamp : Nat,
                gone : SUBSET Keys]
      /\ r.pc = "pruning" /\ r.key = call[c].key /\ r.payload = call[c].payload
      /\ r.stamp = call[c].stamp /\ r.gone = call[c].gone \cup {k}
  BY <1>1, <1>2, <1>3, CallTypes DEF CacheInv, TypeOK
<1>5. call'[c] = r
  BY <1>4 DEF CacheInv, TypeOK
<1>6. CallTimely(c)'
  BY <1>1, <1>4, <1>5 DEF CallTimely, InPut, CacheInv
<1>7. \A d \in Clients \ {c} : k \notin call[d].gone
  BY <1>2 DEF Taken, LockedBy
<1>8. ASSUME NEW l \in r.gone
      PROVE  /\ entries[l] # None /\ StaleUntil(l) < r.stamp /\ l # r.key
             /\ \A d \in Clients \ {c} : l \notin call[d].gone
  <2>1. CASE l = k
    BY <1>3, <1>4, <1>7, <2>1
  <2>2. CASE l \in call[c].gone
    BY <1>4, <2>2 DEF CacheInv, Locked
  <2>3. QED
    BY <1>4, <2>1, <2>2
<1> HIDE DEF r
<1>9. r.gone # {} => r.pc \in InPut
  BY <1>4 DEF InPut
<1>10. \A l \in r.gone : /\ entries[l] # None /\ StaleUntil(l) < r.stamp /\ l # r.key
                         /\ \A d \in Clients \ {c} : l \notin call[d].gone
  BY <1>8
<1>11. QED
  BY <1>1, <1>4, <1>6, <1>9, <1>10, LocalStep

\* What is left when the deletion of c is committed.
LEMMA PrunedFacts ==
    ASSUME CacheInv, NEW c \in Clients
    PROVE  /\ Pruned(c) \in [Keys -> Rows \cup {None}]
           /\ \A k \in call[c].gone : k \in Keys /\ Pruned(c)[k] = None
           /\ \A k \in Keys \ call[c].gone : Pruned(c)[k] = entries[k]
<1>1. call[c].gone \subseteq Keys
  BY CallTypes DEF CacheInv
<1>2. QED
  BY <1>1 DEF Pruned, CacheInv, TypeOK

LEMMA PruneEndsStep ==
    ASSUME CacheInv, NEW c \in Clients, PruneEnds(c)
    PROVE  CacheInv'
<1>1. call[c].pc = "pruning" /\ UNCHANGED now
  BY DEF PruneEnds
<1>2. CASE entries' = Pruned(c) /\ End(c)
  <2>1. /\ entries' \in [Keys -> Rows \cup {None}]
        /\ \A k \in Keys : \/ entries'[k] = entries[k]
                           \/ entries'[k] = None /\ k \in call[c].gone
    BY <1>2, PrunedFacts
  <2>2. QED
    BY <1>1, <1>2, <2>1, CommitStep
<1>3. CASE call[c].key # None /\ UNCHANGED entries /\ call' = [call EXCEPT ![c].pc = "writing"]
  <2> DEFINE r == [call[c] EXCEPT !.pc = "writing"]
  <2>1. /\ call' = [call EXCEPT ![c] = r]
        /\ r \in [pc : Places, key : Keys \cup {None}, payload : Nat, stamp : Nat,
                  gone : SUBSET Keys]
        /\ r.pc = "writing" /\ r.key = call[c].key /\ r.payload = call[c].payload
        /\ r.stamp = call[c].stamp /\ r.gone = call[c].gone /\ r.key \in Keys
    BY <1>3, CallTypes DEF CacheInv, TypeOK, Places
  <2>2. call'[c] = r
    BY <2>1 DEF CacheInv, TypeOK
  <2>3. CallTimely(c)'
    BY <1>1, <1>3, <2>1, <2>2 DEF CallTimely, InPut, CacheInv
  <2>4. \A k \in r.gone : /\ entries[k] # None /\ StaleUntil(k) < r.stamp /\ k # r.key
                          /\ \A d \in Clients \ {c} : k \notin call[d].gone
    BY <2>1 DEF CacheInv, Locked
  <2> HIDE DEF r
  <2>5. QED
    BY <1>1, <1>3, <2>1, <2>3, <2>4, LocalStep DEF InPut
<1>4. QED
  BY <1>2, <1>3 DEF PruneEnds

LEMMA PutStep ==
    ASSUME CacheInv, NEW c \in Clients, Put(c)
    PROVE  CacheInv'
<1> DEFINE key == call[c].key
           row == [payload |-> call[c].payload, fetched_at |-> call[c].stamp]
<1>1. /\ call[c].pc = "writing" /\ ~Taken(c, key) /\ End(c) /\ UNCHANGED now
      /\ entries' = [Pruned(c) EXCEPT ![key] = row]
  BY DEF Put
<1>2. /\ key \in Keys /\ row \in Rows
      /\ row.fetched_at <= now /\ row.fetched_at <= row.payload + MaxWait
  BY <1>1, CallTypes, ConstantTypes DEF CacheInv, CallTimely, InPut, Rows
<1>3. key \notin call[c].gone
  BY DEF CacheInv, Locked
<1> HIDE DEF key, row
<1>4. /\ entries' \in [Keys -> Rows \cup {None}]
      /\ entries'[key] = row
      /\ \A k \in Keys \ {key} : entries'[k] = Pruned(c)[k]
  BY <1>1, <1>2, PrunedFacts
<1>5. QED
  BY <1>1, <1>2, <1>3, <1>4, PrunedFacts, CommitStep

LEMMA DeleteStep ==
    ASSUME CacheInv, NEW c \in Clients, Delete(c)
    PROVE  CacheInv'
<1> DEFINE key == call[c].key
<1>1. /\ call[c].pc = "deleting" /\ ~Taken(c, key) /\ End(c) /\ UNCHANGED now
      /\ entries' = [entries EXCEPT ![key] = None]
  BY DEF Delete
<1>2. key \notin call[c].gone
  BY DEF CacheInv, Locked
<1> HIDE DEF key
<1>3. /\ entries' \in [Keys -> Rows \cup {None}]
      /\ \A k \in Keys : entries'[k] = IF k = key THEN None ELSE entries[k]
  BY <1>1 DEF CacheInv, TypeOK
<1>4. QED
  BY <1>1, <1>2, <1>3, CommitStep

LEMMA OperatorStep ==
    ASSUME CacheInv, NEW o \in Operators,
           PruneExpired(o) \/ \E k \in Keys : DeleteCached(o, k)
    PROVE  CacheInv'
<1>1. o \in Clients /\ UNCHANGED <<now, entries>>
  BY DEF PruneExpired, DeleteCached, Clients
<1>2. ASSUME PruneExpired(o) PROVE CacheInv'
  <2> DEFINE r == [Idle EXCEPT !.pc = "pruning", !.stamp = now]
  <2>1. /\ call' = [call EXCEPT ![o] = r]
        /\ r \in [pc : Places, key : Keys \cup {None}, payload : Nat, stamp : Nat,
                  gone : SUBSET Keys]
        /\ r.pc = "pruning" /\ r.key = None /\ r.stamp = now /\ r.gone = {}
    BY <1>2 DEF PruneExpired, Idle, Places, CacheInv, TypeOK
  <2>2. call'[o] = r
    BY <1>1, <2>1 DEF CacheInv, TypeOK
  <2>3. CallTimely(o)'
    BY <1>1, <2>1, <2>2, ConstantTypes DEF CallTimely, InPut, CacheInv, TypeOK
  <2> HIDE DEF r
  <2>4. QED
    BY <1>1, <2>1, <2>3, LocalStep
<1>3. ASSUME NEW k \in Keys, DeleteCached(o, k) PROVE CacheInv'
  <2> DEFINE r == [Idle EXCEPT !.pc = "deleting", !.key = k]
  <2>1. /\ call' = [call EXCEPT ![o] = r]
        /\ r \in [pc : Places, key : Keys \cup {None}, payload : Nat, stamp : Nat,
                  gone : SUBSET Keys]
        /\ r.pc = "deleting" /\ r.key = k /\ r.gone = {}
    BY <1>3 DEF DeleteCached, Idle, Places, CacheInv, TypeOK
  <2>2. call'[o] = r
    BY <1>1, <2>1 DEF CacheInv, TypeOK
  <2>3. CallTimely(o)'
    BY <1>1, <2>1, <2>2 DEF CallTimely, InPut
  <2> HIDE DEF r
  <2>4. QED
    BY <1>1, <2>1, <2>3, LocalStep
<1>4. QED
  BY <1>2, <1>3

\* Time waits for the calls that must not be late.
LEMMA TickStep ==
    ASSUME CacheInv, Tick
    PROVE  CacheInv'
<1>1. /\ now' = now + 1 /\ now \in Nat /\ UNCHANGED <<entries, call>>
      /\ \A c \in Clients : call[c].pc \in {"answered", "pruning", "writing"} =>
             now < Since(c) + MaxWait
  BY DEF Tick, CacheInv, TypeOK
<1>2. TypeOK'
  BY <1>1 DEF CacheInv, TypeOK
<1>3. ASSUME NEW c \in Clients PROVE CallTimely(c)'
  <2>1. CallTimely(c) /\ call[c].payload \in Nat /\ call[c].stamp \in Nat
    BY CallTypes DEF CacheInv
  <2>2. CASE call[c].pc = "answered"
    BY <1>1, <2>1, <2>2, ConstantTypes DEF CallTimely, Since, InPut
  <2>3. CASE call[c].pc \in InPut
    BY <1>1, <2>1, <2>3, ConstantTypes DEF CallTimely, Since, InPut
  <2>4. CASE call[c].pc \notin InPut \cup {"answered"}
    BY <1>1, <2>1, <2>4 DEF CallTimely
  <2>5. QED
    BY <2>2, <2>3, <2>4
<1>4. ASSUME NEW c \in Clients, NEW k \in call[c].gone PROVE Locked(c, k)'
  BY <1>1 DEF CacheInv, Locked, StaleUntil, ExpiresAt
<1>5. ASSUME NEW k \in Keys PROVE RowTimely(k)'
  BY <1>1, RowTypes DEF CacheInv, RowTimely
<1>6. QED
  BY <1>1, <1>2, <1>3, <1>4, <1>5 DEF CacheInv

LEMMA InvStep == CacheInv /\ [Next]_vars => CacheInv'
<1> SUFFICES ASSUME CacheInv, [Next]_vars PROVE CacheInv'
  OBVIOUS
<1>1. CASE Tick
  BY <1>1, TickStep
<1>2. ASSUME NEW c \in Callers, NEW k \in Keys, Lookup(c, k) \/ Bypass(c, k)
      PROVE  CacheInv'
  BY <1>2, LookupStep
<1>3. ASSUME NEW o \in Operators, PruneExpired(o) \/ \E k \in Keys : DeleteCached(o, k)
      PROVE  CacheInv'
  BY <1>3, OperatorStep
<1>4. ASSUME NEW c \in Clients, RiotFails(c) \/ PutAborted(c) \/ Fail(c)
      PROVE  CacheInv'
  BY <1>4, EndStep DEF RiotFails, PutAborted, Fail
<1>5. ASSUME NEW c \in Clients, Advance(c) PROVE CacheInv'
  BY <1>4, <1>5, AnsweredStep, StampStep, PruneRowStep, PruneEndsStep, PutStep, DeleteStep
     DEF Advance, InTransaction
<1>6. CASE UNCHANGED vars
  BY <1>6 DEF vars, CacheInv, TypeOK, CallTimely, RowTimely, Locked, StaleUntil, ExpiresAt
<1>7. QED
  BY <1>1, <1>2, <1>3, <1>4, <1>5, <1>6 DEF Next

LEMMA InvAlways == Spec => []CacheInv
BY InvInit, InvStep, PTL DEF Spec

\* Types of the rows and of the calls; only a transaction has deleted rows.
THEOREM CacheTypes == Spec => []TypeOK
<1>1. CacheInv => TypeOK
  BY DEF CacheInv
<1>2. QED
  BY <1>1, InvAlways, PTL

-----------------------------------------------------------------------------
(* README.md:219-221: a usable row is no older than its windows, plus the  *)
(* time its answer took to be stamped.                                     *)

THEOREM FreshAnswers == Spec => []ServedFresh
<1>1. CacheInv => ServedFresh
  <2> SUFFICES ASSUME CacheInv, NEW k \in Keys, Servable(k)
               PROVE  now <= entries[k].payload + MaxWait + TTL[k] + Stale
    BY DEF ServedFresh
  <2>1. entries[k] # None /\ now <= StaleUntil(k) /\ TypeOK /\ RowTimely(k)
    BY DEF Servable, CacheInv
  <2>2. QED
    BY <2>1, RowTypes, ConstantTypes DEF RowTimely, TypeOK
<1>2. QED
  BY <1>1, InvAlways, PTL

-----------------------------------------------------------------------------
(* A usable row is removed only by the operator who deletes it: neither    *)
(* put nor prune_expired removes one, however old their stamps are when    *)
(* they commit (postgres_cache.py:60-78, 94-104).                          *)

THEOREM UsableRowsAreKept == Spec => UsableRowsStay
<1> DEFINE Kept == \A k \in Keys : Servable(k) /\ entries'[k] = None =>
                      \E o \in Operators : call[o].pc = "deleting" /\ call[o].key = k
<1>1. ASSUME CacheInv, [Next]_vars PROVE Kept
  <2> SUFFICES ASSUME CacheInv, [Next]_vars, NEW k \in Keys, Servable(k), entries'[k] = None
               PROVE  \E o \in Operators : call[o].pc = "deleting" /\ call[o].key = k
    BY <1>1
  <2>1. entries[k] # None /\ now <= StaleUntil(k) /\ entries'[k] # entries[k]
    BY DEF Servable
  <2>2. ASSUME NEW c \in Clients, call[c].pc \in InPut PROVE k \notin call[c].gone
    <3>1. CallTimely(c) /\ call[c].stamp <= now
      BY <2>2 DEF CacheInv, CallTimely
    <3>2. k \in call[c].gone => StaleUntil(k) < call[c].stamp
      BY DEF CacheInv, Locked
    <3>3. StaleUntil(k) \in Nat /\ call[c].stamp \in Nat /\ now \in Nat
      BY <2>1, RowTypes, CallTypes DEF CacheInv
    <3>4. QED
      BY <2>1, <3>1, <3>2, <3>3
  <2>3. ASSUME NEW c \in Clients, PruneEnds(c) PROVE FALSE
    <3>1. entries' = Pruned(c) /\ call[c].pc \in InPut
      BY <2>1, <2>3 DEF PruneEnds, InPut
    <3>2. QED
      BY <2>1, <2>2, <3>1, PrunedFacts
  <2>4. ASSUME NEW c \in Clients, Put(c) PROVE FALSE
    <3>1. /\ call[c].pc \in InPut
          /\ entries' = [Pruned(c) EXCEPT ![call[c].key] =
                           [payload |-> call[c].payload, fetched_at |-> call[c].stamp]]
      BY <2>4 DEF Put, InPut
    <3>2. k # call[c].key => entries'[k] = entries[k]
      BY <2>2, <3>1, PrunedFacts
    <3>3. k = call[c].key => entries'[k] \in Rows
      BY <3>1, CallTypes, PrunedFacts DEF Rows, CacheInv
    <3>4. QED
      BY <2>1, <3>2, <3>3, ConstantTypes
  <2>5. ASSUME NEW c \in Clients, Delete(c)
        PROVE  \E o \in Operators : call[o].pc = "deleting" /\ call[o].key = k
    <3>1. call[c].pc = "deleting" /\ entries' = [entries EXCEPT ![call[c].key] = None]
      BY <2>5 DEF Delete
    <3>2. c \in Operators /\ call[c].key = k
      BY <2>1, <3>1 DEF CacheInv, CallTimely, TypeOK
    <3>3. QED
      BY <3>1, <3>2
  <2>6. UNCHANGED entries \/ \E c \in Clients : PruneEnds(c) \/ Put(c) \/ Delete(c)
    BY DEF Next, Tick, Lookup, Bypass, DeleteCached, PruneExpired, Advance, InTransaction,
           Answered, RiotFails, Stamp, PruneRow, PutAborted, Fail, vars
  <2>7. QED
    BY <2>1, <2>3, <2>4, <2>5, <2>6
<1>2. [Kept]_vars <=> Kept
  <2>1. UNCHANGED vars => Kept
    BY DEF Servable, vars
  <2>2. QED
    BY <2>1
<1>3. QED
  BY <1>1, <1>2, InvAlways, PTL DEF Spec, UsableRowsStay

-----------------------------------------------------------------------------
(* README.md:219-221: the write of one row leaves no other row that was    *)
(* past its window at the stamp of the write.  The rows that committed     *)
(* while the put ran are the difficulty: their stamps may be older, but    *)
(* by no more than MaxWait, which their window has to cover.               *)

ClearOf(c, k) ==
    entries[k] # None /\ k \notin call[c].gone => StaleUntil(k) >= call[c].stamp

PrunedInv ==
    \A c \in Clients : call[c].pc = "writing" =>
        \A k \in Keys \ {call[c].key} : ClearOf(c, k)

\* A row that a step inserts or updates is that of a put which commits.
LEMMA RowWritten ==
    ASSUME CacheInv, [Next]_vars, NEW k \in Keys, entries'[k] # None, entries'[k] # entries[k]
    PROVE  \E d \in Clients : /\ call[d].pc = "writing" /\ call[d].key = k
                              /\ entries'[k].fetched_at = call[d].stamp
                              /\ call'[d].pc = "idle"
<1>1. \E d \in Clients : PruneEnds(d) \/ Put(d) \/ Delete(d)
  BY DEF Next, Tick, Lookup, Bypass, DeleteCached, PruneExpired, Advance, InTransaction,
         Answered, RiotFails, Stamp, PruneRow, PutAborted, Fail, vars
<1>2. ASSUME NEW d \in Clients, PruneEnds(d) PROVE FALSE
  BY <1>2, PrunedFacts DEF PruneEnds
<1>3. ASSUME NEW d \in Clients, Delete(d) PROVE FALSE
  BY <1>3 DEF Delete, CacheInv, TypeOK
<1>4. ASSUME NEW d \in Clients, Put(d)
      PROVE  /\ call[d].pc = "writing" /\ call[d].key = k
             /\ entries'[k].fetched_at = call[d].stamp
             /\ call'[d].pc = "idle"
  <2>1. /\ call[d].pc = "writing"
        /\ entries' = [Pruned(d) EXCEPT ![call[d].key] =
                         [payload |-> call[d].payload, fetched_at |-> call[d].stamp]]
        /\ call' = [call EXCEPT ![d] = Idle]
    BY <1>4 DEF Put, End
  <2>2. k # call[d].key => entries'[k] = Pruned(d)[k]
    BY <2>1, PrunedFacts
  <2>3. call[d].key = k
    BY <2>2, PrunedFacts
  <2>4. entries'[k] = [payload |-> call[d].payload, fetched_at |-> call[d].stamp]
    BY <2>1, <2>3, PrunedFacts
  <2>5. call'[d] = Idle
    BY <2>1 DEF CacheInv, TypeOK
  <2>6. QED
    BY <2>1, <2>3, <2>4, <2>5 DEF Idle
<1>5. QED
  BY <1>1, <1>2, <1>3, <1>4

\* A client that is writing was so before, or has just ended its deletion.
LEMMA StartsWriting ==
    ASSUME CacheInv, [Next]_vars, NEW c \in Clients, call'[c].pc = "writing"
    PROVE  \/ call'[c] = call[c]
           \/ /\ ToPrune(c) = {} /\ UNCHANGED entries
              /\ call'[c].key = call[c].key /\ call'[c].stamp = call[c].stamp
              /\ call'[c].gone = call[c].gone
<1>1. DOMAIN call = Clients
  BY DEF CacheInv, TypeOK
<1>2. CASE UNCHANGED call
  BY <1>2
<1>3. ASSUME NEW d \in Clients, d # c, \E r : call' = [call EXCEPT ![d] = r]
      PROVE  call'[c] = call[c]
  BY <1>1, <1>3
<1>4. ASSUME \E r : r.pc # "writing" /\ call' = [call EXCEPT ![c] = r]
      PROVE  FALSE
  BY <1>1, <1>4
<1>5. ASSUME NEW d \in Clients, End(d) PROVE call'[c] = call[c]
  <2>1. call'[d] = Idle /\ \A e \in Clients \ {d} : call'[e] = call[e]
    BY <1>1, <1>5 DEF End
  <2>2. QED
    BY <2>1 DEF Idle
<1>6. ASSUME NEW d \in Clients, NEW k \in Keys, Lookup(d, k) \/ Bypass(d, k) \/ DeleteCached(d, k)
      PROVE  call'[c] = call[c]
  <2>1. \/ UNCHANGED call
        \/ call' = [call EXCEPT ![d] = [Idle EXCEPT !.pc = "fetching", !.key = k]]
        \/ call' = [call EXCEPT ![d] = [Idle EXCEPT !.pc = "deleting", !.key = k]]
    BY <1>6 DEF Lookup, Bypass, DeleteCached, Fetch
  <2>2. \A e \in Clients \ {d} : call'[e] = call[e]
    BY <1>1, <2>1
  <2>3. UNCHANGED call \/ call'[d].pc \in {"fetching", "deleting"}
    BY <1>1, <2>1 DEF Idle
  <2>4. QED
    BY <2>2, <2>3
<1>7. ASSUME NEW d \in Clients, PruneExpired(d) \/ Answered(d) \/ PruneRow(d)
      PROVE  call'[c] = call[c]
  <2>1. \A e \in Clients \ {d} : call'[e] = call[e]
    BY <1>1, <1>7 DEF PruneExpired, Answered, PruneRow
  <2>2. call'[d].pc \in {"pruning", "answered"}
    <3>1. CASE PruneExpired(d)
      BY <1>1, <3>1 DEF PruneExpired, Idle
    <3>2. CASE Answered(d)
      BY <1>1, <3>2, CallTypes DEF Answered, CacheInv
    <3>3. CASE PruneRow(d)
      BY <1>1, <3>3, CallTypes DEF PruneRow, CacheInv
    <3>4. QED
      BY <1>7, <3>1, <3>2, <3>3
  <2>3. QED
    BY <2>1, <2>2
<1>8. ASSUME NEW d \in Clients, Stamp(d) PROVE call'[c] = call[c]
  <2>1. CASE End(d)
    BY <1>5, <2>1
  <2>2. CASE call' = [call EXCEPT ![d].pc = "pruning", ![d].stamp = now]
    <3>1. \A e \in Clients \ {d} : call'[e] = call[e]
      BY <1>1, <2>2
    <3>2. call'[d].pc = "pruning"
      BY <1>1, <2>2, CallTypes DEF CacheInv
    <3>3. QED
      BY <3>1, <3>2
  <2>3. QED
    BY <1>8, <2>1, <2>2 DEF Stamp
<1>9. ASSUME NEW d \in Clients, PruneEnds(d)
      PROVE  \/ call'[c] = call[c]
             \/ /\ ToPrune(c) = {} /\ UNCHANGED entries
                /\ call'[c].key = call[c].key /\ call'[c].stamp = call[c].stamp
                /\ call'[c].gone = call[c].gone
  <2>1. CASE End(d)
    BY <1>5, <2>1
  <2>2. CASE UNCHANGED entries /\ call' = [call EXCEPT ![d].pc = "writing"]
    <3>1. \A e \in Clients \ {d} : call'[e] = call[e]
      BY <1>1, <2>2
    <3>2. call'[d] = [call[d] EXCEPT !.pc = "writing"] /\ ToPrune(d) = {}
      BY <1>1, <1>9, <2>2 DEF PruneEnds
    <3>3. /\ call'[d].key = call[d].key /\ call'[d].stamp = call[d].stamp
          /\ call'[d].gone = call[d].gone
      BY <3>2, CallTypes DEF CacheInv
    <3>4. QED
      BY <2>2, <3>1, <3>2, <3>3
  <2>3. QED
    BY <1>9, <2>1, <2>2 DEF PruneEnds
<1>10. ASSUME NEW d \in Clients,
              RiotFails(d) \/ Put(d) \/ PutAborted(d) \/ Delete(d) \/ Fail(d)
       PROVE  call'[c] = call[c]
  BY <1>5, <1>10 DEF RiotFails, Put, PutAborted, Delete, Fail
<1>11. \/ UNCHANGED call
       \/ \E d \in Clients, k \in Keys : Lookup(d, k) \/ Bypass(d, k) \/ DeleteCached(d, k)
       \/ \E d \in Clients : PruneExpired(d) \/ Advance(d) \/ Fail(d)
  BY DEF Next, Tick, vars, Clients
<1>12. QED
  BY <1>2, <1>6, <1>7, <1>8, <1>9, <1>10, <1>11 DEF Advance, InTransaction

LEMMA PrunedStep ==
    ASSUME \A k \in Keys : TTL[k] > 0 => MaxWait <= TTL[k] + Stale,
           CacheInv, PrunedInv, [Next]_vars
    PROVE  PrunedInv'
<1> SUFFICES ASSUME NEW c \in Clients, call'[c].pc = "writing",
                    NEW k \in Keys \ {call'[c].key}, entries'[k] # None, k \notin call'[c].gone
             PROVE  StaleUntil(k)' >= call'[c].stamp
  BY DEF PrunedInv, ClearOf
<1>1. CacheInv'
  BY InvStep
<1>2. /\ call'[c].key = call[c].key /\ call'[c].stamp = call[c].stamp
      /\ call'[c].gone = call[c].gone
  BY StartsWriting
<1>3. CASE entries'[k] = entries[k]
  <2>1. StaleUntil(k)' = StaleUntil(k)
    BY <1>3 DEF StaleUntil, ExpiresAt
  <2>2. CASE call'[c] = call[c]
    BY <1>2, <1>3, <2>1, <2>2 DEF PrunedInv, ClearOf
  <2>3. CASE ToPrune(c) = {}
    <3>1. ~(StaleUntil(k) < call[c].stamp)
      BY <1>2, <1>3, <2>3 DEF ToPrune
    <3>2. StaleUntil(k) \in Nat /\ call[c].stamp \in Nat
      BY <1>3, RowTypes, CallTypes DEF CacheInv
    <3>3. QED
      BY <1>2, <2>1, <3>1, <3>2
  <2>4. QED
    BY <2>2, <2>3, StartsWriting
<1>4. CASE entries'[k] # entries[k]
  <2>1. PICK d \in Clients : /\ call[d].pc = "writing" /\ call[d].key = k
                             /\ entries'[k].fetched_at = call[d].stamp
    BY <1>4, RowWritten
  <2>2. now <= call[d].stamp + MaxWait /\ TTL[k] > 0
    BY <2>1, ConstantTypes DEF CacheInv, CallTimely, InPut
  <2>3. StaleUntil(k)' = call[d].stamp + TTL[k] + Stale
    BY <2>1 DEF StaleUntil, ExpiresAt
  <2>4. call'[c].stamp <= now'
    BY <1>1 DEF CacheInv, CallTimely, InPut
  <2>5. now' = now
    <3>1. ~Tick /\ ~UNCHANGED vars
      BY <1>4 DEF Tick, vars
    <3>2. QED
      BY <3>1 DEF Next, Lookup, Bypass, DeleteCached, PruneExpired, Advance, InTransaction,
                  Answered, RiotFails, Stamp, PruneRow, PruneEnds, Put, PutAborted, Delete, Fail
  <2>6. call[d].stamp \in Nat /\ call[c].stamp \in Nat /\ now \in Nat
    BY CallTypes DEF CacheInv
  <2>7. QED
    BY <1>2, <2>2, <2>3, <2>4, <2>5, <2>6, ConstantTypes
<1>5. QED
  BY <1>3, <1>4

THEOREM WritesPrune ==
    ASSUME \A k \in Keys : TTL[k] > 0 => MaxWait <= TTL[k] + Stale
    PROVE  Spec => PrunedOnWrite
<1> DEFINE Clean == \A c \in Callers : call[c].pc = "writing" /\ Put(c) =>
                       \A k \in Keys \ {call[c].key} :
                           entries'[k] # None => StaleUntil(k)' >= call[c].stamp
<1>1. Init => PrunedInv
  BY DEF Init, PrunedInv, Idle
<1>2. CacheInv /\ PrunedInv /\ [Next]_vars => PrunedInv'
  BY PrunedStep
<1>3. ASSUME CacheInv, PrunedInv PROVE [Clean]_vars
  <2> SUFFICES ASSUME CacheInv, PrunedInv, NEW c \in Callers, call[c].pc = "writing", Put(c),
                      NEW k \in Keys \ {call[c].key}, entries'[k] # None
               PROVE  StaleUntil(k)' >= call[c].stamp
    BY <1>3
  <2>1. c \in Clients
    BY DEF Clients
  <2>2. entries'[k] = Pruned(c)[k]
    BY <2>1, PrunedFacts DEF Put
  <2>3. k \notin call[c].gone /\ entries'[k] = entries[k]
    BY <2>1, <2>2, PrunedFacts
  <2>4. StaleUntil(k)' = StaleUntil(k)
    BY <2>3 DEF StaleUntil, ExpiresAt
  <2>5. QED
    BY <2>1, <2>3, <2>4 DEF PrunedInv, ClearOf
<1>4. QED
  BY <1>1, <1>2, <1>3, InvAlways, PTL DEF Spec, PrunedOnWrite

-----------------------------------------------------------------------------
\* For any number of clients and any times to live: whoever waits for a row
\* waits for one that another transaction deleted (Locked), which was past its
\* window at the stamp of that transaction and cannot have been renewed since.
THEOREM WaitsAreForExpiredRows == Spec => []UsableRowsAreFree
<1>1. ASSUME CacheInv, NEW c \in Clients, NEW k \in Awaited(c), Taken(c, k)
      PROVE  ~Servable(k)
  <2>1. PICK d \in Clients : k \in call[d].gone
    BY <1>1 DEF Taken, LockedBy
  <2>2. k \in Keys /\ call[d].pc \in InPut
    BY <1>1, <2>1, CallTypes DEF CacheInv, InPut
  <2>3. entries[k] # None /\ StaleUntil(k) < call[d].stamp /\ call[d].stamp <= now
    BY <1>1, <2>1, <2>2 DEF CacheInv, Locked, CallTimely, InPut
  <2>4. StaleUntil(k) \in Nat /\ call[d].stamp \in Nat /\ now \in Nat
    BY <1>1, <2>2, <2>3, RowTypes, CallTypes DEF CacheInv, TypeOK
  <2> QED
    BY <2>3, <2>4 DEF Servable
<1>2. CacheInv => UsableRowsAreFree
  BY <1>1 DEF UsableRowsAreFree
<1> QED
  BY <1>2, InvAlways, PTL

-----------------------------------------------------------------------------
(* Types, and what the rows that are in the table and those that are not   *)
(* yet are to each other.                                                  *)

DraftsOK ==
    /\ IsFiniteSet(rows)
    /\ IdsOf(rows) \cap IdsOf(drafts) = {}
    /\ \A draft \in drafts : draft.status = "queued"

LEMMA StatusKinds ==
    Statuses = {"queued", "running", "succeeded", "failed"} /\ Active \cap Terminal = {}
  BY DEF Statuses, Active, Terminal

\* A row that a step changes keeps its identity, and no step takes one back.
RowChanged(r, to) ==
    /\ r \in rows
    /\ to \in Statuses
    /\ r.status \in Active
    /\ to \in Active => to = "running"
    /\ rows' = (rows \ {r}) \cup {[r EXCEPT !.status = to]}

LEMMA JobSteps ==
    ASSUME TableTypeOK, NEW r \in rows, JobStep(r)
    PROVE  /\ \E to \in {"running", "succeeded", "failed"} : RowChanged(r, to)
           /\ UNCHANGED <<clock, drafts, lister>>
<1>1. CASE MarkRunning(r)
  BY <1>1, StatusKinds DEF MarkRunning, Becomes, RowChanged, Active
<1>2. CASE MarkSucceeded(r)
  BY <1>2, StatusKinds DEF MarkSucceeded, Becomes, RowChanged, Active
<1>3. CASE MarkFailed(r)
  BY <1>3, StatusKinds DEF MarkFailed, Becomes, RowChanged, Active
<1> QED
  BY <1>1, <1>2, <1>3 DEF JobStep

LEMMA ChangeKeepsTypes ==
    ASSUME TableTypeOK, DraftsOK, NEW r, NEW to, RowChanged(r, to),
           UNCHANGED <<clock, drafts, lister>>
    PROVE  TableTypeOK' /\ DraftsOK'
<1> DEFINE n == [r EXCEPT !.status = to]
<1>1. /\ r \in RowsOf(JobIds)
      /\ n \in RowsOf(JobIds)
      /\ n.id = r.id /\ n.variant = r.variant /\ n.created = r.created /\ n.status = to
  BY DEF TableTypeOK, RowChanged, RowsOf
<1>2. rows' = (rows \ {r}) \cup {n} /\ drafts' = drafts /\ r \in rows /\ r.status \in Active
  BY DEF RowChanged
<1> HIDE DEF n
<1>3. IsFiniteSet(rows')
  <2>1. IsFiniteSet(rows \ {r})
    BY <1>2, FS_Subset DEF DraftsOK
  <2> QED
    BY <1>2, <2>1, FS_AddElement
<1>4. \A a, b \in rows' \cup drafts' : a.id = b.id => a = b
  <2>1. \A a \in rows \cup drafts : a.id = n.id => a = r
    BY <1>1, <1>2 DEF TableTypeOK
  <2>2. r \notin drafts
    BY <1>2 DEF DraftsOK, IdsOf
  <2> QED
    BY <1>2, <2>1, <2>2 DEF TableTypeOK
<1>5. \A a, b \in rows' : a.variant = b.variant /\ {a.status, b.status} \subseteq Active => a = b
  <2>1. \A a \in rows : a.variant = n.variant /\ a.status \in Active => a = r
    BY <1>1, <1>2 DEF TableTypeOK
  <2> QED
    BY <1>2, <2>1 DEF TableTypeOK
<1>6. IdsOf(rows') \cap IdsOf(drafts') = {}
  BY <1>1, <1>2 DEF DraftsOK, IdsOf
<1>7. rows' \cup drafts' \subseteq RowsOf(JobIds)
  BY <1>1, <1>2 DEF TableTypeOK
<1> QED
  BY <1>2, <1>3, <1>4, <1>5, <1>6, <1>7 DEF TableTypeOK, DraftsOK

LEMMA InsertKeepsTypes ==
    ASSUME TableTypeOK, DraftsOK, NEW draft, Insert(draft)
    PROVE  TableTypeOK' /\ DraftsOK'
<1>1. draft \in drafts /\ drafts' = drafts \ {draft} /\ UNCHANGED <<clock, lister>>
  BY DEF Insert
<1>2. CASE Conflict(draft)
  <2>1. rows' = rows
    BY <1>2 DEF Insert, Inserted
  <2> QED
    BY <1>1, <2>1 DEF TableTypeOK, DraftsOK, IdsOf
<1>3. CASE ~Conflict(draft)
  <2>1. rows' = rows \cup {draft}
    BY <1>3 DEF Insert, Inserted
  <2>2. \A r \in rows : ~(r.variant = draft.variant /\ r.status \in Active)
    BY <1>3 DEF Conflict
  <2>3. IsFiniteSet(rows')
    BY <2>1, FS_AddElement DEF DraftsOK
  <2>4. \A a, b \in rows' : a.variant = b.variant /\ {a.status, b.status} \subseteq Active => a = b
    BY <2>1, <2>2 DEF TableTypeOK
  <2>5. IdsOf(rows') \cap IdsOf(drafts') = {}
    BY <1>1, <2>1 DEF TableTypeOK, DraftsOK, IdsOf
  <2>6. rows' \cup drafts' \subseteq rows \cup drafts
    BY <1>1, <2>1
  <2>7. TableTypeOK'
    BY <1>1, <2>4, <2>6 DEF TableTypeOK
  <2>8. DraftsOK'
    BY <1>1, <2>3, <2>5 DEF DraftsOK
  <2> QED
    BY <2>7, <2>8
<1> QED
  BY <1>2, <1>3

LEMMA DrawKeepsTypes ==
    ASSUME TableTypeOK, DraftsOK, NEW id \in JobIds, NEW variant \in Variants, Draw(id, variant)
    PROVE  TableTypeOK' /\ DraftsOK'
<1> DEFINE d == Draft(id, variant)
<1>1. /\ id \notin IdsOf(rows) \cup IdsOf(drafts)
      /\ drafts' = drafts \cup {d} /\ UNCHANGED <<clock, rows, lister>>
  BY DEF Draw, Unused
<1>2. d \in RowsOf(JobIds) /\ d.id = id /\ d.status = "queued"
  BY StatusKinds DEF Draft, RowsOf, TableTypeOK
<1> HIDE DEF d
<1> QED
  BY <1>1, <1>2 DEF TableTypeOK, DraftsOK, IdsOf

LEMMA ListKeepsTypes ==
    ASSUME TableTypeOK, DraftsOK, ListingNext
    PROVE  TableTypeOK' /\ DraftsOK'
<1>1. UNCHANGED <<clock, rows, drafts>>
  BY DEF ListingNext, ListPage, BeginList
<1>2. \A S \in SUBSET rows : IdsOf(S) \in SUBSET JobIds /\ S \in SUBSET RowsOf(JobIds)
  BY DEF TableTypeOK, RowsOf, IdsOf
<1>3. CASE ListPage
  <2> DEFINE page == PageOfJobs(lister.statuses, lister.cursor, ListLimit)
  <2>1. page \in SUBSET rows /\ LastOf(page) \in SUBSET rows
    BY DEF PageOfJobs, FirstOf, Matching, LastOf
  <2>2. IdsOf(page) \in SUBSET JobIds /\ LastOf(page) \in SUBSET RowsOf(JobIds)
    BY <1>2, <2>1
  <2> HIDE DEF page
  <2>3. lister' \in [pc : {"idle", "list", "done"}, statuses : SUBSET Statuses,
                     cursor : SUBSET RowsOf(JobIds), listed : SUBSET JobIds,
                     twice : SUBSET JobIds, first : SUBSET JobIds]
    BY <1>3, <2>2 DEF ListPage, TableTypeOK, page
  <2> QED
    BY <1>1, <2>3 DEF TableTypeOK, DraftsOK
<1>4. ASSUME NEW statuses \in {Active, Statuses}, BeginList(statuses)
      PROVE  TableTypeOK' /\ DraftsOK'
  <2>1. IdsOf(Matching(statuses, {})) \in SUBSET JobIds /\ statuses \in SUBSET Statuses
    BY <1>2 DEF Matching, Statuses
  <2>2. lister' \in [pc : {"idle", "list", "done"}, statuses : SUBSET Statuses,
                     cursor : SUBSET RowsOf(JobIds), listed : SUBSET JobIds,
                     twice : SUBSET JobIds, first : SUBSET JobIds]
    BY <1>4, <2>1 DEF BeginList, Unlisted
  <2> QED
    BY <1>1, <2>2 DEF TableTypeOK, DraftsOK
<1> QED
  BY <1>3, <1>4 DEF ListingNext

LEMMA TableKeepsTypes ==
    ASSUME TableTypeOK, DraftsOK, TableNext
    PROVE  TableTypeOK' /\ DraftsOK'
<1>1. CASE ClockTick
  BY <1>1 DEF ClockTick, TableTypeOK, DraftsOK
<1>2. CASE DraftsNext
  BY <1>2, DrawKeepsTypes, InsertKeepsTypes DEF DraftsNext
<1>3. CASE \E r \in rows : JobStep(r)
  BY <1>3, JobSteps, ChangeKeepsTypes
<1>4. CASE ListingNext
  BY <1>4, ListKeepsTypes
<1> QED
  BY <1>1, <1>2, <1>3, <1>4 DEF TableNext, RowsNext

ViewOK == ViewTypeOK /\ DraftsOK

LEMMA TableTouches ==
    ASSUME TableTypeOK, DraftsOK, TableNext
    PROVE  \/ UNCHANGED rows
           \/ \E draft \in drafts : Insert(draft)
           \/ \E r \in rows : /\ \E to \in {"running", "succeeded", "failed"} : RowChanged(r, to)
                              /\ UNCHANGED <<clock, drafts, lister>>
<1>1. CASE ClockTick \/ ListingNext
  BY <1>1 DEF ClockTick, ListingNext, ListPage, BeginList
<1>2. CASE DraftsNext
  BY <1>2 DEF DraftsNext, Draw
<1>3. CASE \E r \in rows : JobStep(r)
  BY <1>3, JobSteps
<1> QED
  BY <1>1, <1>2, <1>3 DEF TableNext, RowsNext

LEMMA StatusesAreStatuses ==
    ASSUME TableTypeOK, NEW S \in SUBSET rows
    PROVE  StatusesOf(S) \in SUBSET Statuses
  BY DEF TableTypeOK, RowsOf, StatusesOf

LEMMA ViewKeepsTypes ==
    ASSUME ViewOK, ViewNext
    PROVE  ViewOK'
<1>1. UNCHANGED <<clock, rows, drafts, lister, cache>>
  BY DEF ViewNext, BeginView, ReadJobs, ReadCache, tableVars
<1>2. CASE BeginView
  BY <1>1, <1>2, StatusesAreStatuses DEF BeginView, NoView, ViewOK, ViewTypeOK, DraftsOK,
     TableTypeOK
<1>3. ASSUME NEW at, NEW next \in {"second", "cache"}, ReadJobs(at, next)
      PROVE  ViewOK'
  <2> DEFINE page == PageOfJobs(Reads[at], {}, LimitOf(Reads[at]))
  <2>1. StatusesOf(page) \in SUBSET Statuses
    <3>1. page \in SUBSET rows
      BY DEF PageOfJobs, FirstOf, Matching
    <3> HIDE DEF page
    <3> QED
      BY <3>1, StatusesAreStatuses DEF ViewOK, ViewTypeOK
  <2>2. HasMore(Reads[at], {}, LimitOf(Reads[at])) \in BOOLEAN
    BY DEF HasMore
  <2> HIDE DEF page
  <2> QED
    BY <1>1, <1>3, <2>1, <2>2 DEF ReadJobs, page, ViewOK, ViewTypeOK, DraftsOK, TableTypeOK
<1>4. CASE ReadCache
  <2>1. PICK state \in Server!StatesOf(view.seen \cap Active # {}, view.seen \cap Terminal) :
          view' = [view EXCEPT !.at = "answered", !.state = state]
    BY <1>4 DEF ReadCache
  <2>2. state \in Server!Lifecycles
    BY <2>1, Zenon DEF Server!StatesOf, Server!ProfileStatus, Server!Lifecycles, Server!Busy
  <2> QED
    BY <1>1, <2>1, <2>2 DEF ViewOK, ViewTypeOK, DraftsOK, TableTypeOK
<1> QED
  BY <1>2, <1>3, <1>4 DEF ViewNext

\* Every row has its id and its active routes to itself, and a request has
\* seen statuses and answers one of the lifecycles.
THEOREM ViewTypes == ViewSpec => []ViewOK
<1>1. ViewInit => ViewOK
  <2>1. IsFiniteSet({})
    BY FS_EmptySet
  <2> QED
    BY <2>1, TableConstantsOK DEF ViewInit, TableInit, Unlisted, NoView, ViewOK, ViewTypeOK,
       TableTypeOK, DraftsOK, IdsOf
<1>2. ASSUME ViewOK, [Composed]_viewVars
      PROVE  ViewOK'
  <2>1. CASE ViewNext
    BY <1>2, <2>1, ViewKeepsTypes
  <2>2. CASE CacheNext
    BY <1>2, <2>2 DEF CacheNext, FillCache, CacheAges, ViewOK, ViewTypeOK, DraftsOK, TableTypeOK,
       tableVars
  <2>3. CASE TableNext /\ UNCHANGED <<cache, view>>
    BY <1>2, <2>3, TableKeepsTypes DEF ViewOK, ViewTypeOK
  <2>4. CASE UNCHANGED viewVars
    BY <1>2, <2>4 DEF viewVars, tableVars, ViewOK, ViewTypeOK, DraftsOK, TableTypeOK
  <2> QED
    BY <1>2, <2>1, <2>2, <2>3, <2>4 DEF Composed
<1> QED
  BY <1>1, <1>2, PTL DEF ViewSpec

-----------------------------------------------------------------------------
(* The rows implement ProfileServer.                                       *)

Busied == \E r \in rows : r.variant = Own /\ r.status \in Active

LEMMA ActiveIs == (StatusesOf(rows) \cap Active # {}) <=> Busied
  BY DEF StatusesOf, Busied

LEMMA ChangeIsServed ==
    ASSUME TableTypeOK, NEW r \in rows, NEW to \in {"running", "succeeded", "failed"},
           RowChanged(r, to), UNCHANGED cache
    PROVE  \/ /\ Busied' <=> Busied
              /\ (StatusesOf(rows) \cap Terminal)' = StatusesOf(rows) \cap Terminal
           \/ /\ to \in Terminal
              /\ Busied /\ ~Busied'
              /\ (StatusesOf(rows) \cap Terminal)' = (StatusesOf(rows) \cap Terminal) \cup {to}
<1> DEFINE n == [r EXCEPT !.status = to]
<1>1. /\ n.variant = r.variant /\ n.status = to
      /\ rows' = (rows \ {r}) \cup {n} /\ r.status \in Active
  BY DEF TableTypeOK, RowChanged, RowsOf
<1> HIDE DEF n
<1>2. CASE r.variant # Own
  BY <1>1, <1>2 DEF StatusesOf, Busied
<1>3. CASE r.variant = Own /\ to = "running"
  BY <1>1, <1>3 DEF StatusesOf, Busied, Active, Terminal
<1>4. CASE r.variant = Own /\ to # "running"
  <2>1. \A s \in rows \ {r} : ~(s.variant = Own /\ s.status \in Active)
    BY <1>1, <1>4 DEF TableTypeOK
  <2>2. to \in Terminal /\ to \notin Active
    BY <1>4 DEF Active, Terminal
  <2>3. Busied /\ ~Busied'
    BY <1>1, <1>4, <2>1, <2>2 DEF Busied
  <2>4. (StatusesOf(rows) \cap Terminal)' = (StatusesOf(rows) \cap Terminal) \cup {to}
    BY <1>1, <1>4, <2>2, StatusKinds DEF StatusesOf
  <2> QED
    BY <2>2, <2>3, <2>4
<1> QED
  BY <1>2, <1>3, <1>4

LEMMA InsertIsServed ==
    ASSUME DraftsOK, NEW draft \in drafts, Insert(draft)
    PROVE  /\ (StatusesOf(rows) \cap Terminal)' = StatusesOf(rows) \cap Terminal
           /\ Busied => Busied'
<1>1. rows' = rows \/ (rows' = rows \cup {draft} /\ draft.status = "queued")
  BY DEF Insert, Inserted, DraftsOK
<1> QED
  BY <1>1 DEF StatusesOf, Busied, Terminal

ServedNow ==
    /\ Busied' <=> Busied
    /\ (StatusesOf(rows) \cap Terminal)' = StatusesOf(rows) \cap Terminal
    /\ cache' = cache

LEMMA ServedSame ==
    ASSUME ServedNow
    PROVE  UNCHANGED Server!serverVars
  BY ActiveIs DEF ServedNow, Busied, StatusesOf, Server!serverVars

\* The rows are to those who ask what ProfileServer says: a step on them
\* creates the active job, ends it, or is none of the profile's business.
THEOREM OneJobAtATime == ViewSpec => OneActiveJob
<1>1. ASSUME ViewOK, ViewOK', [Composed]_viewVars
      PROVE  [Server!ServerNext]_(Server!serverVars)
  <2>1. CASE ViewNext \/ UNCHANGED viewVars
    <3>1. UNCHANGED <<rows, cache>>
      BY <2>1 DEF ViewNext, BeginView, ReadJobs, ReadCache, viewVars, tableVars
    <3> QED
      BY <3>1 DEF Server!serverVars, StatusesOf
  <2>2. CASE FillCache
    <3>1. Busied
      BY <2>2 DEF FillCache, StatusesOf, Busied, Active
    <3>2. UNCHANGED StatusesOf(rows)
      BY <2>2 DEF FillCache, tableVars, StatusesOf
    <3>3. Server!FillCache
      BY <2>2, <3>1, <3>2, ActiveIs DEF FillCache, Server!FillCache
    <3> QED
      BY <3>3 DEF Server!ServerNext
  <2>3. CASE CacheAges
    <3>1. UNCHANGED StatusesOf(rows)
      BY <2>3 DEF CacheAges, tableVars, StatusesOf
    <3>2. Server!CacheAges
      BY <2>3, <3>1 DEF CacheAges, Server!CacheAges
    <3> QED
      BY <3>2 DEF Server!ServerNext
  <2>4. ASSUME UNCHANGED <<rows, cache>>
        PROVE  UNCHANGED Server!serverVars
    BY <2>4 DEF Server!serverVars, StatusesOf
  <2>5. ASSUME NEW draft \in drafts, Insert(draft), UNCHANGED cache
        PROVE  [Server!ServerNext]_(Server!serverVars)
    <3>1. (StatusesOf(rows) \cap Terminal)' = StatusesOf(rows) \cap Terminal
      BY <1>1, <2>5, InsertIsServed DEF ViewOK
    <3>2. CASE Busied'
      <4>1. (StatusesOf(rows) \cap Active # {})' <=> Busied'
        BY DEF StatusesOf, Busied
      <4>2. Server!Create
        BY <2>5, <3>1, <3>2, <4>1 DEF Server!Create
      <4> QED
        BY <4>2 DEF Server!ServerNext
    <3>3. CASE ~Busied'
      <4>1. ~Busied
        BY <1>1, <2>5, <3>3, InsertIsServed DEF ViewOK
      <4> QED
        BY <2>5, <3>1, <3>3, <4>1, ServedSame DEF ServedNow
    <3> QED
      BY <3>2, <3>3
  <2>6. ASSUME NEW r \in rows, NEW to \in {"running", "succeeded", "failed"},
               RowChanged(r, to), UNCHANGED cache
        PROVE  [Server!ServerNext]_(Server!serverVars)
    <3>1. CASE ServedNow
      BY <3>1, ServedSame
    <3>2. CASE /\ to \in Terminal
               /\ Busied /\ ~Busied'
               /\ (StatusesOf(rows) \cap Terminal)' = (StatusesOf(rows) \cap Terminal) \cup {to}
      <4>1. ~(StatusesOf(rows) \cap Active # {})'
        BY <3>2 DEF StatusesOf, Busied
      <4>2. Server!End(to) /\ to \in Server!Terminal
        BY <2>6, <3>2, <4>1, ActiveIs DEF Server!End, Server!Terminal, Terminal
      <4> QED
        BY <4>2 DEF Server!ServerNext, Server!JobEnds
    <3> QED
      BY <1>1, <2>6, <3>1, <3>2, ChangeIsServed DEF ViewOK, ViewTypeOK, ServedNow
  <2>7. CASE TableNext /\ UNCHANGED <<cache, view>>
    BY <1>1, <2>4, <2>5, <2>6, <2>7, TableTouches DEF ViewOK, ViewTypeOK
  <2> QED
    BY <1>1, <2>1, <2>2, <2>3, <2>7 DEF Composed, CacheNext
<1> QED
  BY <1>1, ViewTypes, PTL DEF ViewSpec, OneActiveJob

\* The table and the cache implement the abstract server.
THEOREM ViewImplementsServer == ViewSpec => Server!ServerSpec
<1>1. ViewInit => Server!ServerInit
  BY DEF ViewInit, TableInit, StatusesOf, Server!ServerInit
<1> QED
  BY <1>1, OneJobAtATime, PTL DEF ViewSpec, OneActiveJob, Server!ServerSpec

-----------------------------------------------------------------------------
(* Listings.  Newer is a strict total order of rows, so that a row has a   *)
(* rank among others: the number of newer ones.  A page holds the rows of  *)
(* the smallest ranks, and its last row is newer than all that it leaves   *)
(* out.                                                                    *)

RowSet(S) ==
    /\ IsFiniteSet(S)
    /\ \A r \in S : r.created \in Nat /\ r.id \in Nat
    /\ \A r, s \in S : r.id = s.id => r = s

NewerThan(r, S) == {s \in S : Newer(s, r)}

LEMMA RowsAreSet ==
    ASSUME TableTypeOK, DraftsOK, NEW S \in SUBSET rows
    PROVE  RowSet(S)
<1>1. IsFiniteSet(S)
  BY FS_Subset DEF DraftsOK
<1>2. \A r \in S : r.created \in Nat /\ r.id \in Nat
  BY TableConstantsOK DEF TableTypeOK, RowsOf
<1> QED
  BY <1>1, <1>2 DEF TableTypeOK, RowSet

LEMMA StrictOrder ==
    ASSUME NEW S, RowSet(S), NEW r \in S, NEW s \in S
    PROVE  /\ ~Newer(r, r)
           /\ Newer(r, s) => ~Newer(s, r)
           /\ r # s => Newer(r, s) \/ Newer(s, r)
           /\ \A t \in S : Newer(r, s) /\ Newer(s, t) => Newer(r, t)
  BY DEF RowSet, Newer

LEMMA Ranks ==
    ASSUME NEW S, RowSet(S), NEW r \in S
    PROVE  /\ IsFiniteSet(NewerThan(r, S))
           /\ Cardinality(S) \in Nat
           /\ Cardinality(NewerThan(r, S)) \in 0 .. Cardinality(S)
           /\ Cardinality(NewerThan(r, S)) < Cardinality(S)
<1>1. NewerThan(r, S) \in SUBSET S /\ r \notin NewerThan(r, S)
  BY StrictOrder DEF NewerThan
<1>2. IsFiniteSet(S)
  BY DEF RowSet
<1>3. /\ IsFiniteSet(NewerThan(r, S))
      /\ Cardinality(NewerThan(r, S)) <= Cardinality(S)
      /\ Cardinality(NewerThan(r, S)) = Cardinality(S) => NewerThan(r, S) = S
  BY <1>1, <1>2, FS_Subset
<1>4. Cardinality(S) \in Nat /\ Cardinality(NewerThan(r, S)) \in Nat
  BY <1>2, <1>3, FS_CardinalityType
<1> QED
  BY <1>1, <1>3, <1>4

LEMMA RanksGrow ==
    ASSUME NEW S, RowSet(S), NEW r \in S, NEW s \in S, Newer(r, s)
    PROVE  Cardinality(NewerThan(r, S)) < Cardinality(NewerThan(s, S))
<1>1. NewerThan(r, S) \in SUBSET NewerThan(s, S)
  BY StrictOrder DEF NewerThan
<1>2. r \in NewerThan(s, S) /\ r \notin NewerThan(r, S)
  BY StrictOrder DEF NewerThan
<1>3. /\ IsFiniteSet(NewerThan(s, S))
      /\ Cardinality(NewerThan(r, S)) \in Nat /\ Cardinality(NewerThan(s, S)) \in Nat
  BY Ranks
<1>4. /\ Cardinality(NewerThan(r, S)) <= Cardinality(NewerThan(s, S))
      /\ Cardinality(NewerThan(r, S)) = Cardinality(NewerThan(s, S))
            => NewerThan(r, S) = NewerThan(s, S)
  BY <1>1, <1>3, FS_Subset
<1> QED
  BY <1>2, <1>3, <1>4

\* Of some rows, one is the newest and one the oldest.
LEMMA Extremes ==
    ASSUME NEW S, RowSet(S), S # {}
    PROVE  /\ \E r \in S : NewerThan(r, S) = {}
           /\ LastOf(S) # {}
<1> DEFINE Rank(r) == Cardinality(NewerThan(r, S)) + 1
           n == Cardinality(S)
           K == {Rank(r) : r \in S}
<1>1. n \in Nat /\ \A r \in S : Rank(r) \in 1 .. n
  BY Ranks
<1>2. K \in SUBSET (1 .. n) /\ K # {}
  BY <1>1
<1>3. \A r, s \in S : Newer(r, s) => Rank(r) < Rank(s)
  BY Ranks, RanksGrow
<1> HIDE DEF n, Rank
<1>4. PICK k \in K : \A i \in K : k <= i
  BY <1>1, <1>2, Least
<1>5. PICK newest \in S : k = Rank(newest)
  OBVIOUS
<1>6. NewerThan(newest, S) = {}
  BY <1>1, <1>3, <1>4, <1>5 DEF NewerThan
<1>7. PICK m \in K : \A i \in K : i <= m
  BY <1>1, <1>2, Greatest
<1>8. PICK oldest \in S : m = Rank(oldest)
  OBVIOUS
<1>9. \A s \in S : ~Newer(oldest, s)
  BY <1>1, <1>3, <1>7, <1>8
<1>10. oldest \in LastOf(S)
  BY <1>9, StrictOrder DEF LastOf
<1> QED
  BY <1>6, <1>10

LEMMA Pages ==
    ASSUME NEW S, RowSet(S), NEW limit \in Nat \ {0}
    PROVE  /\ FirstOf(S, limit) \subseteq S
           /\ Cardinality(S) <= limit => FirstOf(S, limit) = S
           /\ S # {} => FirstOf(S, limit) # {}
           /\ \A r \in FirstOf(S, limit), s \in S \ FirstOf(S, limit) : Newer(r, s)
<1>1. FirstOf(S, limit) = {r \in S : Cardinality(NewerThan(r, S)) < limit}
  BY DEF FirstOf, NewerThan
<1>2. Cardinality(S) <= limit => FirstOf(S, limit) = S
  BY <1>1, Ranks
<1>3. ASSUME S # {}
      PROVE  FirstOf(S, limit) # {}
  <2>1. PICK r \in S : NewerThan(r, S) = {}
    BY <1>3, Extremes
  <2>2. Cardinality(NewerThan(r, S)) = 0
    BY <2>1, FS_EmptySet
  <2> QED
    BY <1>1, <2>2
<1>4. ASSUME NEW r \in FirstOf(S, limit), NEW s \in S \ FirstOf(S, limit)
      PROVE  Newer(r, s)
  <2>1. r \in S /\ s \in S /\ r # s
    BY <1>1
  <2>2. ~Newer(s, r)
    BY <1>1, <2>1, Ranks, RanksGrow
  <2> QED
    BY <2>1, <2>2, StrictOrder
<1> QED
  BY <1>1, <1>2, <1>3, <1>4

\* A step on the table takes no row back, keeps what the order of a row is
\* made of, and gives no row a status that a listing asks for and it had not.
RowsKept ==
    /\ IdsOf(rows) \subseteq IdsOf(rows')
    /\ \A q \in rows' : q.id \in IdsOf(rows) =>
          \E r \in rows : /\ r.id = q.id /\ r.created = q.created
                          /\ q.status \in Active => r.status \in Active
                          /\ r.status \in Statuses

LEMMA InsertKeepsRows ==
    ASSUME TableTypeOK, DraftsOK, NEW draft, Insert(draft)
    PROVE  RowsKept
<1>1. rows' = rows \/ rows' = rows \cup {draft}
  BY DEF Insert, Inserted
<1>2. draft.id \notin IdsOf(rows)
  BY DEF Insert, DraftsOK, IdsOf
<1>3. \A r \in rows : r.status \in Statuses
  BY DEF TableTypeOK, RowsOf
<1> QED
  BY <1>1, <1>2, <1>3 DEF RowsKept, IdsOf

LEMMA ChangeKeepsRows ==
    ASSUME TableTypeOK, NEW r, NEW to, RowChanged(r, to)
    PROVE  RowsKept
<1> DEFINE n == [r EXCEPT !.status = to]
<1>1. n.id = r.id /\ n.created = r.created
  BY DEF TableTypeOK, RowChanged, RowsOf
<1>2. rows' = (rows \ {r}) \cup {n} /\ r \in rows /\ r.status \in Active
  BY DEF RowChanged
<1>3. \A q \in rows : q.status \in Statuses
  BY DEF TableTypeOK, RowsOf
<1> HIDE DEF n
<1> QED
  BY <1>1, <1>2, <1>3 DEF RowsKept, IdsOf

(***************************************************************************)
(* While a listing goes on, what it listed is not behind its cursor, and   *)
(* what it owes is either listed or still behind the cursor.               *)
(***************************************************************************)
Owed(r) == r.id \in lister.first /\ r.status \in lister.statuses

Ahead == \A r \in rows : r.id \in lister.listed => \E c \in lister.cursor : ~Newer(c, r)

Behind == \A r \in rows : Owed(r) =>
             r.id \in lister.listed \/ \A c \in lister.cursor : Newer(c, r)

ListInv ==
    /\ lister.pc # "idle" => lister.statuses \in {Active, Statuses}
    /\ lister.listed \cup lister.first \subseteq IdsOf(rows)
    /\ lister.twice = {}
    /\ lister.pc = "idle" => lister.listed = {} /\ lister.first = {}
    /\ lister.pc = "list" => Ahead /\ Behind
    /\ lister.pc = "done" => \A r \in rows : Owed(r) => r.id \in lister.listed

LEMMA RowsKeepListing ==
    ASSUME TableTypeOK, ListInv, RowsKept, UNCHANGED lister
    PROVE  ListInv'
<1>1. ASSUME NEW q \in rows', q.id \in lister.listed \cup lister.first
      PROVE  \E r \in rows : /\ r.id = q.id /\ r.created = q.created
                             /\ q.status \in Active => r.status \in Active
                             /\ r.status \in Statuses
  BY <1>1 DEF ListInv, RowsKept
<1>2. ASSUME lister.pc = "list"
      PROVE  Ahead'
  BY <1>1, <1>2 DEF ListInv, Ahead, Newer
<1>3. ASSUME NEW q \in rows', Owed(q)', lister.pc # "idle"
      PROVE  \E r \in rows : r.id = q.id /\ r.created = q.created /\ Owed(r)
  BY <1>1, <1>3 DEF ListInv, Owed
<1>4. ASSUME lister.pc = "list"
      PROVE  Behind'
  BY <1>3, <1>4 DEF ListInv, Behind, Newer
<1>5. ASSUME lister.pc = "done"
      PROVE  (\A r \in rows : Owed(r) => r.id \in lister.listed)'
  BY <1>3, <1>5 DEF ListInv
<1> QED
  BY <1>2, <1>4, <1>5 DEF ListInv, RowsKept

\* The order holds between rows and a cursor that is a row of an earlier page.
LEMMA OrderOfRows ==
    ASSUME NEW a \in RowsOf(JobIds), NEW b \in RowsOf(JobIds), NEW c \in RowsOf(JobIds)
    PROVE  /\ ~Newer(a, a)
           /\ Newer(a, b) => ~Newer(b, a)
           /\ Newer(a, b) /\ Newer(b, c) => Newer(a, c)
<1>1. /\ a.created \in Nat /\ b.created \in Nat /\ c.created \in Nat
      /\ a.id \in Nat /\ b.id \in Nat /\ c.id \in Nat
  BY TableConstantsOK DEF RowsOf
<1> QED
  BY <1>1 DEF Newer

LEMMA PageKeepsListing ==
    ASSUME TableTypeOK, DraftsOK, ListInv, ListPage
    PROVE  ListInv'
<1> DEFINE M == Matching(lister.statuses, lister.cursor)
           page == FirstOf(M, ListLimit)
           more == HasMore(lister.statuses, lister.cursor, ListLimit)
<1>1. M \in SUBSET rows /\ RowSet(M)
  BY RowsAreSet DEF Matching
<1>2. lister.pc = "list" /\ Ahead /\ Behind /\ lister.statuses \in {Active, Statuses}
  BY DEF ListPage, ListInv
<1>3. /\ rows' = rows
      /\ lister'.pc = IF more THEN "list" ELSE "done"
      /\ lister'.statuses = lister.statuses /\ lister'.first = lister.first
      /\ lister'.cursor = IF more THEN LastOf(page) ELSE {}
      /\ lister'.listed = lister.listed \cup IdsOf(page)
      /\ lister'.twice = lister.twice \cup (lister.listed \cap IdsOf(page))
  BY DEF ListPage, TableTypeOK, PageOfJobs
<1>4. /\ page \subseteq M
      /\ Cardinality(M) <= ListLimit => page = M
      /\ M # {} => page # {}
      /\ \A r \in page, s \in M \ page : Newer(r, s)
  BY <1>1, Pages, TableConstantsOK
<1>5. /\ \A r \in M : r \in rows /\ r.status \in lister.statuses
                      /\ \A c \in lister.cursor : Newer(c, r)
      /\ \A r \in rows : r.status \in lister.statuses
                         /\ (\A c \in lister.cursor : Newer(c, r)) => r \in M
  BY DEF Matching
<1>6. more <=> ~(Cardinality(M) <= ListLimit)
  <2>1. Cardinality(M) \in Nat
    BY <1>1, FS_CardinalityType DEF RowSet
  <2> QED
    BY <2>1, TableConstantsOK DEF HasMore
<1>7. more => M # {}
  <2>1. Cardinality({}) = 0
    BY FS_EmptySet
  <2> QED
    BY <1>6, <2>1, TableConstantsOK
<1> HIDE DEF M, page, more
<1>8. lister'.twice = {}
  <2>1. \A r \in page : r.id \notin lister.listed
    BY <1>2, <1>4, <1>5 DEF Ahead
  <2> QED
    BY <1>3, <2>1 DEF ListInv, IdsOf
<1>9. lister'.listed \cup lister'.first \subseteq IdsOf(rows)
  BY <1>1, <1>3, <1>4 DEF ListInv, IdsOf
<1>10. \A r \in rows : r.id \in IdsOf(page) => r \in page
  BY <1>1, <1>4 DEF TableTypeOK, IdsOf
<1>11. \A r \in rows : Owed(r) => r.id \in lister.listed \/ r \in M
  BY <1>2, <1>5 DEF Behind, Owed
<1>12. CASE ~more
  <2>1. \A r \in rows : Owed(r) => r.id \in lister'.listed
    BY <1>3, <1>4, <1>6, <1>11, <1>12 DEF IdsOf
  <2> QED
    BY <1>2, <1>3, <1>8, <1>9, <1>12, <2>1 DEF ListInv, Owed
<1>13. CASE more
  <2>1. PICK last \in LastOf(page) : TRUE
    <3>1. page # {} /\ RowSet(page)
      BY <1>1, <1>4, <1>7, <1>13, RowsAreSet
    <3> QED
      BY <3>1, Extremes
  <2>2. last \in page /\ \A s \in page : s = last \/ Newer(s, last)
    BY <2>1 DEF LastOf
  <2>3. /\ \A r \in rows : r \in RowsOf(JobIds)
        /\ \A c \in lister.cursor : c \in RowsOf(JobIds)
        /\ last \in rows
    BY <1>1, <1>4, <2>2 DEF TableTypeOK
  <2>4. \A l \in LastOf(page) : l = last
    BY <2>2, <2>3, <1>1, <1>4, OrderOfRows DEF LastOf
  <2>5. lister'.cursor = {last}
    BY <1>3, <1>13, <2>1, <2>4
  <2>6. \A r \in page : ~Newer(last, r)
    BY <1>1, <1>4, <2>2, <2>3, OrderOfRows
  <2>7. \A r \in rows : r.id \in lister.listed => ~Newer(last, r)
    BY <1>2, <1>4, <1>5, <2>2, <2>3, OrderOfRows DEF Ahead
  <2>8. Ahead'
    BY <1>3, <1>10, <2>5, <2>6, <2>7 DEF Ahead
  <2>9. \A r \in rows : Owed(r) => r.id \in lister'.listed \/ Newer(last, r)
    BY <1>3, <1>4, <1>11, <2>2 DEF IdsOf
  <2>10. Behind'
    BY <1>3, <2>5, <2>9 DEF Behind, Owed
  <2> QED
    BY <1>2, <1>3, <1>8, <1>9, <1>13, <2>8, <2>10 DEF ListInv
<1> QED
  BY <1>12, <1>13

LEMMA BeginKeepsListing ==
    ASSUME TableTypeOK, ListInv, NEW statuses \in {Active, Statuses}, BeginList(statuses)
    PROVE  ListInv'
<1> DEFINE first == IdsOf(Matching(statuses, {}))
<1>1. /\ rows' = rows
      /\ lister'.pc = "list" /\ lister'.statuses = statuses /\ lister'.first = first
      /\ lister'.cursor = {} /\ lister'.listed = {} /\ lister'.twice = {}
  BY DEF BeginList, Unlisted
<1>2. first \subseteq IdsOf(rows)
  BY DEF Matching, IdsOf
<1> HIDE DEF first
<1> QED
  BY <1>1, <1>2 DEF ListInv, Ahead, Behind, Owed

\* A listing page by page lists no job twice and misses none that was there
\* throughout: for any number of jobs and any limit, whatever is created,
\* begins or ends between two pages.
THEOREM ListsOnce == ViewSpec => []ListedOnce
<1>1. ViewInit => ListInv
  BY DEF ViewInit, TableInit, Unlisted, ListInv
<1>2. ASSUME ViewOK, ListInv, [Composed]_viewVars
      PROVE  ListInv'
  <2>1. CASE UNCHANGED <<rows, lister>>
    BY <1>2, <2>1 DEF ListInv, Ahead, Behind, Owed
  <2>2. CASE TableNext
    <3>1. CASE ClockTick
      BY <2>1, <3>1 DEF ClockTick
    <3>2. CASE DraftsNext
      <4>1. CASE \E id \in JobIds, variant \in Variants : Draw(id, variant)
        BY <2>1, <4>1 DEF Draw
      <4>2. ASSUME NEW draft \in drafts, Insert(draft)
            PROVE  ListInv'
        BY <1>2, <4>2, InsertKeepsRows, RowsKeepListing DEF ViewOK, ViewTypeOK, Insert
      <4> QED
        BY <3>2, <4>1, <4>2 DEF DraftsNext
    <3>3. CASE \E r \in rows : JobStep(r)
      BY <1>2, <3>3, JobSteps, ChangeKeepsRows, RowsKeepListing DEF ViewOK, ViewTypeOK
    <3>4. CASE ListingNext
      BY <1>2, <3>4, PageKeepsListing, BeginKeepsListing DEF ViewOK, ViewTypeOK, ListingNext
    <3> QED
      BY <2>2, <3>1, <3>2, <3>3, <3>4 DEF TableNext, RowsNext
  <2>3. CASE ViewNext \/ CacheNext \/ UNCHANGED viewVars
    BY <2>1, <2>3 DEF ViewNext, BeginView, ReadJobs, ReadCache, CacheNext, FillCache, CacheAges,
       viewVars, tableVars
  <2> QED
    BY <1>2, <2>2, <2>3 DEF Composed
<1>3. ListInv => ListedOnce
  BY DEF ListInv, ListedOnce, Owed
<1> QED
  BY <1>1, <1>2, <1>3, ViewTypes, PTL DEF ViewSpec

-----------------------------------------------------------------------------
(***************************************************************************)
(* Views.  A job that was there when the request began is active at the    *)
(* first read, or it has ended and still has at the second; and a job that *)
(* has succeeded stays so.                                                 *)
(***************************************************************************)
OwnStatuses == StatusesOf(rows)

Begun == view.begun # {}
BegunSucceeded == "succeeded" \in view.begun

ViewInv ==
    /\ view.at \in {"first", "second", "cache"} =>
          /\ Begun => OwnStatuses # {}
          /\ BegunSucceeded => "succeeded" \in OwnStatuses
    /\ view.at = "second" /\ ~view.hidden /\ Begun =>
          view.seen # {} \/ OwnStatuses \cap Terminal # {}
    /\ view.at = "cache" /\ ~view.hidden =>
          /\ Begun => view.seen # {}
          /\ BegunSucceeded => "succeeded" \in view.seen
    /\ ViewTrue

\* What a step on the table leaves of the statuses of a profile.
StatusesKept ==
    /\ OwnStatuses # {} => OwnStatuses' # {}
    /\ OwnStatuses \cap Terminal \subseteq OwnStatuses'

LEMMA TableKeepsStatuses ==
    ASSUME TableTypeOK, DraftsOK, TableNext
    PROVE  StatusesKept
<1>1. CASE UNCHANGED rows
  BY <1>1 DEF StatusesKept, OwnStatuses, StatusesOf
<1>2. ASSUME NEW draft \in drafts, Insert(draft)
      PROVE  StatusesKept
  BY <1>2 DEF Insert, Inserted, StatusesKept, OwnStatuses, StatusesOf
<1>3. ASSUME NEW r \in rows, NEW to \in {"running", "succeeded", "failed"}, RowChanged(r, to)
      PROVE  StatusesKept
  <2> DEFINE n == [r EXCEPT !.status = to]
  <2>1. /\ n.variant = r.variant /\ n.status = to
        /\ rows' = (rows \ {r}) \cup {n} /\ r.status \in Active
    BY <1>3 DEF TableTypeOK, RowChanged, RowsOf
  <2> HIDE DEF n
  <2>2. r.status \notin Terminal
    BY <2>1, StatusKinds
  <2> QED
    BY <2>1, <2>2 DEF StatusesKept, OwnStatuses, StatusesOf
<1> QED
  BY <1>1, <1>2, <1>3, TableTouches

\* A read that left nothing out has seen all statuses that it asked for.
LEMMA WholeRead ==
    ASSUME TableTypeOK, DraftsOK, NEW statuses \in {Active, Terminal},
           ~HasMore(statuses, {}, LimitOf(statuses))
    PROVE  StatusesOf(PageOfJobs(statuses, {}, LimitOf(statuses))) = OwnStatuses \cap statuses
<1> DEFINE M == Matching(statuses, {})
<1>1. LimitOf(statuses) \in Nat \ {0}
  BY ViewConstantsOK DEF LimitOf
<1>2. RowSet(M) /\ Cardinality(M) \in Nat
  <2>1. RowSet(M)
    BY RowsAreSet DEF Matching
  <2> QED
    BY <2>1, FS_CardinalityType DEF RowSet
<1>3. Cardinality(M) <= LimitOf(statuses)
  BY <1>1, <1>2 DEF HasMore
<1>4. PageOfJobs(statuses, {}, LimitOf(statuses)) = M
  BY <1>1, <1>2, <1>3, Pages DEF PageOfJobs
<1> QED
  BY <1>4 DEF Matching, StatusesOf, OwnStatuses

LEMMA AnswersTrue ==
    ASSUME NEW seen \in SUBSET Statuses,
           NEW state \in Server!StatesOf(seen \cap Active # {}, seen \cap Terminal)
    PROVE  /\ state = "missing" => seen = {}
           /\ state \in {"missing", "failed", "populating"} => "succeeded" \notin seen
<1> DEFINE busy == seen \cap Active # {}
           ends == seen \cap Terminal
<1>1. PICK known \in Server!AccountsOf(busy, ends) :
        state = Server!ProfileStatus(busy, ends, known)
  BY Zenon DEF Server!StatesOf
<1>2. known \in BOOLEAN /\ ("succeeded" \in ends => known = TRUE)
  BY <1>1 DEF Server!AccountsOf
<1>3. "succeeded" \in seen => "succeeded" \in ends
  BY DEF Terminal
<1>4. ~busy /\ ends = {} => seen = {}
  BY DEF Statuses
<1>5. ~busy /\ ends # {} => "failed" \in ends \/ "succeeded" \in ends
  BY DEF Terminal
<1> HIDE DEF busy, ends
<1> QED
  BY <1>1, <1>2, <1>3, <1>4, <1>5 DEF Server!ProfileStatus

LEMMA TableKeepsViews ==
    ASSUME ViewInv, StatusesKept, UNCHANGED view
    PROVE  ViewInv'
<1>1. "succeeded" \in Terminal
  BY DEF Terminal
<1> QED
  BY <1>1 DEF ViewInv, StatusesKept, ViewTrue, Begun, BegunSucceeded

LEMMA ReadsKeepViews ==
    ASSUME ViewOK, ViewInv, ViewNext
    PROVE  ViewInv'
<1>1. OwnStatuses' = OwnStatuses
  BY DEF ViewNext, BeginView, ReadJobs, ReadCache, tableVars, OwnStatuses, StatusesOf
<1>2. OwnStatuses \in SUBSET Statuses
  BY StatusesAreStatuses DEF ViewOK, ViewTypeOK, OwnStatuses
<1>3. CASE BeginView
  <2>1. view'.at = "first" /\ view'.begun = OwnStatuses
    BY <1>3 DEF BeginView, NoView, OwnStatuses
  <2> QED
    BY <1>1, <2>1 DEF ViewInv, ViewTrue, Begun, BegunSucceeded
<1>4. ASSUME NEW at \in {"first", "second"}, NEW next \in {"second", "cache"}, ReadJobs(at, next)
      PROVE  /\ view.at = at /\ view'.at = next /\ view'.begun = view.begun
             /\ ~view'.hidden => /\ ~view.hidden
                                 /\ view'.seen = view.seen \cup (OwnStatuses \cap Reads[at])
  <2>1. Reads[at] \in {Active, Terminal}
    BY DEF Reads
  <2> DEFINE page == PageOfJobs(Reads[at], {}, LimitOf(Reads[at]))
             more == HasMore(Reads[at], {}, LimitOf(Reads[at]))
  <2>2. /\ view.at = at /\ view'.at = next /\ view'.begun = view.begun
        /\ view'.seen = view.seen \cup StatusesOf(page)
        /\ view'.hidden = (view.hidden \/ more)
    BY <1>4 DEF ReadJobs, ViewOK, ViewTypeOK
  <2>3. ~more => StatusesOf(page) = OwnStatuses \cap Reads[at]
    BY <2>1, WholeRead DEF ViewOK, ViewTypeOK
  <2> HIDE DEF page, more
  <2> QED
    BY <2>2, <2>3
<1>5. CASE ReadJobs("first", "second")
  <2>1. Reads["first"] = Active
    BY DEF Reads
  <2>2. OwnStatuses # {} => OwnStatuses \cap Active # {} \/ OwnStatuses \cap Terminal # {}
    BY <1>2 DEF Statuses
  <2> QED
    BY <1>1, <1>4, <1>5, <2>1, <2>2 DEF ViewInv, ViewTrue, Begun, BegunSucceeded
<1>6. CASE ReadJobs("second", "cache")
  <2>1. Reads["second"] = Terminal /\ "succeeded" \in Terminal
    BY DEF Reads, Terminal
  <2> QED
    BY <1>1, <1>4, <1>6, <2>1 DEF ViewInv, ViewTrue, Begun, BegunSucceeded
<1>7. CASE ReadCache
  <2>1. PICK state \in Server!StatesOf(view.seen \cap Active # {}, view.seen \cap Terminal) :
          view' = [view EXCEPT !.at = "answered", !.state = state]
    BY <1>7 DEF ReadCache
  <2>2. /\ view.at = "cache" /\ view'.at = "answered" /\ view'.state = state
        /\ view'.begun = view.begun /\ view'.hidden = view.hidden
        /\ view.seen \in SUBSET Statuses
    BY <1>7, <2>1 DEF ReadCache, ViewOK, ViewTypeOK
  <2>3. /\ state = "missing" => view.seen = {}
        /\ state \in {"missing", "failed", "populating"} => "succeeded" \notin view.seen
    BY <2>1, <2>2, AnswersTrue
  <2> QED
    BY <2>2, <2>3 DEF ViewInv, ViewTrue, Begun, BegunSucceeded
<1> QED
  BY <1>3, <1>5, <1>6, <1>7 DEF ViewNext

\* A composed view overlooks no job that was there when the request began,
\* whatever the jobs do between its reads.
THEOREM ViewsAreTrue == ViewSpec => []ViewTrue
<1>1. ViewInit => ViewInv
  BY DEF ViewInit, NoView, ViewInv, ViewTrue
<1>2. ASSUME ViewOK, ViewInv, [Composed]_viewVars
      PROVE  ViewInv'
  <2>1. CASE ViewNext
    BY <1>2, <2>1, ReadsKeepViews
  <2>2. CASE TableNext /\ UNCHANGED <<cache, view>>
    BY <1>2, <2>2, TableKeepsStatuses, TableKeepsViews DEF ViewOK, ViewTypeOK
  <2>3. CASE CacheNext \/ UNCHANGED viewVars
    <3>1. UNCHANGED <<rows, view>>
      BY <2>3 DEF CacheNext, FillCache, CacheAges, viewVars, tableVars
    <3>2. StatusesKept
      BY <3>1 DEF StatusesKept, OwnStatuses, StatusesOf
    <3> QED
      BY <1>2, <3>1, <3>2, TableKeepsViews
  <2> QED
    BY <1>2, <2>1, <2>2, <2>3 DEF Composed
<1>3. ViewInv => ViewTrue
  BY DEF ViewInv
<1> QED
  BY <1>1, <1>2, <1>3, ViewTypes, PTL DEF ViewSpec

=============================================================================
