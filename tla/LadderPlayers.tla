--------------------------- MODULE LadderPlayers ---------------------------
(***************************************************************************)
(* The first half of a ladder players job (jobs/ladder_players.py): fetch  *)
(* a ranked ladder, give each of its players a Riot ID, and replace the    *)
(* stored ladder by it.  Riot IDs come from the table of identities        *)
(* (players/store.py), which every fetched match and every account answer  *)
(* feeds, or from an Account-V1 call.  The ladder is replaced in one       *)
(* transaction (ladders/store.py), which PostgreSQL runs READ COMMITTED    *)
(* over the unique index of migration 0004.                                *)
(*                                                                         *)
(* A Riot ID is represented by the time at which it was the name of its    *)
(* player.  The jobs have one target: others share no row with it.         *)
(***************************************************************************)
EXTENDS Naturals, FiniteSets

CONSTANTS
    Players,        \* the PUUIDs
    Jobs,           \* the attempts at the job
    Former,         \* the attempt whose ladder is stored at first
    Ladders,        \* the ladders Riot may answer, as sets of players
    MaxAge,         \* MATCH_IDENTITY_MAX_AGE
    CacheAge,       \* how old an account may be that the response cache serves
    MaxTime,        \* bound: when the clock stops
    MaxEvents       \* bound: failures and writes of others

ASSUME LadderConstantsOK ==
    /\ Former \notin Jobs
    /\ Ladders \subseteq SUBSET Players
    /\ MaxAge \in Nat /\ CacheAge \in Nat /\ MaxTime \in Nat /\ MaxEvents \in Nat

\* Two ladders of one target have a player in common, unless one is empty.
ASSUME LaddersMeet == \A a, b \in Ladders \ {{}} : a \cap b # {}

VARIABLES
    now,
    identities, \* player_identities: PUUID, observed_at, and when it was true
    target,     \* ranked_ladder_players: PUUID, the attempt that wrote it, name
    job,        \* of each attempt, its local state
    events      \* how many failures and writes of others have happened

ladderVars == <<now, identities, target, job, events>>

Names == SUBSET Nat         \* of one instant, or of none: an unresolved name

(***************************************************************************)
(* An attempt: the await it is at, when it began, the players left and the *)
(* one at hand with the name it was answered, the rows made so far, and    *)
(* the rows that its transaction means to delete and has locked.           *)
(***************************************************************************)
Waiting == {"players", "account", "upsert", "delete", "blocked", "insert", "commit"}

Unused == [pc |-> "idle", begun |-> 0, todo |-> {}, cur |-> {}, answer |-> {},
           rows |-> {}, doomed |-> {}, locked |-> {}]

Row(p, j, name) == [puuid |-> p, by |-> j, name |-> name]

LadderInit ==
    /\ now = 0
    /\ identities = {}
    /\ \E ladder \in Ladders :
          /\ target = {Row(p, Former, {}) : p \in ladder}
          /\ job = [j \in Jobs \cup {Former} |->
                        IF j = Former
                        THEN [Unused EXCEPT !.pc = "replaced", !.rows = target]
                        ELSE Unused]
    /\ events = 0

Happens == events < MaxEvents /\ events' = events + 1

-----------------------------------------------------------------------------
(* Identities.                                                             *)

Observation(p, observed, truth) == [puuid |-> p, observed |-> observed, truth |-> truth]

\* variant: the observation of a match is stamped with the time it is read
UpsertStampedNow(seen) ==
    LET stamped == {[o EXCEPT !.observed = now] : o \in seen} IN
    {r \in identities : \A o \in stamped : o.puuid = r.puuid => r.observed > o.observed}
    \cup {o \in stamped : \A r \in identities :
              r.puuid = o.puuid => o.observed >= r.observed}

\* insert .. on conflict do update .. where excluded.observed_at >= observed_at,
\* for observations of different players.
Upsert(seen) ==
    {r \in identities : \A o \in seen : o.puuid = r.puuid => r.observed > o.observed}
    \cup {o \in seen : \A r \in identities :
              r.puuid = o.puuid => o.observed >= r.observed}

\* get_by_puuid with a maximal age.
Fresh(p) == {r \in identities : r.puuid = p /\ r.observed + MaxAge >= now}

\* When the account that Riot or the cache answers was true.
Answers == {t \in 0 .. now : t + CacheAge >= now}

\* POST /profiles/fetch asks for an account and keeps what it is answered.
RouteObserves(p, t) ==
    /\ Happens
    /\ t \in Answers
    /\ identities' = Upsert({Observation(p, now, t)})
    /\ UNCHANGED <<now, target, job>>

\* hydrate_identities: the names of the players of a match played at time t.
ObservedAt(players, t) == {Observation(p, t, t) : p \in players}

-----------------------------------------------------------------------------
(* The players of a ladder.                                                *)

Begin(j) ==
    /\ job[j].pc = "idle"
    /\ job' = [job EXCEPT ![j].pc = "ladder", ![j].begun = now]
    /\ UNCHANGED <<now, identities, target, events>>

AskLadder(j, ladder) ==
    /\ job[j].pc = "ladder"
    /\ job' = [job EXCEPT ![j].pc = IF ladder = {} THEN "delete" ELSE "players",
                          ![j].todo = ladder]
    /\ UNCHANGED <<now, identities, target, events>>

\* The player p is appended to the list with this name.
ListPlayer(j, p, name) ==
    LET left == job[j].todo \ {p} IN
    job' = [job EXCEPT ![j].pc = IF left = {} THEN "delete" ELSE "players",
                       ![j].todo = left,
                       ![j].cur = {},
                       ![j].answer = {},
                       ![j].rows = @ \cup {Row(p, j, name)}]

Reuse(j, p) ==
    /\ job[j].pc = "players"
    /\ p \in job[j].todo
    /\ \E r \in Fresh(p) : ListPlayer(j, p, {r.truth})
    /\ UNCHANGED <<now, identities, target, events>>

AskAccount(j, p) ==
    /\ job[j].pc = "players"
    /\ p \in job[j].todo
    /\ Fresh(p) = {}
    /\ job' = [job EXCEPT ![j].pc = "account", ![j].cur = {p}]
    /\ UNCHANGED <<now, identities, target, events>>

AccountAnswered(j, t) ==
    /\ job[j].pc = "account"
    /\ t \in Answers
    /\ job' = [job EXCEPT ![j].pc = "upsert",
                          ![j].answer = {Observation(p, now, t) : p \in job[j].cur}]
    /\ UNCHANGED <<now, identities, target, events>>

IdentitySaved(j) ==
    /\ job[j].pc = "upsert"
    /\ identities' = Upsert(job[j].answer)
    /\ \E o \in job[j].answer : ListPlayer(j, o.puuid, {o.truth})
    /\ UNCHANGED <<now, target, events>>

\* The call raises, or its answer has no Riot ID: the player stays, unnamed.
AccountRaises(j) ==
    /\ job[j].pc = "account"
    /\ Happens
    /\ \E p \in job[j].cur : ListPlayer(j, p, {})
    /\ UNCHANGED <<now, identities, target>>

\* The upsert raises, when the name is known already.
UpsertRaises(j) ==
    /\ job[j].pc = "upsert"
    /\ Happens
    /\ \E o \in job[j].answer : ListPlayer(j, o.puuid, {o.truth})
    /\ UNCHANGED <<now, identities, target>>

-----------------------------------------------------------------------------
(* The transaction of replace_target.                                      *)

LockedByOthers(j) == UNION {job[k].locked : k \in Jobs \ {j}}

InsertedByOthers(j) == UNION {job[k].rows : k \in {k \in Jobs \ {j} : job[k].pc = "commit"}}

Puuids(rows) == {r.puuid : r \in rows}

\* Nothing to insert: the transaction commits.
AfterDelete(j) == IF job[j].rows = {} THEN "commit" ELSE "insert"

\* The statement sees the rows committed before it, and waits for a
\* transaction that has deleted one of them.
Delete(j) ==
    /\ job[j].pc = "delete"
    /\ job' = IF target \cap LockedByOthers(j) = {}
              THEN [job EXCEPT ![j].pc = AfterDelete(j), ![j].locked = target]
              ELSE [job EXCEPT ![j].pc = "blocked", ![j].doomed = target]
    /\ UNCHANGED <<now, identities, target, events>>

\* The rows that are still there are deleted; new ones are not seen.
Unblocked(j) ==
    /\ job[j].pc = "blocked"
    /\ job[j].doomed \cap LockedByOthers(j) = {}
    /\ job' = [job EXCEPT ![j].pc = AfterDelete(j), ![j].doomed = {},
                          ![j].locked = job[j].doomed \cap target]
    /\ UNCHANGED <<now, identities, target, events>>

\* variant: the table has no unique index
MayInsertAnyway(j) == TRUE

\* The unique index: no committed row of the player, and none in sight.
MayInsert(j) ==
    LET players == Puuids(job[j].rows) IN
    /\ players \cap Puuids(target \ job[j].locked) = {}
    /\ players \cap Puuids(InsertedByOthers(j)) = {}

Insert(j) ==
    /\ job[j].pc = "insert"
    /\ MayInsert(j)
    /\ job' = [job EXCEPT ![j].pc = "commit"]
    /\ UNCHANGED <<now, identities, target, events>>

\* variant: the transaction of a failed attempt stays open
FailedUnrolled(j) == job' = [job EXCEPT ![j].pc = "failed"]

Failed(j) == job' = [job EXCEPT ![j] = [Unused EXCEPT !.pc = "failed", !.begun = job[j].begun]]

InsertRefused(j) ==
    /\ job[j].pc = "insert"
    /\ Puuids(job[j].rows) \cap Puuids(target \ (job[j].locked \cup LockedByOthers(j))) # {}
    /\ Failed(j)
    /\ UNCHANGED <<now, identities, target, events>>

\* The rows stay as the list of the attempt.
Commit(j) ==
    /\ job[j].pc = "commit"
    /\ target' = (target \ job[j].locked) \cup job[j].rows
    /\ job' = [job EXCEPT ![j].pc = "replaced", ![j].locked = {}]
    /\ UNCHANGED <<now, identities, events>>

\* A call raises, the job is cancelled or its process dies: the transaction
\* is rolled back.
Fail(j) ==
    /\ job[j].pc \in Waiting \cup {"ladder"}
    /\ Happens
    /\ Failed(j)
    /\ UNCHANGED <<now, identities, target>>

Tick ==
    /\ now < MaxTime
    /\ now' = now + 1
    /\ UNCHANGED <<identities, target, job, events>>

PlayersStep(j) ==
    \/ \E ladder \in Ladders : AskLadder(j, ladder)
    \/ \E p \in Players : Reuse(j, p) \/ AskAccount(j, p)
    \/ \E t \in 0 .. now : AccountAnswered(j, t)
    \/ IdentitySaved(j) \/ AccountRaises(j) \/ UpsertRaises(j)
    \/ Delete(j) \/ Unblocked(j) \/ Insert(j) \/ InsertRefused(j) \/ Commit(j)

-----------------------------------------------------------------------------
Observations == [puuid : Players, observed : Nat, truth : Nat]
Rows == [puuid : Players, by : Jobs \cup {Former}, name : Names]

LadderTypeOK ==
    /\ now \in Nat
    /\ identities \subseteq Observations
    /\ \A r, s \in identities : r.puuid = s.puuid => r = s
    /\ target \subseteq Rows
    /\ job \in [Jobs \cup {Former} ->
                    [pc : Waiting \cup {"idle", "ladder", "replaced", "failed"},
                     begun : Nat, todo : SUBSET Players, cur : SUBSET Players,
                     answer : SUBSET Observations, rows : SUBSET Rows,
                     doomed : SUBSET Rows, locked : SUBSET Rows]]
    /\ events \in 0 .. MaxEvents

\* tests/test_ladder_players.py:212, 235: an identity is reused for 24 hours.
\* Whoever wrote the identity, from what and when, a name that a ladder
\* publishes was true no longer before the fetch of the ladder than that age
\* and the age the response cache allows an account.
PublishedNameRecent ==
    \A r \in target : \A t \in r.name : t + MaxAge + CacheAge >= job[r.by].begun

\* docs/architecture.md:121: a refresh replaces a target only when its whole
\* list of players is there.  Whatever attempts overlap and fail, the stored
\* ladder is the whole list of one attempt that got to its end.
TargetWhole == \E j \in Jobs \cup {Former} : job[j].pc = "replaced" /\ target = job[j].rows

=============================================================================
