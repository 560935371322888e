---------------------------- MODULE LadderProofs ----------------------------
(***************************************************************************)
(* Theorems of a ladder players job, for any attempts, players, ladders    *)
(* and ages, any number of matches and any size of a page: what several    *)
(* attempts leave in the store is the whole ladder of one of them, its     *)
(* names were true not long before, and the scan of the match ids neither  *)
(* overlooks nor forgets a match.                                          *)
(***************************************************************************)
EXTENDS LadderMatches, CountingLemmas, FiniteSetTheorems, TLAPS

-----------------------------------------------------------------------------
(* The ladders.  What an attempt knows by itself is AttemptOK.  TargetInv  *)
(* is about the transactions: an attempt has locked all of the stored      *)
(* ladder or none of it, and one that has inserted its rows has locked all *)
(* of it, since two ladders have a player in common.                       *)

Attempts == Jobs \cup {Former}

JobRecords ==
    [pc : Waiting \cup {"idle", "ladder", "replaced", "failed"},
     begun : Nat, todo : SUBSET Players, cur : SUBSET Players,
     answer : SUBSET Observations, rows : SUBSET Rows,
     doomed : SUBSET Rows, locked : SUBSET Rows]

HasRows == {"delete", "blocked", "insert", "commit", "replaced"}
HasLadder == HasRows \cup {"players", "account", "upsert"}

\* An observation was true not long before it was made.
Timely(o) == o.truth + CacheAge >= o.observed

RowOK(j, begun, row) ==
    row.by = j /\ \A t \in row.name : t + MaxAge + CacheAge >= begun

AttemptOK(j, r) ==
    /\ r.begun <= now
    /\ \A row \in r.rows : RowOK(j, r.begun, row)
    /\ r.pc \in {"idle", "ladder"} => r.rows = {}
    /\ r.pc \in HasLadder => Puuids(r.rows) \cup r.todo \in Ladders
    /\ r.pc \in HasRows => r.todo = {}
    /\ r.pc = "insert" => r.rows # {}
    /\ r.pc = "account" => r.cur \subseteq r.todo
    /\ r.pc = "upsert" =>
          /\ \A o \in r.answer : o.puuid \in r.todo /\ Timely(o) /\ o.observed >= r.begun
          /\ \A o, s \in r.answer : o.puuid = s.puuid => o = s

\* A set of rows holds all of the stored ladder or none of it.
AllOrNone(rows) == rows \cap target = {} \/ target \subseteq rows

Replaced(rows) == \A r \in rows : job[r.by].pc = "replaced"

TargetInv ==
    /\ TargetWhole
    /\ Replaced(target)
    /\ \A j \in Jobs :
          /\ Replaced(job[j].locked) /\ Replaced(job[j].doomed)
          /\ AllOrNone(job[j].locked) /\ AllOrNone(job[j].doomed)
          /\ job[j].pc = "commit" /\ job[j].rows # {} => target \subseteq job[j].locked
    /\ \A j, k \in Jobs :
          j # k /\ job[j].pc = "commit" /\ job[k].pc = "commit" =>
              job[j].rows = {} \/ job[k].rows = {}

IdentitiesOK ==
    /\ identities \subseteq Observations
    /\ \A r, s \in identities : r.puuid = s.puuid => r = s
    /\ \A r \in identities : Timely(r)

JobsOK == job \in [Attempts -> JobRecords] /\ \A j \in Attempts : AttemptOK(j, job[j])

LadderInv ==
    /\ now \in Nat /\ target \subseteq Rows /\ events \in 0 .. MaxEvents
    /\ IdentitiesOK
    /\ JobsOK
    /\ TargetInv

LEMMA LadderInvTypes == LadderInv => LadderTypeOK
BY DEF LadderInv, LadderTypeOK, IdentitiesOK, JobsOK, JobRecords, Attempts

LEMMA JobFacts ==
    ASSUME LadderInv, NEW j \in Attempts
    PROVE  /\ job[j] \in JobRecords /\ AttemptOK(j, job[j])
           /\ DOMAIN job = Attempts
BY DEF LadderInv, JobsOK

LEMMA FieldTypes ==
    ASSUME NEW r \in JobRecords
    PROVE  /\ r.begun \in Nat /\ r.todo \subseteq Players /\ r.cur \subseteq Players
           /\ r.answer \subseteq Observations /\ r.rows \subseteq Rows
           /\ r.doomed \subseteq Rows /\ r.locked \subseteq Rows
BY DEF JobRecords

\* A step of one attempt.
LEMMA OneJob ==
    ASSUME LadderInv, NEW j \in Jobs, NEW r \in JobRecords, AttemptOK(j, r),
           job' = [job EXCEPT ![j] = r], UNCHANGED now
    PROVE  /\ JobsOK' /\ job'[j] = r
           /\ \A k \in Attempts \ {j} : job'[k] = job[k]
<1>1. job' \in [Attempts -> JobRecords]
  BY DEF LadderInv, JobsOK, Attempts
<1>2. job'[j] = r /\ \A k \in Attempts \ {j} : job'[k] = job[k]
  BY DEF LadderInv, JobsOK, Attempts
<1>3. ASSUME NEW k \in Attempts
      PROVE  AttemptOK(k, job[k])'
  <2>1. CASE k = j
    BY <1>2, <2>1 DEF AttemptOK, RowOK, Timely
  <2>2. CASE k # j
    BY <1>2, <2>2 DEF LadderInv, JobsOK, AttemptOK, RowOK, Timely
  <2> QED
    BY <2>1, <2>2
<1> QED
  BY <1>1, <1>2, <1>3 DEF JobsOK

\* A step that does not end a transaction.
LEMMA TargetKept ==
    ASSUME LadderInv, NEW j \in Jobs, job[j].pc # "replaced", UNCHANGED target,
           \A k \in Attempts \ {j} : job'[k] = job[k],
           job'[j].pc # "replaced",
           job'[j].pc = "commit" /\ job'[j].rows # {} =>
              /\ target \subseteq job'[j].locked
              /\ \A k \in Jobs \ {j} : job[k].pc = "commit" => job[k].rows = {},
           job'[j].locked \subseteq Rows, job'[j].doomed \subseteq Rows,
           Replaced(job'[j].locked), Replaced(job'[j].doomed),
           AllOrNone(job'[j].locked), AllOrNone(job'[j].doomed)
    PROVE  TargetInv'
<1>0. /\ TargetInv /\ target \subseteq Rows /\ j \in Attempts
      /\ \A r \in Rows : r.by \in Attempts
  BY DEF LadderInv, Attempts, Rows
<1>1. ASSUME NEW k \in Attempts, job[k].pc = "replaced"
      PROVE  job'[k] = job[k]
  BY <1>1
<1>2. TargetWhole'
  <2>1. PICK k \in Attempts : job[k].pc = "replaced" /\ target = job[k].rows
    BY <1>0 DEF TargetInv, TargetWhole, Attempts
  <2> QED
    BY <1>1, <2>1 DEF TargetWhole, Attempts
<1>3. ASSUME NEW rows \in SUBSET Rows, Replaced(rows)
      PROVE  \A r \in rows : job'[r.by].pc = "replaced"
  BY <1>0, <1>1, <1>3 DEF Replaced
<1>4. Replaced(target)'
  BY <1>0, <1>3 DEF TargetInv, Replaced
<1>5. ASSUME NEW k \in Jobs
      PROVE  /\ Replaced(job[k].locked)' /\ Replaced(job[k].doomed)'
             /\ AllOrNone(job[k].locked)' /\ AllOrNone(job[k].doomed)'
             /\ job'[k].pc = "commit" /\ job'[k].rows # {} => target' \subseteq job'[k].locked
  <2>1. CASE k = j
    <3>1. Replaced(job[j].locked)' /\ Replaced(job[j].doomed)'
      BY <1>3 DEF Replaced
    <3>2. AllOrNone(job[j].locked)' /\ AllOrNone(job[j].doomed)'
      BY DEF AllOrNone
    <3> QED
      BY <2>1, <3>1, <3>2
  <2>2. CASE k # j
    <3>1. /\ job[k].locked \subseteq Rows /\ job[k].doomed \subseteq Rows
          /\ Replaced(job[k].locked) /\ Replaced(job[k].doomed)
          /\ AllOrNone(job[k].locked) /\ AllOrNone(job[k].doomed)
          /\ job[k].pc = "commit" /\ job[k].rows # {} => target \subseteq job[k].locked
      BY <1>0, JobFacts, FieldTypes DEF TargetInv, Attempts
    <3>2. job'[k] = job[k]
      BY <2>2 DEF Attempts
    <3>3. Replaced(job[k].locked)' /\ Replaced(job[k].doomed)'
      BY <1>3, <3>1, <3>2 DEF Replaced
    <3>4. AllOrNone(job[k].locked)' /\ AllOrNone(job[k].doomed)'
      BY <3>1, <3>2 DEF AllOrNone
    <3> QED
      BY <3>1, <3>2, <3>3, <3>4
  <2> QED
    BY <2>1, <2>2
<1>6. ASSUME NEW k \in Jobs, NEW l \in Jobs, k # l,
             job'[k].pc = "commit", job'[l].pc = "commit"
      PROVE  job'[k].rows = {} \/ job'[l].rows = {}
  BY <1>0, <1>6 DEF TargetInv, Attempts
<1> QED
  BY <1>2, <1>4, <1>5, <1>6 DEF TargetInv

\* A step that locks nothing new, either.
LEMMA QuietStep ==
    ASSUME LadderInv, NEW j \in Jobs, NEW r \in JobRecords, AttemptOK(j, r),
           job' = [job EXCEPT ![j] = r], UNCHANGED <<now, target>>,
           IdentitiesOK', events' \in 0 .. MaxEvents,
           job[j].pc # "replaced", r.pc \notin {"commit", "replaced"},
           r.locked \in {{}, job[j].locked}, r.doomed \in {{}, job[j].doomed}
    PROVE  LadderInv'
<1>1. /\ JobsOK' /\ job'[j] = r
      /\ \A k \in Attempts \ {j} : job'[k] = job[k]
  BY OneJob
<1>2. /\ Replaced(r.locked) /\ Replaced(r.doomed)
      /\ AllOrNone(r.locked) /\ AllOrNone(r.doomed)
  BY DEF LadderInv, TargetInv, Replaced, AllOrNone
<1>3. r.locked \subseteq Rows /\ r.doomed \subseteq Rows
  BY FieldTypes
<1>4. TargetInv'
  BY <1>1, <1>2, <1>3, TargetKept
<1> QED
  BY <1>1, <1>4 DEF LadderInv

LEMMA OnlyIdentities ==
    ASSUME LadderInv, UNCHANGED <<now, target, job>>, IdentitiesOK', events' \in 0 .. MaxEvents
    PROVE  LadderInv'
<1>1. JobsOK'
  BY DEF LadderInv, JobsOK, AttemptOK, RowOK, Timely
<1>2. TargetInv'
  BY DEF LadderInv, TargetInv, TargetWhole, Replaced, AllOrNone
<1> QED
  BY <1>1, <1>2 DEF LadderInv

LEMMA SameIdentities == IdentitiesOK /\ UNCHANGED identities => IdentitiesOK'
BY DEF IdentitiesOK, Timely

LEMMA EventCounted == LadderInv /\ Happens => events' \in 0 .. MaxEvents
BY LadderConstantsOK DEF LadderInv, Happens

\* What is observed of different players, in time.
LEMMA UpsertKeeps ==
    ASSUME IdentitiesOK, NEW seen \in SUBSET Observations,
           \A o, s \in seen : o.puuid = s.puuid => o = s,
           \A o \in seen : Timely(o),
           identities' = Upsert(seen)
    PROVE  IdentitiesOK'
<1>1. \A r \in identities' : r \in identities \/ r \in seen
  BY DEF Upsert
<1>2. ASSUME NEW r \in identities, NEW o \in seen, r.puuid = o.puuid,
             r \in identities', o \in identities', r # o
      PROVE  FALSE
  <2>1. r.observed \in Nat /\ o.observed \in Nat
    BY DEF IdentitiesOK, Observations
  <2>2. r \in seen \/ r.observed > o.observed
    BY <1>2 DEF Upsert
  <2>3. o \in identities \/ o.observed >= r.observed
    BY <1>2 DEF Upsert
  <2>4. r \notin seen /\ o \notin identities
    BY <1>2 DEF IdentitiesOK
  <2> QED
    BY <2>1, <2>2, <2>3, <2>4
<1>3. \A r, s \in identities' : r.puuid = s.puuid => r = s
  BY <1>1, <1>2 DEF IdentitiesOK
<1>4. \A r \in identities' : Timely(r)'
  BY <1>1 DEF IdentitiesOK, Timely
<1> QED
  BY <1>1, <1>3, <1>4 DEF IdentitiesOK

-----------------------------------------------------------------------------
(* The steps of an attempt before its transaction.                         *)

LEMMA AttemptIs == \A j \in Jobs : j \in Attempts
BY DEF Attempts

LEMMA FailedStep ==
    ASSUME LadderInv, NEW j \in Jobs, Failed(j), job[j].pc # "replaced",
           UNCHANGED <<now, identities, target>>, events' \in 0 .. MaxEvents
    PROVE  LadderInv'
<1> DEFINE r == [Unused EXCEPT !.pc = "failed", !.begun = job[j].begun]
<1>1. job' = [job EXCEPT ![j] = r]
  BY DEF Failed
<1>2. job[j] \in JobRecords /\ job[j].begun \in Nat /\ job[j].begun <= now
  BY JobFacts, AttemptIs, FieldTypes DEF AttemptOK
<1>3. /\ r \in JobRecords
      /\ r.pc = "failed" /\ r.begun = job[j].begun /\ r.rows = {}
      /\ r.locked = {} /\ r.doomed = {}
  BY <1>2 DEF Unused, JobRecords
<1> HIDE DEF r
<1>4. AttemptOK(j, r)
  BY <1>2, <1>3 DEF AttemptOK, HasRows, HasLadder
<1>5. IdentitiesOK'
  BY SameIdentities DEF LadderInv
<1> QED
  BY <1>1, <1>3, <1>4, <1>5, QuietStep

LEMMA BeginStep ==
    ASSUME LadderInv, NEW j \in Jobs, Begin(j)
    PROVE  LadderInv'
<1> DEFINE r == [job[j] EXCEPT !.pc = "ladder", !.begun = now]
<1>1. /\ job[j].pc = "idle" /\ UNCHANGED <<now, identities, target, events>>
      /\ job' = [job EXCEPT ![j] = r]
  BY DEF Begin
<1>2. job[j] \in JobRecords /\ AttemptOK(j, job[j]) /\ now \in Nat
  BY JobFacts, AttemptIs DEF LadderInv
<1>3. /\ r \in JobRecords
      /\ r.pc = "ladder" /\ r.begun = now /\ r.rows = job[j].rows
      /\ r.locked = job[j].locked /\ r.doomed = job[j].doomed
  BY <1>2 DEF JobRecords
<1> HIDE DEF r
<1>4. AttemptOK(j, r)
  BY <1>1, <1>2, <1>3 DEF AttemptOK, HasRows, HasLadder
<1>5. IdentitiesOK' /\ events' \in 0 .. MaxEvents
  BY <1>1, SameIdentities DEF LadderInv
<1> QED
  BY <1>1, <1>3, <1>4, <1>5, QuietStep

LEMMA AskLadderStep ==
    ASSUME LadderInv, NEW j \in Jobs, NEW ladder \in Ladders, AskLadder(j, ladder)
    PROVE  LadderInv'
<1> DEFINE to == IF ladder = {} THEN "delete" ELSE "players"
           r == [job[j] EXCEPT !.pc = to, !.todo = ladder]
<1>1. /\ job[j].pc = "ladder" /\ UNCHANGED <<now, identities, target, events>>
      /\ job' = [job EXCEPT ![j] = r]
  BY DEF AskLadder
<1>2. job[j] \in JobRecords /\ AttemptOK(j, job[j]) /\ ladder \subseteq Players
  BY JobFacts, AttemptIs, LadderConstantsOK
<1>3. /\ r \in JobRecords
      /\ r.pc = to /\ r.todo = ladder /\ r.begun = job[j].begun /\ r.rows = job[j].rows
      /\ r.locked = job[j].locked /\ r.doomed = job[j].doomed
  BY <1>2 DEF JobRecords, Waiting
<1> HIDE DEF r
<1>4. AttemptOK(j, r)
  <2>1. r.rows = {} /\ Puuids(r.rows) \cup ladder = ladder
    BY <1>1, <1>2, <1>3 DEF AttemptOK, Puuids
  <2> QED
    BY <1>1, <1>2, <1>3, <2>1 DEF AttemptOK, HasRows, HasLadder
<1>5. IdentitiesOK' /\ events' \in 0 .. MaxEvents
  BY <1>1, SameIdentities DEF LadderInv
<1> QED
  BY <1>1, <1>3, <1>4, <1>5, QuietStep

LEMMA AskAccountStep ==
    ASSUME LadderInv, NEW j \in Jobs, NEW p \in Players, AskAccount(j, p)
    PROVE  LadderInv'
<1> DEFINE r == [job[j] EXCEPT !.pc = "account", !.cur = {p}]
<1>1. /\ job[j].pc = "players" /\ p \in job[j].todo
      /\ UNCHANGED <<now, identities, target, events>>
      /\ job' = [job EXCEPT ![j] = r]
  BY DEF AskAccount
<1>2. job[j] \in JobRecords /\ AttemptOK(j, job[j])
  BY JobFacts, AttemptIs
<1>3. /\ r \in JobRecords
      /\ r.pc = "account" /\ r.cur = {p} /\ r.todo = job[j].todo
      /\ r.begun = job[j].begun /\ r.rows = job[j].rows
      /\ r.locked = job[j].locked /\ r.doomed = job[j].doomed
  BY <1>2 DEF JobRecords, Waiting
<1> HIDE DEF r
<1>4. AttemptOK(j, r)
  BY <1>1, <1>2, <1>3 DEF AttemptOK, HasRows, HasLadder
<1>5. IdentitiesOK' /\ events' \in 0 .. MaxEvents
  BY <1>1, SameIdentities DEF LadderInv
<1> QED
  BY <1>1, <1>3, <1>4, <1>5, QuietStep

LEMMA AnsweredStep ==
    ASSUME LadderInv, NEW j \in Jobs, NEW t, AccountAnswered(j, t)
    PROVE  LadderInv'
<1> DEFINE answer == {Observation(p, now, t) : p \in job[j].cur}
           r == [job[j] EXCEPT !.pc = "upsert", !.answer = answer]
<1>1. /\ job[j].pc = "account" /\ t \in Answers
      /\ UNCHANGED <<now, identities, target, events>>
      /\ job' = [job EXCEPT ![j] = r]
  BY DEF AccountAnswered
<1>2. job[j] \in JobRecords /\ AttemptOK(j, job[j]) /\ now \in Nat
  BY JobFacts, AttemptIs DEF LadderInv
<1>3. t \in Nat /\ t + CacheAge >= now
  BY <1>1, <1>2 DEF Answers
<1>4. \A o \in answer : /\ o \in Observations /\ o.puuid \in job[j].cur /\ Timely(o)
                        /\ o.observed = now /\ o.truth = t
  BY <1>2, <1>3, FieldTypes DEF Observation, Observations, Timely
<1>5. \A o, s \in answer : o.puuid = s.puuid => o = s
  BY DEF Observation
<1> HIDE DEF answer
<1>6. /\ r \in JobRecords
      /\ r.pc = "upsert" /\ r.answer = answer /\ r.todo = job[j].todo
      /\ r.begun = job[j].begun /\ r.rows = job[j].rows
      /\ r.locked = job[j].locked /\ r.doomed = job[j].doomed
  <2>1. answer \in SUBSET Observations
    BY <1>4
  <2> QED
    BY <1>2, <2>1 DEF JobRecords, Waiting
<1> HIDE DEF r
<1>7. AttemptOK(j, r)
  <2>1. /\ r.begun <= now /\ \A row \in r.rows : RowOK(j, r.begun, row)
        /\ Puuids(r.rows) \cup r.todo \in Ladders
        /\ job[j].cur \subseteq r.todo
    BY <1>1, <1>2, <1>6 DEF AttemptOK, HasLadder
  <2> QED
    BY <1>4, <1>5, <1>6, <2>1 DEF AttemptOK, HasRows
<1>8. IdentitiesOK' /\ events' \in 0 .. MaxEvents
  BY <1>1, SameIdentities DEF LadderInv
<1> QED
  BY <1>1, <1>6, <1>7, <1>8, QuietStep

\* A player is listed with a name that was true not long ago, or none.
LEMMA ListPlayerStep ==
    ASSUME LadderInv, NEW j \in Jobs, job[j].pc \in {"players", "account", "upsert"},
           NEW p \in job[j].todo, NEW name \in Names,
           \A t \in name : t + MaxAge + CacheAge >= job[j].begun,
           ListPlayer(j, p, name), UNCHANGED <<now, target>>,
           IdentitiesOK', events' \in 0 .. MaxEvents
    PROVE  LadderInv'
<1> DEFINE left == job[j].todo \ {p}
           to == IF left = {} THEN "delete" ELSE "players"
           rows == job[j].rows \cup {Row(p, j, name)}
           r == [job[j] EXCEPT !.pc = to, !.todo = left, !.cur = {}, !.answer = {},
                               !.rows = rows]
<1>1. job' = [job EXCEPT ![j] = r]
  BY DEF ListPlayer
<1>2. job[j] \in JobRecords /\ AttemptOK(j, job[j]) /\ p \in Players
  BY JobFacts, AttemptIs, FieldTypes
<1>3. /\ Row(p, j, name) \in Rows /\ Row(p, j, name).puuid = p
      /\ RowOK(j, job[j].begun, Row(p, j, name))
  BY <1>2 DEF Row, Rows, RowOK
<1>4. rows \in SUBSET Rows /\ Puuids(rows) = Puuids(job[j].rows) \cup {p}
  BY <1>2, <1>3, FieldTypes DEF Puuids
<1> HIDE DEF rows
<1>5. /\ r \in JobRecords
      /\ r.pc = to /\ r.todo = left /\ r.begun = job[j].begun /\ r.rows = rows
      /\ r.locked = job[j].locked /\ r.doomed = job[j].doomed
  <2>1. left \in SUBSET Players
    BY <1>2, FieldTypes
  <2> QED
    BY <1>2, <1>4, <2>1 DEF JobRecords, Waiting
<1> HIDE DEF r
<1>6. AttemptOK(j, r)
  <2>1. Puuids(r.rows) \cup r.todo \in Ladders
    <3>1. Puuids(job[j].rows) \cup job[j].todo \in Ladders
      BY <1>2 DEF AttemptOK, HasLadder
    <3>2. Puuids(r.rows) \cup r.todo = Puuids(job[j].rows) \cup job[j].todo
      BY <1>4, <1>5
    <3> QED
      BY <3>1, <3>2
  <2>2. r.begun <= now /\ \A row \in r.rows : RowOK(j, r.begun, row)
    BY <1>2, <1>3, <1>5 DEF AttemptOK, rows
  <2>3. r.pc \in HasRows => r.todo = {}
    BY <1>5 DEF HasRows
  <2> QED
    BY <1>5, <2>1, <2>2, <2>3 DEF AttemptOK
<1> QED
  BY <1>1, <1>5, <1>6, QuietStep

LEMMA ReuseStep ==
    ASSUME LadderInv, NEW j \in Jobs, NEW p \in Players, Reuse(j, p)
    PROVE  LadderInv'
<1>1. /\ job[j].pc = "players" /\ p \in job[j].todo
      /\ UNCHANGED <<now, identities, target, events>>
  BY DEF Reuse
<1>2. PICK r \in Fresh(p) : ListPlayer(j, p, {r.truth})
  BY DEF Reuse
<1>3. r \in identities /\ r.observed + MaxAge >= now
  BY DEF Fresh
<1>4. r.truth \in Nat /\ r.observed \in Nat /\ Timely(r)
  BY <1>3 DEF LadderInv, IdentitiesOK, Observations
<1>5. job[j].begun \in Nat /\ job[j].begun <= now /\ now \in Nat
  BY JobFacts, AttemptIs, FieldTypes DEF AttemptOK, LadderInv
<1>6. {r.truth} \in Names /\ \A t \in {r.truth} : t + MaxAge + CacheAge >= job[j].begun
  BY <1>3, <1>4, <1>5, LadderConstantsOK DEF Names, Timely
<1>7. IdentitiesOK' /\ events' \in 0 .. MaxEvents
  BY <1>1, SameIdentities DEF LadderInv
<1> QED
  BY <1>1, <1>2, <1>6, <1>7, ListPlayerStep

\* The name of an answer may be published.
LEMMA AnswerFacts ==
    ASSUME LadderInv, NEW j \in Jobs, job[j].pc = "upsert", NEW o \in job[j].answer
    PROVE  /\ o.puuid \in job[j].todo /\ {o.truth} \in Names
           /\ \A t \in {o.truth} : t + MaxAge + CacheAge >= job[j].begun
<1>1. AttemptOK(j, job[j]) /\ job[j].answer \subseteq Observations /\ job[j].begun \in Nat
  BY JobFacts, AttemptIs, FieldTypes
<1>2. o.puuid \in job[j].todo /\ Timely(o) /\ o.observed >= job[j].begun
  BY <1>1 DEF AttemptOK
<1>3. o.truth \in Nat /\ o.observed \in Nat
  BY <1>1 DEF Observations
<1> QED
  BY <1>1, <1>2, <1>3, LadderConstantsOK DEF Names, Timely

LEMMA IdentitySavedStep ==
    ASSUME LadderInv, NEW j \in Jobs, IdentitySaved(j)
    PROVE  LadderInv'
<1>1. /\ job[j].pc = "upsert" /\ identities' = Upsert(job[j].answer)
      /\ UNCHANGED <<now, target, events>>
  BY DEF IdentitySaved
<1>2. PICK o \in job[j].answer : ListPlayer(j, o.puuid, {o.truth})
  BY DEF IdentitySaved
<1>3. IdentitiesOK'
  <2>1. AttemptOK(j, job[j]) /\ job[j].answer \in SUBSET Observations
    BY JobFacts, AttemptIs, FieldTypes
  <2>2. /\ \A a \in job[j].answer : Timely(a)
        /\ \A a, b \in job[j].answer : a.puuid = b.puuid => a = b
    BY <1>1, <2>1 DEF AttemptOK
  <2> QED
    BY <1>1, <2>1, <2>2, UpsertKeeps DEF LadderInv
<1>4. events' \in 0 .. MaxEvents
  BY <1>1 DEF LadderInv
<1> QED
  BY <1>1, <1>2, <1>3, <1>4, AnswerFacts, ListPlayerStep

LEMMA RaisesStep ==
    ASSUME LadderInv, NEW j \in Jobs, AccountRaises(j) \/ UpsertRaises(j)
    PROVE  LadderInv'
<1>1. /\ UNCHANGED <<now, identities, target>> /\ Happens
      /\ job[j].pc \in {"account", "upsert"}
  BY DEF AccountRaises, UpsertRaises
<1>2. IdentitiesOK' /\ events' \in 0 .. MaxEvents
  BY <1>1, SameIdentities, EventCounted DEF LadderInv
<1>3. CASE AccountRaises(j)
  <2>1. job[j].pc = "account"
    BY <1>3 DEF AccountRaises
  <2>2. PICK p \in job[j].cur : ListPlayer(j, p, {})
    BY <1>3 DEF AccountRaises
  <2>3. p \in job[j].todo
    BY <2>1, JobFacts, AttemptIs DEF AttemptOK
  <2>4. {} \in Names /\ \A t \in {} : t + MaxAge + CacheAge >= job[j].begun
    BY DEF Names
  <2> QED
    BY <1>1, <1>2, <2>2, <2>3, <2>4, ListPlayerStep
<1>4. CASE UpsertRaises(j)
  <2>1. job[j].pc = "upsert"
    BY <1>4 DEF UpsertRaises
  <2>2. PICK o \in job[j].answer : ListPlayer(j, o.puuid, {o.truth})
    BY <1>4 DEF UpsertRaises
  <2> QED
    BY <1>1, <1>2, <2>1, <2>2, AnswerFacts, ListPlayerStep
<1> QED
  BY <1>3, <1>4

-----------------------------------------------------------------------------
(* The transaction.                                                        *)

\* A step of the transaction that is not its last.
LEMMA LockStep ==
    ASSUME LadderInv, NEW j \in Jobs, NEW r \in JobRecords, job' = [job EXCEPT ![j] = r],
           UNCHANGED <<now, identities, target, events>>,
           job[j].pc \in {"delete", "blocked", "insert"},
           r.pc \in {"blocked", "insert", "commit"}, r.begun = job[j].begun,
           r.todo = job[j].todo, r.rows = job[j].rows,
           r.pc = "insert" => r.rows # {},
           r.pc = "commit" /\ r.rows # {} =>
              /\ target \subseteq r.locked
              /\ \A k \in Jobs \ {j} : job[k].pc = "commit" => job[k].rows = {},
           Replaced(r.locked), Replaced(r.doomed), AllOrNone(r.locked), AllOrNone(r.doomed)
    PROVE  LadderInv'
<1>1. AttemptOK(j, r)
  BY JobFacts, AttemptIs DEF AttemptOK, HasRows, HasLadder
<1>2. /\ JobsOK' /\ job'[j] = r
      /\ \A k \in Attempts \ {j} : job'[k] = job[k]
  BY <1>1, OneJob
<1>3. r.locked \subseteq Rows /\ r.doomed \subseteq Rows
  BY FieldTypes
<1>4. TargetInv'
  BY <1>2, <1>3, TargetKept
<1>5. IdentitiesOK'
  BY SameIdentities DEF LadderInv
<1> QED
  BY <1>2, <1>4, <1>5 DEF LadderInv

LEMMA DeleteStep ==
    ASSUME LadderInv, NEW j \in Jobs, Delete(j)
    PROVE  LadderInv'
<1>1. job[j].pc = "delete" /\ UNCHANGED <<now, identities, target, events>>
  BY DEF Delete
<1>2. job[j] \in JobRecords /\ target \in SUBSET Rows
  BY JobFacts, AttemptIs DEF LadderInv
<1>3. /\ Replaced(target) /\ AllOrNone(target)
      /\ Replaced(job[j].locked) /\ Replaced(job[j].doomed)
      /\ AllOrNone(job[j].locked) /\ AllOrNone(job[j].doomed)
  BY DEF LadderInv, TargetInv, AllOrNone
<1>4. CASE job' = [job EXCEPT ![j].pc = AfterDelete(j), ![j].locked = target]
  <2> DEFINE r == [job[j] EXCEPT !.pc = AfterDelete(j), !.locked = target]
  <2>1. /\ AfterDelete(j) \in {"insert", "commit"}
        /\ AfterDelete(j) = "commit" <=> job[j].rows = {}
    BY DEF AfterDelete
  <2>2. /\ r \in JobRecords
        /\ r.pc = AfterDelete(j) /\ r.begun = job[j].begun /\ r.todo = job[j].todo
        /\ r.rows = job[j].rows /\ r.locked = target /\ r.doomed = job[j].doomed
    BY <1>2, <2>1 DEF JobRecords, Waiting
  <2>3. job' = [job EXCEPT ![j] = r]
    BY <1>4
  <2> HIDE DEF r
  <2> QED
    BY <1>1, <1>3, <2>1, <2>2, <2>3, LockStep
<1>5. CASE job' = [job EXCEPT ![j].pc = "blocked", ![j].doomed = target]
  <2> DEFINE r == [job[j] EXCEPT !.pc = "blocked", !.doomed = target]
  <2>1. /\ r \in JobRecords
        /\ r.pc = "blocked" /\ r.begun = job[j].begun /\ r.todo = job[j].todo
        /\ r.rows = job[j].rows /\ r.locked = job[j].locked /\ r.doomed = target
    BY <1>2 DEF JobRecords, Waiting
  <2>2. job' = [job EXCEPT ![j] = r]
    BY <1>5
  <2> HIDE DEF r
  <2> QED
    BY <1>1, <1>3, <2>1, <2>2, LockStep
<1> QED
  BY <1>4, <1>5 DEF Delete

LEMMA UnblockedStep ==
    ASSUME LadderInv, NEW j \in Jobs, Unblocked(j)
    PROVE  LadderInv'
<1> DEFINE rest == job[j].doomed \cap target
           r == [job[j] EXCEPT !.pc = AfterDelete(j), !.doomed = {}, !.locked = rest]
<1>1. /\ job[j].pc = "blocked" /\ UNCHANGED <<now, identities, target, events>>
      /\ job' = [job EXCEPT ![j] = r]
  BY DEF Unblocked
<1>2. job[j] \in JobRecords /\ rest \in SUBSET Rows
  BY JobFacts, AttemptIs DEF LadderInv
<1>3. Replaced(rest) /\ AllOrNone(rest) /\ Replaced({}) /\ AllOrNone({})
  BY DEF LadderInv, TargetInv, Replaced, AllOrNone
<1>4. /\ AfterDelete(j) \in {"insert", "commit"}
      /\ AfterDelete(j) = "commit" <=> job[j].rows = {}
  BY DEF AfterDelete
<1> HIDE DEF rest
<1>5. /\ r \in JobRecords
      /\ r.pc = AfterDelete(j) /\ r.begun = job[j].begun /\ r.todo = job[j].todo
      /\ r.rows = job[j].rows /\ r.locked = rest /\ r.doomed = {}
  BY <1>2, <1>4 DEF JobRecords, Waiting
<1> HIDE DEF r
<1> QED
  BY <1>1, <1>3, <1>4, <1>5, LockStep

\* The rows an attempt means to insert are a ladder, and so is what is stored.
LEMMA WholeLadders ==
    ASSUME LadderInv
    PROVE  /\ Puuids(target) \in Ladders
           /\ \A j \in Jobs : job[j].pc \in {"insert", "commit"} => Puuids(job[j].rows) \in Ladders
           /\ \A rows : Puuids(rows) = {} <=> rows = {}
<1>1. ASSUME NEW k \in Attempts, job[k].pc \in {"insert", "commit", "replaced"}
      PROVE  Puuids(job[k].rows) \in Ladders
  <2>1. AttemptOK(k, job[k])
    BY JobFacts
  <2>2. job[k].todo = {} /\ Puuids(job[k].rows) \cup job[k].todo \in Ladders
    BY <1>1, <2>1 DEF AttemptOK, HasLadder, HasRows
  <2>3. Puuids(job[k].rows) \cup job[k].todo = Puuids(job[k].rows)
    BY <2>2
  <2> QED
    BY <2>2, <2>3
<1>2. PICK k \in Attempts : job[k].pc = "replaced" /\ target = job[k].rows
  BY DEF LadderInv, TargetInv, TargetWhole, Attempts
<1> QED
  BY <1>1, <1>2 DEF Puuids, Attempts

\* The unique index lets rows in only when the stored ladder is locked and no
\* other attempt inserted any.
LEMMA InsertStep ==
    ASSUME LadderInv, NEW j \in Jobs, Insert(j)
    PROVE  LadderInv'
<1> DEFINE r == [job[j] EXCEPT !.pc = "commit"]
<1>1. /\ job[j].pc = "insert" /\ MayInsert(j) /\ UNCHANGED <<now, identities, target, events>>
      /\ job' = [job EXCEPT ![j] = r]
  BY DEF Insert
<1>2. job[j] \in JobRecords /\ job[j].rows # {} /\ Puuids(job[j].rows) \in Ladders \ {{}}
  BY <1>1, JobFacts, AttemptIs, WholeLadders DEF AttemptOK
<1>3. target \subseteq job[j].locked
  <2>1. CASE target \cap job[j].locked = {} /\ target # {}
    <3>1. target \ job[j].locked = target
      BY <2>1
    <3>2. Puuids(job[j].rows) \cap Puuids(target) = {}
      BY <1>1, <3>1 DEF MayInsert
    <3>3. Puuids(target) \in Ladders \ {{}}
      BY <2>1, WholeLadders
    <3> QED
      BY <1>2, <3>2, <3>3, LaddersMeet
  <2> QED
    BY <2>1 DEF LadderInv, TargetInv, AllOrNone
<1>4. ASSUME NEW k \in Jobs \ {j}, job[k].pc = "commit"
      PROVE  job[k].rows = {}
  <2>1. job[k].rows \subseteq InsertedByOthers(j)
    BY <1>4 DEF InsertedByOthers
  <2>2. Puuids(job[j].rows) \cap Puuids(job[k].rows) = {}
    BY <1>1, <2>1 DEF MayInsert, Puuids
  <2>3. Puuids(job[k].rows) \notin Ladders \ {{}}
    BY <1>2, <2>2, LaddersMeet
  <2> QED
    BY <1>4, <2>3, WholeLadders
<1>5. /\ r \in JobRecords
      /\ r.pc = "commit" /\ r.begun = job[j].begun /\ r.todo = job[j].todo
      /\ r.rows = job[j].rows /\ r.locked = job[j].locked /\ r.doomed = job[j].doomed
  BY <1>2 DEF JobRecords, Waiting
<1> HIDE DEF r
<1>6. /\ Replaced(r.locked) /\ Replaced(r.doomed)
      /\ AllOrNone(r.locked) /\ AllOrNone(r.doomed)
  BY <1>5 DEF LadderInv, TargetInv
<1> QED
  BY <1>1, <1>3, <1>4, <1>5, <1>6, LockStep

\* The stored ladder stays as it is, becomes empty, or becomes that of j.
LEMMA CommitLeaves ==
    ASSUME LadderInv, NEW j \in Jobs, Commit(j)
    PROVE  \/ job[j].rows = {} /\ target' \in {{}, target}
           \/ job[j].rows # {} /\ target' = job[j].rows
<1>1. /\ job[j].pc = "commit" /\ target' = (target \ job[j].locked) \cup job[j].rows
      /\ AllOrNone(job[j].locked)
      /\ job[j].rows # {} => target \subseteq job[j].locked
  BY DEF Commit, LadderInv, TargetInv
<1>2. target \ job[j].locked \in {{}, target}
  BY <1>1 DEF AllOrNone
<1> QED
  BY <1>1, <1>2

LEMMA CommitTarget ==
    ASSUME LadderInv, NEW j \in Jobs, Commit(j),
           \A k \in Attempts \ {j} : job'[k] = job[k],
           job'[j].pc = "replaced", job'[j].locked = {},
           job'[j].rows = job[j].rows, job'[j].doomed = job[j].doomed
    PROVE  TargetInv'
<1>0. /\ TargetInv /\ target \subseteq Rows /\ j \in Attempts /\ job[j].pc = "commit"
      /\ \A r \in Rows : r.by \in Attempts
      /\ job[j].rows \subseteq Rows /\ \A r \in job[j].rows : r.by = j
  BY JobFacts, FieldTypes DEF LadderInv, Attempts, Rows, Commit, AttemptOK, RowOK
<1>1. ASSUME NEW k \in Attempts, job[k].pc = "replaced"
      PROVE  job'[k] = job[k]
  BY <1>0, <1>1
<1>2. TargetWhole'
  <2>1. PICK k \in Attempts : job[k].pc = "replaced" /\ target = job[k].rows
    BY <1>0 DEF TargetInv, TargetWhole, Attempts
  <2>2. job'[k].pc = "replaced" /\ job'[k].rows = target
    BY <1>1, <2>1
  <2>3. target' = target \/ target' = job'[j].rows
    BY CommitLeaves
  <2> QED
    BY <1>0, <2>2, <2>3 DEF TargetWhole, Attempts
<1>3. ASSUME NEW rows \in SUBSET Rows, Replaced(rows)
      PROVE  \A r \in rows : job'[r.by].pc = "replaced"
  BY <1>0, <1>1, <1>3 DEF Replaced
<1>4. Replaced(target)'
  <2>1. Replaced(target)
    BY <1>0 DEF TargetInv
  <2>2. \A r \in target : job'[r.by].pc = "replaced"
    BY <1>0, <1>3, <2>1
  <2> QED
    BY <1>0, <2>2, CommitLeaves DEF Replaced
<1>5. ASSUME NEW rows \in SUBSET Rows, Replaced(rows), AllOrNone(rows)
      PROVE  rows \cap target' = {} \/ target' \subseteq rows
  <2>1. rows \cap job[j].rows = {}
    BY <1>0, <1>5 DEF Replaced
  <2> QED
    BY <1>5, <2>1, CommitLeaves DEF AllOrNone
<1>6. ASSUME NEW k \in Jobs
      PROVE  /\ Replaced(job[k].locked)' /\ Replaced(job[k].doomed)'
             /\ AllOrNone(job[k].locked)' /\ AllOrNone(job[k].doomed)'
             /\ job'[k].pc = "commit" /\ job'[k].rows # {} => target' \subseteq job'[k].locked
  <2>1. /\ job[k].locked \in SUBSET Rows /\ job[k].doomed \in SUBSET Rows
        /\ Replaced(job[k].locked) /\ Replaced(job[k].doomed)
        /\ AllOrNone(job[k].locked) /\ AllOrNone(job[k].doomed)
        /\ job[k].pc = "commit" /\ job[k].rows # {} => target \subseteq job[k].locked
    BY <1>0, JobFacts, FieldTypes DEF TargetInv, Attempts
  <2>2. job'[k].locked \in {{}, job[k].locked} /\ job'[k].doomed = job[k].doomed
    BY DEF Attempts
  <2>3. Replaced(job[k].locked)' /\ Replaced(job[k].doomed)'
    BY <1>3, <2>1, <2>2 DEF Replaced
  <2>4. AllOrNone(job[k].locked)' /\ AllOrNone(job[k].doomed)'
    BY <1>5, <2>1, <2>2 DEF AllOrNone
  <2>5. ASSUME job'[k].pc = "commit", job'[k].rows # {}
        PROVE  target' \subseteq job'[k].locked
    <3>1. k # j /\ job'[k] = job[k]
      BY <2>5 DEF Attempts
    <3>2. job[j].rows = {}
      BY <1>0, <2>5, <3>1 DEF TargetInv
    <3> QED
      BY <2>1, <2>5, <3>1, <3>2, CommitLeaves
  <2> QED
    BY <2>3, <2>4, <2>5
<1>7. ASSUME NEW k \in Jobs, NEW l \in Jobs, k # l,
             job'[k].pc = "commit", job'[l].pc = "commit"
      PROVE  job'[k].rows = {} \/ job'[l].rows = {}
  BY <1>0, <1>7 DEF TargetInv, Attempts
<1> QED
  BY <1>2, <1>4, <1>6, <1>7 DEF TargetInv

LEMMA CommitStep ==
    ASSUME LadderInv, NEW j \in Jobs, Commit(j)
    PROVE  LadderInv'
<1> DEFINE r == [job[j] EXCEPT !.pc = "replaced", !.locked = {}]
<1>1. /\ job[j].pc = "commit" /\ UNCHANGED <<now, identities, events>>
      /\ job' = [job EXCEPT ![j] = r]
  BY DEF Commit
<1>2. job[j] \in JobRecords /\ AttemptOK(j, job[j]) /\ job[j].rows \subseteq Rows
  BY JobFacts, AttemptIs, FieldTypes
<1>3. /\ r \in JobRecords
      /\ r.pc = "replaced" /\ r.begun = job[j].begun /\ r.todo = job[j].todo
      /\ r.rows = job[j].rows /\ r.locked = {} /\ r.doomed = job[j].doomed
  BY <1>2 DEF JobRecords
<1> HIDE DEF r
<1>4. AttemptOK(j, r)
  BY <1>1, <1>2, <1>3 DEF AttemptOK, HasRows, HasLadder
<1>5. /\ JobsOK' /\ job'[j] = r
      /\ \A k \in Attempts \ {j} : job'[k] = job[k]
  BY <1>1, <1>3, <1>4, OneJob
<1>6. TargetInv'
  BY <1>3, <1>5, CommitTarget
<1>7. target' \subseteq Rows
  BY <1>2, CommitLeaves DEF LadderInv
<1>8. IdentitiesOK'
  BY <1>1, SameIdentities DEF LadderInv
<1> QED
  BY <1>1, <1>5, <1>6, <1>7, <1>8 DEF LadderInv

-----------------------------------------------------------------------------
(* All steps of the ladders.                                               *)

LEMMA PlayersStepKeeps ==
    ASSUME LadderInv, NEW j \in Jobs, PlayersStep(j)
    PROVE  LadderInv'
<1>1. CASE \E ladder \in Ladders : AskLadder(j, ladder)
  BY <1>1, AskLadderStep
<1>2. CASE \E p \in Players : Reuse(j, p) \/ AskAccount(j, p)
  BY <1>2, ReuseStep, AskAccountStep
<1>3. CASE \E t \in 0 .. now : AccountAnswered(j, t)
  BY <1>3, AnsweredStep
<1>4. CASE IdentitySaved(j) \/ AccountRaises(j) \/ UpsertRaises(j)
  BY <1>4, IdentitySavedStep, RaisesStep
<1>5. CASE Delete(j) \/ Unblocked(j) \/ Insert(j) \/ Commit(j)
  BY <1>5, DeleteStep, UnblockedStep, InsertStep, CommitStep
<1>6. CASE InsertRefused(j)
  <2>1. /\ job[j].pc = "insert" /\ Failed(j)
        /\ UNCHANGED <<now, identities, target, events>>
    BY <1>6 DEF InsertRefused
  <2>2. events' \in 0 .. MaxEvents
    BY <2>1 DEF LadderInv
  <2> QED
    BY <2>1, <2>2, FailedStep
<1> QED
  BY <1>1, <1>2, <1>3, <1>4, <1>5, <1>6 DEF PlayersStep

LEMMA FailStep ==
    ASSUME LadderInv, NEW j \in Jobs, Fail(j)
    PROVE  LadderInv'
<1>1. /\ job[j].pc # "replaced" /\ Failed(j) /\ Happens
      /\ UNCHANGED <<now, identities, target>>
  BY DEF Fail, Waiting
<1> QED
  BY <1>1, EventCounted, FailedStep

LEMMA TickStep ==
    ASSUME LadderInv, Tick
    PROVE  LadderInv'
<1>1. now' = now + 1 /\ now \in Nat /\ UNCHANGED <<identities, target, job, events>>
  BY DEF Tick, LadderInv
<1>2. ASSUME NEW j \in Attempts
      PROVE  AttemptOK(j, job[j])'
  <2>1. AttemptOK(j, job[j]) /\ job[j].begun \in Nat /\ job' = job
    BY <1>1, JobFacts, FieldTypes
  <2> QED
    BY <1>1, <2>1 DEF AttemptOK, RowOK, Timely
<1>3. JobsOK'
  BY <1>1, <1>2 DEF LadderInv, JobsOK
<1>4. TargetInv'
  BY <1>1 DEF LadderInv, TargetInv, TargetWhole, Replaced, AllOrNone
<1>5. IdentitiesOK'
  BY <1>1, SameIdentities DEF LadderInv
<1> QED
  BY <1>1, <1>3, <1>4, <1>5 DEF LadderInv

LEMMA RouteObservesStep ==
    ASSUME LadderInv, NEW p \in Players, NEW t, RouteObserves(p, t)
    PROVE  LadderInv'
<1> DEFINE o == Observation(p, now, t)
<1>1. /\ t \in Answers /\ Happens /\ identities' = Upsert({o})
      /\ UNCHANGED <<now, target, job>>
  BY DEF RouteObserves
<1>2. o \in Observations /\ Timely(o)
  BY <1>1 DEF LadderInv, Answers, Observation, Observations, Timely
<1> HIDE DEF o
<1>3. IdentitiesOK'
  BY <1>1, <1>2, UpsertKeeps DEF LadderInv
<1> QED
  BY <1>1, <1>3, EventCounted, OnlyIdentities

LEMMA LaddersKeep == LadderInv /\ LaddersNext => LadderInv'
BY TickStep, BeginStep, PlayersStepKeeps, FailStep, RouteObservesStep DEF LaddersNext

\* An attempt that has stored its ladder takes no step.
LEMMA ReplacedStays ==
    ASSUME LadderInv, LaddersNext, NEW k \in Attempts, job[k].pc = "replaced"
    PROVE  job'[k] = job[k]
<1>1. ASSUME NEW j \in Jobs, Begin(j) \/ PlayersStep(j) \/ Fail(j)
      PROVE  job'[k] = job[k]
  <2>1. job[j].pc # "replaced"
    BY <1>1 DEF Begin, PlayersStep, Fail, AskLadder, Reuse, AskAccount, AccountAnswered,
                IdentitySaved, AccountRaises, UpsertRaises, Delete, Unblocked, Insert,
                InsertRefused, Commit, Waiting
  <2>2. k # j /\ DOMAIN job = Attempts
    BY <2>1, JobFacts
  <2>3. CASE Begin(j) \/ Fail(j) \/ InsertRefused(j)
    BY <2>2, <2>3 DEF Begin, Fail, InsertRefused, Failed
  <2>4. CASE \/ \E ladder \in Ladders : AskLadder(j, ladder)
             \/ \E p \in Players : AskAccount(j, p)
             \/ \E t \in 0 .. now : AccountAnswered(j, t)
    BY <2>2, <2>4 DEF AskLadder, AskAccount, AccountAnswered
  <2>5. ASSUME NEW p, NEW name, ListPlayer(j, p, name)
        PROVE  job'[k] = job[k]
    BY <2>2, <2>5 DEF ListPlayer
  <2>6. CASE \/ \E p \in Players : Reuse(j, p)
             \/ IdentitySaved(j) \/ AccountRaises(j) \/ UpsertRaises(j)
    BY <2>5, <2>6 DEF Reuse, IdentitySaved, AccountRaises, UpsertRaises
  <2>7. CASE Delete(j) \/ Unblocked(j) \/ Insert(j) \/ Commit(j)
    BY <2>2, <2>7 DEF Delete, Unblocked, Insert, Commit
  <2> QED
    BY <1>1, <2>3, <2>4, <2>6, <2>7 DEF PlayersStep
<1>2. CASE UNCHANGED job
  BY <1>2
<1> QED
  BY <1>1, <1>2 DEF LaddersNext, Tick, RouteObserves

-----------------------------------------------------------------------------
(* The scan of the matches: what its steps make of its fields.             *)

ScanFields ==
    {"pc", "todo", "failed", "page", "pass", "base", "found", "available", "details", "match",
     "left", "unread", "unfetched"}

ScanShape == DOMAIN scan = ScanFields

paging == <<scan.todo, scan.failed, scan.page, scan.pass>>
result == <<scan.base, scan.found, scan.unread>>
fetching == <<scan.available, scan.details, scan.match, scan.unfetched>>

LEMMA BeginFields ==
    ASSUME ScanShape, BeginScan
    PROVE  /\ ScanShape' /\ scan'.pc = "scan" /\ scan'.base = Played
           /\ scan'.todo = {[player |-> p, start |-> 0, age |-> Played] : p \in Listed}
           /\ UNCHANGED <<scan.failed, scan.page, scan.pass, scan.found, scan.unread, scan.left>>
           /\ UNCHANGED fetching
BY DEF BeginScan, ScanShape, ScanFields, fetching

LEMMA NextFields ==
    ASSUME ScanShape, NEW next, NextPlayer(next)
    PROVE  /\ ScanShape' /\ scan'.page = {next} /\ scan'.todo = scan.todo \ {next}
           /\ UNCHANGED <<scan.pc, scan.failed, scan.pass, scan.left>>
           /\ UNCHANGED result /\ UNCHANGED fetching
BY DEF NextPlayer, ScanShape, ScanFields, result, fetching

LEMMA ReadFields ==
    ASSUME ScanShape, NEW page, NEW n, ReadPage(page, n)
    PROVE  /\ ScanShape' /\ scan'.found = scan.found \cup IdsOf(page, n)
           /\ scan'.page = NextPage(page, n)
           /\ UNCHANGED <<scan.pc, scan.todo, scan.failed, scan.pass, scan.base, scan.unread,
                          scan.left>>
           /\ UNCHANGED fetching
BY DEF ReadPage, ScanShape, ScanFields, fetching

LEMMA RaiseFields ==
    ASSUME ScanShape, NEW page, NEW ids, PageRaises(page, ids)
    PROVE  /\ ScanShape' /\ scan'.found = scan.found \cup ids
           /\ scan'.page = {} /\ scan'.failed = scan.failed \cup {page}
           /\ UNCHANGED <<scan.pc, scan.todo, scan.pass, scan.base, scan.unread, scan.left>>
           /\ UNCHANGED fetching
BY DEF PageRaises, Defer, ScanShape, ScanFields, fetching

LEMMA PassFields ==
    ASSUME ScanShape, PassEnds
    PROVE  /\ ScanShape' /\ scan'.failed = {}
           /\ UNCHANGED <<scan.page, scan.base, scan.found>> /\ UNCHANGED fetching
           /\ \/ /\ scan'.pc = "references" /\ scan'.left = Listed
                 /\ scan'.unread = {page.player : page \in scan.failed}
                 /\ UNCHANGED <<scan.todo, scan.pass>>
              \/ /\ scan.pass # Passes /\ scan'.pass = scan.pass + 1
                 /\ scan'.todo = scan.todo \cup scan.failed
                 /\ UNCHANGED <<scan.pc, scan.left, scan.unread>>
BY DEF PassEnds, EndPass, ScanShape, ScanFields, fetching

LEMMA ReferenceFields ==
    ASSUME ScanShape, NEW p, SaveReferences(p) \/ Link(p)
    PROVE  /\ ScanShape' /\ scan'.left = scan.left \ {p} /\ UNCHANGED scan.pc
           /\ UNCHANGED paging /\ UNCHANGED result /\ UNCHANGED fetching
BY DEF SaveReferences, Link, ScanShape, ScanFields, paging, result, fetching

LEMMA LookUpFields ==
    ASSUME ScanShape, LookUp
    PROVE  /\ ScanShape' /\ scan'.pc = "details" /\ scan'.available = FoundMatches \cap stored
           /\ scan'.details = FoundMatches \ stored
           /\ UNCHANGED <<scan.left, scan.match, scan.unfetched>>
           /\ UNCHANGED paging /\ UNCHANGED result
BY DEF LookUp, ScanShape, ScanFields, paging, result

LEMMA DetailFields ==
    ASSUME ScanShape, NEW m, SaveDetail(m) \/ DetailRaises(m)
    PROVE  /\ ScanShape' /\ scan'.details = scan.details \ {m}
           /\ UNCHANGED <<scan.left, scan.available>> /\ UNCHANGED paging /\ UNCHANGED result
           /\ \/ SaveDetail(m) /\ scan'.pc = "hydrate" /\ scan'.match = {m} /\ UNCHANGED scan.unfetched
              \/ /\ DetailRaises(m) /\ scan'.unfetched = scan.unfetched \cup {m}
                 /\ UNCHANGED <<scan.pc, scan.match>>
BY DEF SaveDetail, DetailRaises, ScanShape, ScanFields, paging, result

LEMMA HydrateFields ==
    ASSUME ScanShape, NEW m, NEW players, Hydrate(m) \/ HydrateRaises(m, players)
    PROVE  /\ ScanShape' /\ scan'.pc = "details" /\ scan'.match = {}
           /\ UNCHANGED <<scan.left, scan.details>> /\ UNCHANGED paging /\ UNCHANGED result
           /\ \/ scan'.available = scan.available \cup {m} /\ UNCHANGED scan.unfetched
              \/ scan'.unfetched = scan.unfetched \cup {m} /\ UNCHANGED scan.available
BY DEF Hydrate, HydrateRaises, Report, ScanShape, ScanFields, paging, result

LEMMA DoneFields ==
    ASSUME ScanShape, DetailsDone
    PROVE  /\ ScanShape' /\ scan'.pc = "link" /\ scan'.left = Listed
           /\ UNCHANGED paging /\ UNCHANGED result /\ UNCHANGED fetching
BY DEF DetailsDone, ScanShape, ScanFields, paging, result, fetching

LEMMA EndFields ==
    ASSUME ScanShape, LinksDone \/ ScanFails
    PROVE  /\ ScanShape' /\ scan'.pc \in {"done", "failed"} /\ (LinksDone => scan'.pc = "done")
           /\ (ScanFails => scan'.pc = "failed") /\ UNCHANGED scan.left
           /\ UNCHANGED paging /\ UNCHANGED result /\ UNCHANGED fetching
BY DEF LinksDone, ScanFails, ScanShape, ScanFields, paging, result, fetching

-----------------------------------------------------------------------------
(* Types.  A scan is about the ladder that its attempt stored, which does  *)
(* not change any more, and about matches that were played.                *)

Later == {"references", "details", "hydrate", "link", "done"}

AtHand == scan.todo \cup scan.failed \cup scan.page

PlayedOK == played \in Seq(Nat) /\ Played \in FirstMatches .. MaxMatches

PageOK(page) == page \in PageRecords /\ page.player \in Listed /\ page.age <= Played

PagingOK ==
    /\ \A page \in AtHand : PageOK(page)
    /\ \A a, b \in scan.page : a = b
    /\ scan.pass \in 0 .. Passes

ResultOK ==
    /\ scan.base \in 0 .. Played
    /\ scan.found \subseteq Listed \X (1 .. Played)
    /\ scan.unread \subseteq Players

\* The matches whose details are available, left to fetch, at hand and given
\* up are different ones.
FetchingOK ==
    /\ scan.available \cup scan.details \cup scan.match \subseteq 1 .. Played
    /\ scan.available \cap (scan.details \cup scan.match \cup scan.unfetched) = {}
    /\ scan.details \cap (scan.match \cup scan.unfetched) = {}
    /\ scan.match \cap scan.unfetched = {}
    /\ \A a, b \in scan.match : a = b

PhaseOK ==
    /\ scan.pc \in Later \cup {"idle", "scan", "failed"}
    /\ scan.pc # "idle" => job[MatchJob].pc = "replaced"
    /\ scan.pc \notin {"hydrate", "failed"} => scan.match = {}
    /\ scan.pc \in {"idle", "scan", "references"} => scan.unfetched = {}
    /\ scan.pc = "idle" => scan = NoScan
    /\ scan.left \subseteq Players

TablesOK ==
    /\ pages \subseteq PageRecords
    /\ \A c, d \in pages : c.player = d.player /\ c.start = d.start => c = d
    /\ references \subseteq Players \X Matches
    /\ stored \subseteq 1 .. Played
    /\ links \subseteq Players \X stored
    /\ missed \subseteq Players

ScanOK == ScanShape /\ PagingOK /\ ResultOK /\ FetchingOK /\ PhaseOK

MatchInv == PlayedOK /\ TablesOK /\ ScanOK

LEMMA ListedPlayers == LadderInv => Listed \subseteq Players
<1> SUFFICES ASSUME LadderInv
             PROVE  Listed \subseteq Players
  OBVIOUS
<1>1. job[MatchJob].rows \subseteq Rows
  BY JobFacts, FieldTypes, AttemptIs, MatchConstantsOK
<1> QED
  BY <1>1 DEF Listed, Puuids, Rows

LEMMA PlayedFacts ==
    ASSUME PlayedOK
    PROVE  /\ Played \in Nat /\ Played <= MaxMatches /\ DOMAIN played = 1 .. Played
           /\ 1 .. Played \subseteq Matches
           /\ \A m \in 1 .. Played : played[m] \in Nat
BY MatchConstantsOK DEF PlayedOK, Played, Matches

\* Nothing that the types depend on has changed.
Frame ==
    /\ UNCHANGED job
    /\ UNCHANGED played

LEMMA FrameFacts == Frame => UNCHANGED Played /\ UNCHANGED Listed
BY DEF Frame, Played, Listed

LEMMA SamePaging ==
    ASSUME PagingOK, UNCHANGED paging, UNCHANGED Played, UNCHANGED Listed
    PROVE  PagingOK'
BY DEF PagingOK, PageOK, paging, AtHand

LEMMA SameResult ==
    ASSUME ResultOK, UNCHANGED result, UNCHANGED Played, UNCHANGED Listed
    PROVE  ResultOK'
BY DEF ResultOK, result

LEMMA SameFetching ==
    ASSUME FetchingOK, UNCHANGED fetching, UNCHANGED Played
    PROVE  FetchingOK'
BY DEF FetchingOK, fetching

LEMMA SameTables ==
    ASSUME TablesOK, UNCHANGED <<pages, references, stored, links, missed>>, UNCHANGED Played
    PROVE  TablesOK'
BY DEF TablesOK

LEMMA TypesHold == LadderInv /\ MatchInv => TypeOK
<1> SUFFICES ASSUME LadderInv, MatchInv
             PROVE  TypeOK
  OBVIOUS
<1>1. LadderTypeOK /\ Listed \subseteq Players
  BY LadderInvTypes, ListedPlayers
<1>2. PlayedOK /\ TablesOK /\ PagingOK /\ ResultOK /\ FetchingOK /\ PhaseOK
  BY DEF MatchInv, ScanOK
<1>3. DOMAIN played = 1 .. Played /\ 1 .. Played \subseteq Matches
  BY <1>2, PlayedFacts
<1>4. scan.todo \cup scan.failed \cup scan.page \subseteq PageRecords
  BY <1>2 DEF PagingOK, PageOK, AtHand
<1>5. scan.found \subseteq Players \X Matches
  BY <1>1, <1>2, <1>3 DEF ResultOK
<1>6. scan.available \cap (scan.details \cup scan.match \cup scan.unfetched) = {}
  BY <1>2 DEF FetchingOK
<1>7. scan.left \cup scan.unread \cup missed \subseteq Players
  BY <1>2 DEF PhaseOK, ResultOK, TablesOK
<1>8. /\ played \in Seq(Nat) /\ Played \in FirstMatches .. MaxMatches
      /\ pages \subseteq PageRecords
      /\ \A c, d \in pages : c.player = d.player /\ c.start = d.start => c = d
      /\ references \subseteq Players \X Matches
      /\ stored \subseteq DOMAIN played
      /\ links \subseteq Players \X stored
      /\ scan.pass \in 0 .. Passes
  BY <1>2, <1>3 DEF PlayedOK, TablesOK, PagingOK
<1> QED
  BY <1>1, <1>4, <1>5, <1>6, <1>7, <1>8 DEF TypeOK

\* A step of the scan, or one that nothing but the tables notices.
LEMMA MatchStep ==
    ASSUME MatchInv, Frame, TablesOK', ScanShape', PagingOK', ResultOK', FetchingOK', PhaseOK'
    PROVE  MatchInv'
BY DEF MatchInv, ScanOK, Frame, PlayedOK, Played

LEMMA InvFacts ==
    ASSUME LadderInv, MatchInv
    PROVE  /\ PlayedOK /\ TablesOK /\ ScanShape /\ PagingOK /\ ResultOK /\ FetchingOK /\ PhaseOK
           /\ Listed \subseteq Players /\ Played \in Nat /\ Played <= MaxMatches
           /\ DOMAIN played = 1 .. Played /\ 1 .. Played \subseteq Matches
           /\ \A m \in 1 .. Played : played[m] \in Nat
           /\ FoundMatches \subseteq 1 .. Played
<1>1. /\ PlayedOK /\ TablesOK /\ ScanShape /\ PagingOK /\ ResultOK /\ FetchingOK /\ PhaseOK
      /\ Listed \subseteq Players
  BY ListedPlayers DEF MatchInv, ScanOK
<1>2. FoundMatches \subseteq 1 .. Played
  BY <1>1 DEF ResultOK, FoundMatches
<1> QED
  BY <1>1, <1>2, PlayedFacts

LEMMA BeginTypes ==
    ASSUME LadderInv, MatchInv, BeginScan
    PROVE  MatchInv'
<1> USE InvFacts
<1>1. /\ Frame /\ scan.pc = "idle" /\ job[MatchJob].pc = "replaced"
      /\ UNCHANGED <<pages, references, stored, links, missed>>
  BY DEF BeginScan, Frame, ladderVars, tables
<1>2. UNCHANGED Played /\ UNCHANGED Listed
  BY <1>1, FrameFacts
<1>3. TablesOK' /\ FetchingOK' /\ ScanShape'
  BY <1>1, <1>2, SameTables, SameFetching, BeginFields
<1>4. PagingOK'
  <2>1. \A page \in scan'.todo : PageOK(page)
    BY BeginFields DEF PageOK, PageRecords
  <2>2. \A page \in AtHand' : PageOK(page)
    BY <2>1, BeginFields DEF AtHand, PagingOK
  <2> QED
    BY <1>2, <2>2, BeginFields DEF PagingOK, PageOK
<1>5. ResultOK'
  BY <1>2, BeginFields DEF ResultOK
<1>6. PhaseOK'
  BY <1>1, BeginFields DEF PhaseOK, fetching, Frame
<1> QED
  BY <1>1, <1>3, <1>4, <1>5, <1>6, MatchStep

LEMMA NextTypes ==
    ASSUME LadderInv, MatchInv, NEW next, NextPlayer(next)
    PROVE  MatchInv'
<1> USE InvFacts
<1>1. /\ Frame /\ scan.pc = "scan" /\ scan.page = {} /\ next \in scan.todo
      /\ UNCHANGED <<pages, references, stored, links, missed>>
  BY DEF NextPlayer, Frame, ladderVars, tables
<1>2. UNCHANGED Played /\ UNCHANGED Listed
  BY <1>1, FrameFacts
<1>3. TablesOK' /\ FetchingOK' /\ ResultOK' /\ ScanShape'
  BY <1>1, <1>2, SameTables, SameFetching, SameResult, NextFields
<1>4. PagingOK'
  BY <1>1, <1>2, NextFields DEF PagingOK, PageOK, AtHand
<1>5. PhaseOK'
  BY <1>1, NextFields DEF PhaseOK, fetching, Frame
<1> QED
  BY <1>1, <1>3, <1>4, <1>5, MatchStep

LEMMA PageIds ==
    ASSUME LadderInv, MatchInv, NEW page \in scan.page, NEW n \in 0 .. Played
    PROVE  IdsOf(page, n) \subseteq Listed \X (1 .. Played)
<1>1. page.player \in Listed /\ Played \in Nat
  BY InvFacts DEF PagingOK, PageOK, AtHand
<1>2. PageAt(page.player, page.start, n) \subseteq 1 .. Played
  BY <1>1 DEF PageAt, ListAt
<1> QED
  BY <1>1, <1>2 DEF IdsOf

LEMMA PutKeeps ==
    ASSUME LadderInv, MatchInv, NEW p \in Players, NEW start \in Nat, pages' = Put(p, start)
    PROVE  /\ pages' \subseteq PageRecords
           /\ \A c, d \in pages' : c.player = d.player /\ c.start = d.start => c = d
<1> DEFINE new == [player |-> p, start |-> start, age |-> Played]
<1>1. new \in PageRecords /\ new.player = p /\ new.start = start
  BY InvFacts DEF PageRecords
<1>2. pages' = {c \in pages : ~(c.player = p /\ c.start = start)} \cup {new}
  BY DEF Put
<1> HIDE DEF new
<1> QED
  BY <1>1, <1>2, InvFacts DEF TablesOK

LEMMA ReadTypes ==
    ASSUME LadderInv, MatchInv, NEW page \in scan.page, NEW n \in 0 .. Played, ReadPage(page, n)
    PROVE  MatchInv'
<1> USE InvFacts
<1>1. /\ Frame /\ scan.pc = "scan" /\ UNCHANGED <<references, stored, links>>
      /\ pages' = IF n = Played THEN Put(page.player, page.start) ELSE pages
      /\ missed' = IF n < page.age THEN missed \cup {page.player} ELSE missed
  BY DEF ReadPage, Frame, ladderVars, tables
<1>2. UNCHANGED Played /\ UNCHANGED Listed
  BY <1>1, FrameFacts
<1>3. PageOK(page) /\ page.player \in Players /\ page.start \in Nat
  BY DEF PagingOK, PageOK, PageRecords, AtHand
<1>4. TablesOK'
  <2>1. /\ pages' \subseteq PageRecords
        /\ \A c, d \in pages' : c.player = d.player /\ c.start = d.start => c = d
    BY <1>1, <1>3, PutKeeps DEF TablesOK
  <2>2. missed' \subseteq Players
    BY <1>1, <1>3 DEF TablesOK
  <2> QED
    BY <1>1, <1>2, <2>1, <2>2 DEF TablesOK
<1>5. FetchingOK' /\ ScanShape'
  BY <1>2, SameFetching, ReadFields
<1>6. PagingOK'
  <2>1. \A next \in NextPage(page, n) :
          /\ PageOK(next)
          /\ next = [page EXCEPT !.start = page.start + PageSize, !.age = n]
    <3> DEFINE next == [page EXCEPT !.start = page.start + PageSize, !.age = n]
    <3>1. page \in PageRecords /\ page.start + PageSize \in Nat /\ n \in 0 .. MaxMatches
      BY <1>3, MatchConstantsOK DEF PageOK
    <3>2. next \in PageRecords /\ next.player = page.player /\ next.age = n
      BY <3>1 DEF PageRecords
    <3>3. NextPage(page, n) \subseteq {next}
      BY DEF NextPage
    <3> HIDE DEF next
    <3>4. PageOK(next)
      BY <1>3, <3>2 DEF PageOK
    <3> QED
      BY <3>3, <3>4 DEF next
  <2>2. \A next \in AtHand' : PageOK(next)
    BY <2>1, ReadFields DEF AtHand, PagingOK
  <2>3. \A a, b \in scan'.page : a = b
    BY <2>1, ReadFields
  <2> QED
    BY <1>2, <2>2, <2>3, ReadFields DEF PagingOK, PageOK
<1>7. ResultOK'
  BY <1>2, PageIds, ReadFields DEF ResultOK
<1>8. PhaseOK'
  BY <1>1, ReadFields DEF PhaseOK, fetching, Frame
<1> QED
  BY <1>1, <1>4, <1>5, <1>6, <1>7, <1>8, MatchStep

LEMMA RaiseTypes ==
    ASSUME LadderInv, MatchInv, NEW page \in scan.page, NEW ids, PageRaises(page, ids),
           ids \subseteq Listed \X (1 .. Played)
    PROVE  MatchInv'
<1> USE InvFacts
<1>1. /\ Frame /\ scan.pc = "scan" /\ UNCHANGED <<pages, references, stored, links, missed>>
  BY DEF PageRaises, Frame, tables
<1>2. UNCHANGED Played /\ UNCHANGED Listed
  BY <1>1, FrameFacts
<1>3. TablesOK' /\ FetchingOK' /\ ScanShape'
  BY <1>1, <1>2, SameTables, SameFetching, RaiseFields
<1>4. PagingOK'
  BY <1>2, RaiseFields DEF PagingOK, PageOK, AtHand
<1>5. ResultOK'
  BY <1>2, RaiseFields DEF ResultOK
<1>6. PhaseOK'
  BY <1>1, RaiseFields DEF PhaseOK, fetching, Frame
<1> QED
  BY <1>1, <1>3, <1>4, <1>5, <1>6, MatchStep

LEMMA PassTypes ==
    ASSUME LadderInv, MatchInv, PassEnds
    PROVE  MatchInv'
<1> USE InvFacts
<1>1. /\ Frame /\ scan.pc = "scan" /\ UNCHANGED <<pages, references, stored, links, missed>>
  BY DEF PassEnds, Frame, ladderVars, tables
<1>2. UNCHANGED Played /\ UNCHANGED Listed
  BY <1>1, FrameFacts
<1>3. TablesOK' /\ FetchingOK' /\ ScanShape'
  BY <1>1, <1>2, SameTables, SameFetching, PassFields
<1>4. PagingOK'
  <2>1. scan'.pass \in 0 .. Passes
    BY PassFields, MatchConstantsOK DEF PagingOK
  <2>2. AtHand' \subseteq AtHand /\ UNCHANGED scan.page
    BY PassFields DEF AtHand
  <2> QED
    BY <1>2, <2>1, <2>2 DEF PagingOK, PageOK
<1>5. ResultOK' /\ scan'.left \subseteq Players
  <2>1. \A page \in scan.failed : page.player \in Players
    BY DEF PagingOK, PageOK, AtHand
  <2>2. scan'.unread \subseteq Players /\ scan'.left \subseteq Players
    BY <2>1, PassFields DEF ResultOK, PhaseOK
  <2> QED
    BY <1>2, <2>2, PassFields DEF ResultOK
<1>6. PhaseOK'
  BY <1>1, <1>5, PassFields DEF PhaseOK, fetching, Frame, Later
<1> QED
  BY <1>1, <1>3, <1>4, <1>5, <1>6, MatchStep

LEMMA ReferenceTypes ==
    ASSUME LadderInv, MatchInv, NEW p \in Players, SaveReferences(p)
    PROVE  MatchInv'
<1> USE InvFacts
<1>1. /\ Frame /\ scan.pc = "references" /\ UNCHANGED <<pages, stored, links, missed>>
      /\ references' = references \cup ({p} \X Found(p))
  BY DEF SaveReferences, Frame, ladderVars
<1>2. UNCHANGED Played /\ UNCHANGED Listed
  BY <1>1, FrameFacts
<1>3. TablesOK'
  BY <1>1, <1>2 DEF TablesOK, Found
<1>4. FetchingOK' /\ PagingOK' /\ ResultOK' /\ ScanShape'
  BY <1>2, SameFetching, SamePaging, SameResult, ReferenceFields
<1>5. PhaseOK'
  BY <1>1, ReferenceFields DEF PhaseOK, fetching, Frame
<1> QED
  BY <1>1, <1>3, <1>4, <1>5, MatchStep

LEMMA LookUpTypes ==
    ASSUME LadderInv, MatchInv, LookUp
    PROVE  MatchInv'
<1> USE InvFacts
<1>1. /\ Frame /\ scan.pc = "references" /\ UNCHANGED <<pages, references, stored, links, missed>>
  BY DEF LookUp, Frame, ladderVars, tables
<1>2. UNCHANGED Played /\ UNCHANGED Listed
  BY <1>1, FrameFacts
<1>3. TablesOK' /\ PagingOK' /\ ResultOK' /\ ScanShape'
  BY <1>1, <1>2, SameTables, SamePaging, SameResult, LookUpFields
<1>4. scan'.match = {} /\ scan'.unfetched = {}
  BY <1>1, LookUpFields DEF PhaseOK
<1>5. FetchingOK'
  BY <1>2, <1>4, LookUpFields DEF FetchingOK
<1>6. PhaseOK'
  BY <1>1, <1>4, LookUpFields DEF PhaseOK, Frame, Later
<1> QED
  BY <1>1, <1>3, <1>5, <1>6, MatchStep

LEMMA DetailTypes ==
    ASSUME LadderInv, MatchInv, NEW m \in scan.details, SaveDetail(m) \/ DetailRaises(m)
    PROVE  MatchInv'
<1> USE InvFacts
<1>1. /\ Frame /\ scan.pc = "details" /\ UNCHANGED <<pages, references, links, missed>>
      /\ stored' \in {stored, stored \cup {m}}
  BY DEF SaveDetail, DetailRaises, Frame, ladderVars, tables
<1>2. UNCHANGED Played /\ UNCHANGED Listed
  BY <1>1, FrameFacts
<1>3. m \in 1 .. Played /\ scan.match = {}
  BY <1>1 DEF FetchingOK, PhaseOK
<1>4. TablesOK'
  BY <1>1, <1>2, <1>3 DEF TablesOK
<1>5. PagingOK' /\ ResultOK' /\ ScanShape'
  BY <1>2, SamePaging, SameResult, DetailFields
<1>6. FetchingOK'
  <2>1. CASE scan'.match = {m} /\ UNCHANGED scan.unfetched
    BY <1>2, <1>3, <2>1, DetailFields DEF FetchingOK
  <2>2. CASE scan'.unfetched = scan.unfetched \cup {m} /\ UNCHANGED scan.match
    BY <1>2, <1>3, <2>2, DetailFields DEF FetchingOK
  <2> QED
    BY <2>1, <2>2, DetailFields
<1>7. PhaseOK'
  BY <1>1, <1>3, DetailFields DEF PhaseOK, Frame, Later
<1> QED
  BY <1>1, <1>4, <1>5, <1>6, <1>7, MatchStep

LEMMA HydrateTypes ==
    ASSUME LadderInv, MatchInv, NEW m \in scan.match, NEW players,
           Hydrate(m) \/ HydrateRaises(m, players)
    PROVE  MatchInv'
<1> USE InvFacts
<1>1. /\ Frame /\ scan.pc = "hydrate" /\ UNCHANGED <<pages, references, stored, links, missed>>
  BY DEF Hydrate, HydrateRaises, Frame, tables
<1>2. UNCHANGED Played /\ UNCHANGED Listed
  BY <1>1, FrameFacts
<1>3. TablesOK' /\ PagingOK' /\ ResultOK' /\ ScanShape'
  BY <1>1, <1>2, SameTables, SamePaging, SameResult, HydrateFields
<1>4. m \in 1 .. Played /\ m \notin scan.available /\ m \notin scan.details /\ m \notin scan.unfetched
  BY DEF FetchingOK
<1>5. FetchingOK'
  <2>1. CASE scan'.available = scan.available \cup {m} /\ UNCHANGED scan.unfetched
    BY <1>2, <1>4, <2>1, HydrateFields DEF FetchingOK
  <2>2. CASE scan'.unfetched = scan.unfetched \cup {m} /\ UNCHANGED scan.available
    <3>1. scan'.match = {} /\ scan'.details = scan.details /\ scan'.available = scan.available
      BY <2>2, HydrateFields
    <3>2. scan'.available \cap (scan'.details \cup scan'.match \cup scan'.unfetched) = {}
      BY <1>4, <2>2, <3>1 DEF FetchingOK
    <3> QED
      BY <1>2, <1>4, <2>2, <3>1, <3>2 DEF FetchingOK
  <2> QED
    BY <2>1, <2>2, HydrateFields
<1>6. PhaseOK'
  BY <1>1, HydrateFields DEF PhaseOK, Frame, Later
<1> QED
  BY <1>1, <1>3, <1>5, <1>6, MatchStep

LEMMA LinkTypes ==
    ASSUME LadderInv, MatchInv, NEW p \in Players, Link(p)
    PROVE  MatchInv'
<1> USE InvFacts
<1>1. /\ Frame /\ scan.pc = "link" /\ UNCHANGED <<pages, references, stored, missed>>
      /\ Found(p) \cap scan.available \subseteq stored
      /\ links' = links \cup ({p} \X (Found(p) \cap scan.available))
  BY DEF Link, Frame, ladderVars
<1>2. UNCHANGED Played /\ UNCHANGED Listed
  BY <1>1, FrameFacts
<1>3. TablesOK'
  <2>1. links' \subseteq Players \X stored
    BY <1>1 DEF TablesOK
  <2> QED
    BY <1>1, <1>2, <2>1 DEF TablesOK
<1>4. FetchingOK' /\ PagingOK' /\ ResultOK' /\ ScanShape'
  BY <1>2, SameFetching, SamePaging, SameResult, ReferenceFields
<1>5. PhaseOK'
  BY <1>1, ReferenceFields DEF PhaseOK, fetching, Frame
<1> QED
  BY <1>1, <1>3, <1>4, <1>5, MatchStep

LEMMA DoneTypes ==
    ASSUME LadderInv, MatchInv, DetailsDone \/ LinksDone
    PROVE  MatchInv'
<1> USE InvFacts
<1>1. /\ Frame /\ scan.pc \in {"details", "link"}
      /\ UNCHANGED <<pages, references, stored, links, missed>>
  BY DEF DetailsDone, LinksDone, Frame, ladderVars, tables
<1>2. UNCHANGED Played /\ UNCHANGED Listed
  BY <1>1, FrameFacts
<1>3. /\ ScanShape' /\ UNCHANGED paging /\ UNCHANGED result /\ UNCHANGED fetching
      /\ scan'.pc \in {"link", "done"} /\ scan'.left \in {Listed, scan.left}
  BY DoneFields, EndFields
<1>4. TablesOK' /\ FetchingOK' /\ PagingOK' /\ ResultOK'
  BY <1>1, <1>2, <1>3, SameTables, SameFetching, SamePaging, SameResult
<1>5. PhaseOK'
  BY <1>1, <1>3 DEF PhaseOK, fetching, Frame, Later
<1> QED
  BY <1>1, <1>3, <1>4, <1>5, MatchStep

LEMMA ScanFailsTypes ==
    ASSUME LadderInv, MatchInv, FailScan \/ \E p \in Players : LinkRefused(p)
    PROVE  MatchInv'
<1> USE InvFacts
<1>1. /\ Frame /\ scan.pc # "idle" /\ ScanFails
      /\ UNCHANGED <<pages, references, stored, links, missed>>
  BY DEF FailScan, LinkRefused, Frame, ladderVars, tables
<1>2. UNCHANGED Played /\ UNCHANGED Listed
  BY <1>1, FrameFacts
<1>3. TablesOK' /\ FetchingOK' /\ PagingOK' /\ ResultOK' /\ ScanShape'
  BY <1>1, <1>2, SameTables, SameFetching, SamePaging, SameResult, EndFields
<1>4. PhaseOK'
  BY <1>1, EndFields DEF PhaseOK, Frame
<1> QED
  BY <1>1, <1>3, <1>4, MatchStep

-----------------------------------------------------------------------------
(* What others do, and the ladders.                                        *)

LEMMA NoScanOK == scan = NoScan /\ PlayedOK => ScanOK
<1> SUFFICES ASSUME scan = NoScan, PlayedOK
             PROVE  ScanOK
  OBVIOUS
<1>1. /\ ScanShape /\ scan.pc = "idle" /\ AtHand = {} /\ scan.page = {} /\ scan.pass = 0
      /\ scan.base = 0 /\ scan.found = {} /\ scan.unread = {} /\ scan.available = {}
      /\ scan.details = {} /\ scan.match = {} /\ scan.unfetched = {} /\ scan.left = {}
  BY DEF NoScan, ScanShape, ScanFields, AtHand
<1>2. Played \in Nat
  BY PlayedFacts
<1>3. PagingOK /\ ResultOK
  BY <1>1, <1>2, MatchConstantsOK DEF PagingOK, ResultOK
<1>4. FetchingOK /\ PhaseOK
  BY <1>1 DEF FetchingOK, PhaseOK
<1> QED
  BY <1>1, <1>3, <1>4 DEF ScanOK

\* More matches may have been played, and the ladder of the scan is the same.
LEMMA ScanSame ==
    ASSUME ScanOK, UNCHANGED scan, Played \in Nat, Played' \in Nat, Played' >= Played,
           UNCHANGED Listed,
           job[MatchJob].pc = "replaced" => job'[MatchJob].pc = "replaced"
    PROVE  ScanOK'
<1>1. PagingOK'
  <2>1. ASSUME NEW page, PageOK(page)
        PROVE  PageOK(page)'
    <3>1. page.age \in Nat
      BY <2>1 DEF PageOK, PageRecords
    <3> QED
      BY <2>1, <3>1 DEF PageOK
  <2> QED
    BY <2>1 DEF ScanOK, PagingOK, AtHand
<1>2. 1 .. Played \subseteq 1 .. Played' /\ 0 .. Played \subseteq 0 .. Played'
  OBVIOUS
<1>3. ResultOK' /\ FetchingOK'
  BY <1>2 DEF ScanOK, ResultOK, FetchingOK
<1>4. PhaseOK' /\ ScanShape'
  BY DEF ScanOK, PhaseOK, ScanShape
<1> QED
  BY <1>1, <1>3, <1>4 DEF ScanOK

LEMMA PlayTypes ==
    ASSUME LadderInv, MatchInv, Play
    PROVE  MatchInv'
<1> USE InvFacts
<1>1. /\ Played < MaxMatches /\ played' = Append(played, now) /\ played \in Seq(Nat)
      /\ now \in Nat /\ UNCHANGED <<job, pages, references, stored, links, missed, scan>>
  BY DEF Play, LadderInv, PlayedOK, ladderVars, tables
<1>2. played' \in Seq(Nat) /\ Played' = Played + 1
  BY <1>1 DEF Played
<1>3. PlayedOK'
  BY <1>1, <1>2, MatchConstantsOK DEF PlayedOK
<1>4. TablesOK'
  BY <1>1, <1>2 DEF TablesOK
<1>5. UNCHANGED Listed
  BY <1>1 DEF Listed
<1>6. ScanOK'
  BY <1>1, <1>2, <1>5, ScanSame DEF MatchInv
<1> QED
  BY <1>3, <1>4, <1>6 DEF MatchInv

LEMMA OthersTypes ==
    ASSUME LadderInv, MatchInv, Frame, UNCHANGED <<references, scan, missed>>,
           \/ \E p \in Players, start \in Starts : OthersFetchPage(p, start)
           \/ \E m \in Matches : OthersSave(m) \/ DeleteMatch(m)
    PROVE  MatchInv'
<1> USE InvFacts
<1>1. UNCHANGED Played /\ UNCHANGED Listed /\ UNCHANGED job
  BY FrameFacts DEF Frame
<1>2. ScanOK'
  BY <1>1, ScanSame DEF MatchInv
<1>3. TablesOK'
  <2>1. CASE \E p \in Players, start \in Starts : OthersFetchPage(p, start)
    <3>1. PICK p \in Players, start \in Starts : OthersFetchPage(p, start)
      BY <2>1
    <3>2. start \in Nat
      BY MatchConstantsOK DEF Starts
    <3>3. pages' = Put(p, start) /\ UNCHANGED <<stored, links>>
      BY <3>1 DEF OthersFetchPage, tables
    <3> QED
      BY <1>1, <3>2, <3>3, PutKeeps DEF TablesOK
  <2>2. CASE \E m \in Matches : OthersSave(m)
    <3>1. PICK m \in Matches : OthersSave(m)
      BY <2>2
    <3>2. m \in 1 .. Played /\ stored' = stored \cup {m} /\ UNCHANGED <<pages, links>>
      BY <3>1 DEF OthersSave
    <3> QED
      BY <1>1, <3>2 DEF TablesOK
  <2>3. CASE \E m \in Matches : DeleteMatch(m)
    <3>1. PICK m \in Matches : DeleteMatch(m)
      BY <2>3
    <3>2. /\ stored' = stored \ {m} /\ links' = {l \in links : l[2] # m} /\ UNCHANGED pages
      BY <3>1 DEF DeleteMatch
    <3>3. links' \subseteq Players \X stored'
      BY <3>2 DEF TablesOK
    <3> QED
      BY <1>1, <3>2, <3>3 DEF TablesOK
  <2> QED
    BY <2>1, <2>2, <2>3
<1>4. PlayedOK'
  BY <1>1 DEF Frame, PlayedOK
<1> QED
  BY <1>2, <1>3, <1>4 DEF MatchInv

LEMMA LaddersTypes ==
    ASSUME LadderInv, MatchInv, LaddersNext, UNCHANGED matchVars
    PROVE  MatchInv'
<1> USE InvFacts
<1>1. UNCHANGED <<played, pages, references, stored, links, scan, missed>> /\ UNCHANGED Played
  BY DEF matchVars, tables, Played
<1>2. PlayedOK' /\ TablesOK'
  BY <1>1, SameTables DEF PlayedOK
<1>3. CASE job[MatchJob].pc = "replaced"
  <2>1. job'[MatchJob] = job[MatchJob]
    BY <1>3, ReplacedStays, MatchConstantsOK, AttemptIs
  <2>2. UNCHANGED Listed /\ (job[MatchJob].pc = "replaced" => job'[MatchJob].pc = "replaced")
    BY <2>1 DEF Listed
  <2>3. ScanOK'
    BY <1>1, <2>2, ScanSame DEF MatchInv
  <2> QED
    BY <1>2, <2>3 DEF MatchInv
<1>4. CASE job[MatchJob].pc # "replaced"
  <2>1. scan' = NoScan
    BY <1>1, <1>4 DEF PhaseOK
  <2>2. (scan = NoScan /\ PlayedOK)' => ScanOK'
    BY NoScanOK, PTL
  <2>3. ScanOK'
    BY <1>2, <2>1, <2>2
  <2> QED
    BY <1>2, <2>3 DEF MatchInv
<1> QED
  BY <1>3, <1>4

LEMMA ObservedKeeps ==
    ASSUME LadderInv, MatchInv, NEW m \in 1 .. Played, NEW players,
           identities' = Upsert(ObservedIn(m, players))
    PROVE  IdentitiesOK'
<1> DEFINE seen == ObservedIn(m, players)
<1>1. m \in Matches /\ played[m] \in Nat
  BY InvFacts
<1>2. seen = {Observation(p, played[m], played[m]) : p \in Participants[m] \cap players}
  BY DEF ObservedIn, ObservedAt
<1>3. Participants[m] \subseteq Players
  BY <1>1, MatchConstantsOK
<1>4. seen \in SUBSET Observations /\ \A o \in seen : Timely(o)
  BY <1>1, <1>2, <1>3, LadderConstantsOK DEF Observation, Observations, Timely
<1>5. \A o, s \in seen : o.puuid = s.puuid => o = s
  BY <1>2 DEF Observation
<1>6. identities' = Upsert(seen)
  OBVIOUS
<1> HIDE DEF seen
<1> QED
  BY <1>4, <1>5, <1>6, UpsertKeeps DEF LadderInv

LEMMA MatchesKeepLadders == LadderInv /\ MatchInv /\ (MatchesNext \/ Others) => LadderInv'
<1> SUFFICES ASSUME LadderInv, MatchInv, MatchesNext \/ Others
             PROVE  LadderInv'
  OBVIOUS
<1>1. ASSUME UNCHANGED ladderVars
      PROVE  LadderInv'
  <2>1. IdentitiesOK' /\ events' \in 0 .. MaxEvents /\ UNCHANGED <<now, target, job>>
    BY <1>1, SameIdentities DEF ladderVars, LadderInv
  <2> QED
    BY <2>1, OnlyIdentities
<1>2. ASSUME Happens, UNCHANGED <<now, identities, target, job>>
      PROVE  LadderInv'
  <2>1. IdentitiesOK'
    BY <1>2, SameIdentities DEF LadderInv
  <2> QED
    BY <1>2, <2>1, EventCounted, OnlyIdentities
<1>3. ASSUME NEW m \in 1 .. Played, NEW players, identities' = Upsert(ObservedIn(m, players)),
             Happens \/ UNCHANGED events, UNCHANGED <<now, target, job>>
      PROVE  LadderInv'
  <2>1. IdentitiesOK'
    BY <1>3, ObservedKeeps
  <2>2. events' \in 0 .. MaxEvents
    BY <1>3, EventCounted DEF LadderInv
  <2> QED
    BY <1>3, <2>1, <2>2, OnlyIdentities
<1>4. CASE \E m \in scan.match :
             Hydrate(m) \/ \E players \in SUBSET Participants[m] : HydrateRaises(m, players)
  <2>1. PICK m \in scan.match :
             Hydrate(m) \/ \E players \in SUBSET Participants[m] : HydrateRaises(m, players)
    BY <1>4
  <2>2. m \in 1 .. Played
    BY InvFacts DEF FetchingOK
  <2> QED
    BY <1>3, <2>1, <2>2 DEF Hydrate, HydrateRaises
<1>5. CASE \E m \in Matches : OthersSave(m)
  <2>1. PICK m \in Matches : OthersSave(m)
    BY <1>5
  <2>2. m \in 1 .. Played
    BY <2>1, InvFacts DEF OthersSave
  <2> QED
    BY <1>3, <2>1, <2>2 DEF OthersSave
<1>6. CASE BeginScan \/ PassEnds \/ LookUp \/ DetailsDone \/ LinksDone \/ Play
  BY <1>1, <1>6 DEF BeginScan, PassEnds, LookUp, DetailsDone, LinksDone, Play
<1>7. CASE \/ \E next \in scan.todo : NextPlayer(next)
           \/ \E page \in scan.page, n \in 0 .. Played : ReadPage(page, n)
           \/ \E p \in Players : SaveReferences(p) \/ Link(p) \/ LinkRefused(p)
           \/ \E m \in scan.details : SaveDetail(m)
  BY <1>1, <1>7 DEF NextPlayer, ReadPage, SaveReferences, Link, LinkRefused, SaveDetail
<1>8. CASE \/ FailScan
           \/ \E page \in scan.page :
                 PageRaises(page, {}) \/ \E n \in 0 .. Played : PageRaises(page, IdsOf(page, n))
           \/ \E m \in scan.details : DetailRaises(m)
           \/ \E p \in Players, start \in Starts : OthersFetchPage(p, start)
           \/ \E m \in Matches : DeleteMatch(m)
  BY <1>2, <1>8 DEF FailScan, PageRaises, DetailRaises, OthersFetchPage, DeleteMatch
<1> QED
  BY <1>4, <1>5, <1>6, <1>7, <1>8 DEF MatchesNext, ScanStep, Others

LEMMA MatchesKeepTypes == LadderInv /\ MatchInv /\ (MatchesNext \/ Others) => MatchInv'
<1> SUFFICES ASSUME LadderInv, MatchInv, MatchesNext \/ Others
             PROVE  MatchInv'
  OBVIOUS
<1>1. CASE \E page \in scan.page :
             PageRaises(page, {}) \/ \E n \in 0 .. Played : PageRaises(page, IdsOf(page, n))
  <2>1. {} \subseteq Listed \X (1 .. Played)
    OBVIOUS
  <2> QED
    BY <1>1, <2>1, PageIds, RaiseTypes
<1>2. CASE \E page \in scan.page, n \in 0 .. Played : ReadPage(page, n)
  BY <1>2, ReadTypes
<1>3. CASE \E m \in scan.match :
             Hydrate(m) \/ \E players \in SUBSET Participants[m] : HydrateRaises(m, players)
  BY <1>3, HydrateTypes
<1>4. CASE \E m \in scan.details : SaveDetail(m) \/ DetailRaises(m)
  BY <1>4, DetailTypes
<1>5. CASE \/ \E p \in Players, start \in Starts : OthersFetchPage(p, start)
           \/ \E m \in Matches : OthersSave(m) \/ DeleteMatch(m)
  <2>1. Frame /\ UNCHANGED <<references, scan, missed>>
    BY <1>5 DEF OthersFetchPage, OthersSave, DeleteMatch, Frame, tables
  <2> QED
    BY <1>5, <2>1, OthersTypes
<1>6. CASE BeginScan \/ PassEnds \/ LookUp \/ DetailsDone \/ LinksDone \/ Play
  BY <1>6, BeginTypes, PassTypes, LookUpTypes, DoneTypes, PlayTypes
<1>7. CASE \E next \in scan.todo : NextPlayer(next)
  BY <1>7, NextTypes
<1>8. CASE \E p \in Players : SaveReferences(p) \/ Link(p) \/ LinkRefused(p)
  BY <1>8, ReferenceTypes, LinkTypes, ScanFailsTypes
<1>9. CASE FailScan
  BY <1>9, ScanFailsTypes
<1> QED
  BY <1>1, <1>2, <1>3, <1>4, <1>5, <1>6, <1>7, <1>8, <1>9 DEF MatchesNext, ScanStep, Others

-----------------------------------------------------------------------------
(* The invariant of both halves, and what follows from it.                 *)

LEMMA InitLadder == Init => LadderInv /\ MatchInv
<1> SUFFICES ASSUME Init
             PROVE  LadderInv /\ MatchInv
  OBVIOUS
<1>1. PICK ladder \in Ladders :
         /\ target = {Row(p, Former, {}) : p \in ladder}
         /\ job = [j \in Jobs \cup {Former} |->
                      IF j = Former
                      THEN [Unused EXCEPT !.pc = "replaced", !.rows = target]
                      ELSE Unused]
  BY DEF Init, LadderInit
<1>2. now = 0 /\ identities = {} /\ events = 0
  BY DEF Init, LadderInit
<1> DEFINE former == [Unused EXCEPT !.pc = "replaced", !.rows = target]
<1>3. /\ target \subseteq Rows /\ Puuids(target) = ladder
      /\ \A r \in target : r.by = Former /\ r.name = {}
  <2>1. ladder \subseteq Players
    BY LadderConstantsOK
  <2>2. \A p \in ladder : Row(p, Former, {}) \in Rows /\ Row(p, Former, {}).puuid = p
    BY <2>1 DEF Row, Rows, Names
  <2>3. \A p : /\ Row(p, Former, {}).by = Former /\ Row(p, Former, {}).name = {}
               /\ Row(p, Former, {}).puuid = p
    BY DEF Row
  <2>4. target = {Row(p, Former, {}) : p \in ladder}
    BY <1>1
  <2>5. target \subseteq Rows /\ \A r \in target : r.by = Former /\ r.name = {}
    BY <2>2, <2>3, <2>4
  <2>6. Puuids(target) = ladder
    BY <2>3, <2>4 DEF Puuids
  <2> QED
    BY <2>5, <2>6
<1>4. /\ Unused \in JobRecords /\ Unused.pc = "idle" /\ Unused.rows = {} /\ Unused.begun = 0
      /\ Unused.locked = {} /\ Unused.doomed = {}
  BY DEF Unused, JobRecords
<1>5. /\ former \in JobRecords /\ former.pc = "replaced" /\ former.rows = target
      /\ former.begun = 0 /\ former.todo = {} /\ former.locked = {} /\ former.doomed = {}
  BY <1>3 DEF Unused, JobRecords
<1>6. AttemptOK(Former, former)
  <2>1. Puuids(former.rows) \cup former.todo \in Ladders
    BY <1>1, <1>3, <1>5
  <2>2. \A row \in former.rows : RowOK(Former, former.begun, row)
    BY <1>3, <1>5 DEF RowOK
  <2> QED
    BY <1>2, <1>5, <2>1, <2>2 DEF AttemptOK
<1>7. ASSUME NEW j \in Jobs
      PROVE  AttemptOK(j, Unused) /\ job[j] = Unused
  <2>1. job[j] = Unused
    BY <1>1, LadderConstantsOK
  <2>2. Unused.cur = {} /\ Unused.answer = {} /\ Unused.todo = {}
    BY DEF Unused
  <2>3. AttemptOK(j, Unused)
    BY <1>2, <1>4, <2>2 DEF AttemptOK, HasRows, HasLadder
  <2> QED
    BY <2>1, <2>3
<1>8. job[Former] = former /\ DOMAIN job = Attempts
  BY <1>1 DEF Attempts
<1> HIDE DEF former
<1>9. JobsOK
  <2>1. job \in [Attempts -> JobRecords]
    BY <1>1, <1>4, <1>5 DEF Attempts, former
  <2> QED
    BY <1>6, <1>7, <1>8, <2>1 DEF JobsOK, Attempts
<1>10. TargetInv
  BY <1>3, <1>4, <1>5, <1>7, <1>8 DEF TargetInv, TargetWhole, Replaced, AllOrNone
<1>11. LadderInv
  BY <1>2, <1>3, <1>9, <1>10, LadderConstantsOK DEF LadderInv, IdentitiesOK
<1>12. played = [m \in 1 .. FirstMatches |-> 0] /\ FirstMatches \in Nat
  BY MatchConstantsOK DEF Init
<1>13. played \in Seq(Nat) /\ Played = FirstMatches
  BY <1>12 DEF Played
<1>14. PlayedOK
  BY <1>13, MatchConstantsOK DEF PlayedOK
<1>15. TablesOK /\ ScanOK
  BY <1>14, NoScanOK DEF Init, TablesOK
<1> QED
  BY <1>11, <1>14, <1>15 DEF MatchInv

LEMMA NextKeeps == LadderInv /\ MatchInv /\ [Next]_vars => (LadderInv /\ MatchInv)'
<1> SUFFICES ASSUME LadderInv, MatchInv, [Next]_vars
             PROVE  LadderInv' /\ MatchInv'
  OBVIOUS
<1>1. CASE LaddersNext /\ UNCHANGED matchVars
  BY <1>1, LaddersKeep, LaddersTypes
<1>2. CASE MatchesNext \/ Others
  BY <1>2, MatchesKeepLadders, MatchesKeepTypes
<1>3. CASE UNCHANGED vars
  <2>1. IdentitiesOK' /\ events' \in 0 .. MaxEvents /\ UNCHANGED <<now, target, job>>
    BY <1>3, SameIdentities DEF vars, ladderVars, LadderInv
  <2>2. LadderInv'
    BY <2>1, OnlyIdentities
  <2>3. /\ UNCHANGED <<played, pages, references, stored, links, scan, missed>>
        /\ UNCHANGED Played /\ UNCHANGED Listed
    BY <1>3 DEF vars, ladderVars, matchVars, tables, Played, Listed
  <2>4. TablesOK' /\ ScanOK' /\ PlayedOK'
    BY <2>1, <2>3, InvFacts, SameTables, ScanSame DEF MatchInv, PlayedOK
  <2> QED
    BY <2>2, <2>4 DEF MatchInv
<1> QED
  BY <1>1, <1>2, <1>3 DEF Next

LEMMA InvAlways == Spec => [](LadderInv /\ MatchInv)
BY InitLadder, NextKeeps, PTL DEF Spec

\* The tables, the attempts and the scan stay in their types.
THEOREM LadderTypes == Spec => []TypeOK
BY InvAlways, TypesHold, PTL

\* Whatever attempts overlap, fail and are refused by the unique index, the
\* stored ladder is the whole list of one attempt that got to its end.
THEOREM WholeLadderStored == Spec => []TargetWhole
<1>1. LadderInv => TargetWhole
  BY DEF LadderInv, TargetInv
<1> QED
  BY <1>1, InvAlways, PTL

\* Whoever wrote the identity it was taken from, a published name was true no
\* longer before its fetch began than an identity and an account may be old.
THEOREM PublishedNamesTrue == Spec => []PublishedNameRecent
<1>1. LadderInv => PublishedNameRecent
  <2> SUFFICES ASSUME LadderInv, NEW r \in target, NEW t \in r.name
               PROVE  t + MaxAge + CacheAge >= job[r.by].begun
    BY DEF PublishedNameRecent
  <2>1. PICK j \in Attempts : target = job[j].rows
    BY DEF LadderInv, TargetInv, TargetWhole, Attempts
  <2>2. RowOK(j, job[j].begun, r)
    BY <2>1, JobFacts DEF AttemptOK
  <2> QED
    BY <2>2 DEF RowOK
<1> QED
  BY <1>1, InvAlways, PTL

-----------------------------------------------------------------------------
(***************************************************************************)
(* The scan overlooks nothing.  As for a profile fetch, the argument is    *)
(* about positions in the list of a player, which only grow from an older  *)
(* page to a newer one: while a player is scanned, some page at hand       *)
(* begins no later than the first match that is not found yet.  A page     *)
(* that is older than the one before breaks this, and the player counts as *)
(* missed; so does a player whose page is given up, as unread.             *)
(***************************************************************************)
Reaches(page, p) ==
    /\ page.player = p /\ page.age >= scan.base
    /\ \A m \in ListAt(p, scan.base) :
          m \in Found(p) \/ CountAbove(m, ListAt(p, page.age)) >= page.start

Covered(p) ==
    \/ ListAt(p, scan.base) \subseteq Found(p)
    \/ \E page \in AtHand : Reaches(page, p)

CoverInv ==
    /\ scan.pc = "scan" => \A p \in Listed \ missed : Covered(p)
    /\ ScanComplete

LEMMA ListFacts ==
    ASSUME NEW p, NEW a \in Nat, NEW n \in Nat, a <= n
    PROVE  /\ ListAt(p, n) \in SUBSET (1 .. n)
           /\ ListAt(p, a) \in SUBSET (1 .. a) /\ ListAt(p, a) \in SUBSET ListAt(p, n)
BY DEF ListAt

LEMMA PageIs ==
    ASSUME NEW p, NEW start \in Nat, NEW n \in Nat
    PROVE  PageAt(p, start, n) = Slice(ListAt(p, n), start, PageSize)
<1>1. ASSUME NEW m
      PROVE  Cardinality({k \in ListAt(p, n) : k > m}) = CountAbove(m, ListAt(p, n))
             /\ CountAbove(m, ListAt(p, n)) \in Nat
  <2>1. ListAt(p, n) \in SUBSET (1 .. n)
    BY ListFacts
  <2> QED
    BY <2>1, AboveFinite DEF CountAbove, Above
<1>2. PageSize \in Nat
  BY MatchConstantsOK
<1> QED
  BY <1>1, <1>2 DEF PageAt, Slice

\* The heart of the argument: a match the page does not show is behind the
\* end of the page, which then is full.
LEMMA PageReaches ==
    ASSUME NEW p, NEW base \in Nat, NEW age \in Nat, NEW n \in Nat, NEW start \in Nat,
           base <= age, age <= n, NEW m \in ListAt(p, base),
           CountAbove(m, ListAt(p, age)) >= start, m \notin PageAt(p, start, n)
    PROVE  /\ CountAbove(m, ListAt(p, n)) >= start + PageSize
           /\ Cardinality(PageAt(p, start, n)) = PageSize
<1> DEFINE S == ListAt(p, n)
           T == ListAt(p, age)
<1>1. /\ S \in SUBSET (1 .. n) /\ T \in SUBSET S /\ T \in SUBSET (1 .. n) /\ m \in S
      /\ PageAt(p, start, n) = Slice(S, start, PageSize)
  <2>1. base <= n
    OBVIOUS
  <2> QED
    BY <2>1, ListFacts, PageIs
<1> HIDE DEF S, T
<1>2. CountAbove(m, T) \in Nat /\ CountAbove(m, S) \in Nat
  BY <1>1, AboveFinite
<1>3. CountAbove(m, T) <= CountAbove(m, S)
  BY <1>1, AboveGrows
<1>4. PageSize \in Nat
  BY MatchConstantsOK
<1>5. CountAbove(m, T) >= start
  BY DEF T
<1>6. CountAbove(m, S) >= start + PageSize
  BY <1>1, <1>2, <1>3, <1>4, <1>5 DEF Slice
<1>7. Cardinality(Slice(S, start, PageSize)) = PageSize
  <2>1. start + PageSize <= CountAbove(m, S)
    BY <1>2, <1>4, <1>6
  <2> QED
    BY <1>1, <1>4, <2>1, SliceFull
<1> QED
  BY <1>1, <1>6, <1>7 DEF S

LEMMA FoundIs ==
    ASSUME NEW p, NEW m \in Matches
    PROVE  m \in Found(p) <=> <<p, m>> \in scan.found
BY DEF Found

\* More is found and no page is dropped.
LEMMA CoveredKept ==
    ASSUME UNCHANGED scan.base, scan.found \subseteq scan'.found
    PROVE  /\ \A p : Found(p) \subseteq Found(p)'
           /\ \A page, p : Reaches(page, p) => Reaches(page, p)'
           /\ AtHand \subseteq AtHand' => \A p : Covered(p) => Covered(p)'
<1>1. \A p : Found(p) \subseteq Found(p)'
  BY DEF Found
<1>2. \A page, p : Reaches(page, p) => Reaches(page, p)'
  BY <1>1 DEF Reaches
<1> QED
  BY <1>1, <1>2 DEF Covered

LEMMA CoverKept ==
    ASSUME CoverInv, UNCHANGED <<scan.base, scan.unread>>, UNCHANGED Listed,
           scan.found \subseteq scan'.found, AtHand \subseteq AtHand', missed \subseteq missed',
           \/ scan'.pc = scan.pc
           \/ scan.pc \in Later /\ scan'.pc \in Later
           \/ scan'.pc = "failed"
    PROVE  CoverInv'
<1>1. \A p : Found(p) \subseteq Found(p)'
  BY CoveredKept
<1>2. \A p : Covered(p) => Covered(p)'
  BY CoveredKept
<1>3. scan'.pc = "scan" => \A p \in Listed' \ missed' : Covered(p)'
  BY <1>2 DEF CoverInv, Later
<1>4. ScanComplete'
  BY <1>1 DEF CoverInv, ScanComplete, Later
<1> QED
  BY <1>3, <1>4 DEF CoverInv

LEMMA BeginCovers ==
    ASSUME LadderInv, MatchInv, BeginScan
    PROVE  CoverInv'
<1>1. Frame /\ Played \in Nat
  BY InvFacts DEF BeginScan, Frame, ladderVars
<1>2. UNCHANGED Listed
  BY <1>1, FrameFacts
<1>3. /\ scan'.pc = "scan" /\ scan'.base = Played
      /\ scan'.todo = {[player |-> p, start |-> 0, age |-> Played] : p \in Listed}
  BY InvFacts, BeginFields
<1>4. ASSUME NEW p \in Listed
      PROVE  Covered(p)'
  <2>1. PICK page \in scan'.todo : page.player = p /\ page.start = 0 /\ page.age = Played
    <3> DEFINE first == [player |-> p, start |-> 0, age |-> Played]
    <3>1. first.player = p /\ first.start = 0 /\ first.age = Played
      OBVIOUS
    <3>2. first \in scan'.todo
      BY <1>3
    <3> QED
      BY <3>1, <3>2
  <2>2. page \in AtHand'
    BY DEF AtHand
  <2>3. \A m : CountAbove(m, ListAt(p, Played)) \in Nat
    <3>1. ListAt(p, Played) \in SUBSET (1 .. Played)
      BY <1>1, ListFacts
    <3> QED
      BY <1>1, <3>1, AboveFinite
  <2>4. Reaches(page, p)'
    BY <1>1, <1>3, <2>1, <2>3 DEF Reaches
  <2> QED
    BY <2>2, <2>4 DEF Covered
<1> QED
  BY <1>2, <1>3, <1>4 DEF CoverInv, ScanComplete

LEMMA ReadCovers ==
    ASSUME LadderInv, MatchInv, CoverInv, NEW page \in scan.page, NEW n \in 0 .. Played,
           ReadPage(page, n)
    PROVE  CoverInv'
<1> USE InvFacts
<1>1. /\ Frame /\ scan.pc = "scan"
      /\ missed' = IF n < page.age THEN missed \cup {page.player} ELSE missed
  BY DEF ReadPage, Frame, ladderVars
<1>2. UNCHANGED Played /\ UNCHANGED Listed
  BY <1>1, FrameFacts
<1>3. page \in PageRecords /\ page.start \in Nat /\ page.age \in Nat
  BY DEF PagingOK, PageOK, PageRecords, AtHand
<1>4. /\ scan'.found = scan.found \cup IdsOf(page, n) /\ scan'.page = NextPage(page, n)
      /\ UNCHANGED <<scan.pc, scan.todo, scan.failed, scan.base>>
  BY ReadFields
<1>5. scan.base \in Nat /\ scan.base <= Played /\ n \in Nat
  BY DEF ResultOK
<1>6. ASSUME NEW p, NEW other \in AtHand, other # page, Reaches(other, p)
      PROVE  Covered(p)'
  <2>1. other \in AtHand'
    BY <1>4, <1>6 DEF AtHand, PagingOK
  <2>2. Reaches(other, p)'
    BY <1>4, <1>6, CoveredKept
  <2> QED
    BY <2>1, <2>2 DEF Covered
<1>7. ASSUME NEW p, Reaches(page, p), ~(n < page.age)
      PROVE  Covered(p)'
  <2> DEFINE found == PageAt(p, page.start, n)
  <2>1. page.player = p /\ scan.base <= page.age /\ page.age <= n
    BY <1>3, <1>5, <1>7 DEF Reaches
  <2>2. ASSUME NEW m \in ListAt(p, scan.base), m \notin Found(p)'
        PROVE  CountAbove(m, ListAt(p, n)) >= page.start + PageSize /\ Cardinality(found) = PageSize
    <3>1. m \in Matches
      BY <1>5 DEF ListAt
    <3>2. m \notin Found(p) /\ m \notin found
      <4>1. <<p, m>> \notin scan'.found
        BY <2>2, <3>1 DEF Found
      <4> QED
        BY <1>4, <2>1, <4>1 DEF Found, IdsOf
    <3>3. CountAbove(m, ListAt(p, page.age)) >= page.start
      BY <1>7, <3>2 DEF Reaches
    <3> QED
      BY <1>3, <1>5, <2>1, <3>2, <3>3, PageReaches
  <2>3. CASE ListAt(p, scan.base) \subseteq Found(p)'
    BY <1>4, <2>3 DEF Covered
  <2>4. CASE ~(ListAt(p, scan.base) \subseteq Found(p)')
    <3>1. Cardinality(found) = PageSize
      BY <2>2, <2>4
    <3>2. PICK next \in NextPage(page, n) :
             next.player = p /\ next.start = page.start + PageSize /\ next.age = n
      <4> DEFINE new == [page EXCEPT !.start = page.start + PageSize, !.age = n]
      <4>1. new.player = p /\ new.start = page.start + PageSize /\ new.age = n
        BY <1>3, <2>1 DEF PageRecords
      <4>2. new \in NextPage(page, n)
        BY <2>1, <3>1, MatchConstantsOK DEF NextPage
      <4> QED
        BY <4>1, <4>2
    <3>3. Reaches(next, p)'
      BY <1>3, <1>4, <1>5, <2>1, <2>2, <3>2 DEF Reaches
    <3>4. next \in AtHand'
      BY <1>4, <3>2 DEF AtHand
    <3> QED
      BY <3>3, <3>4 DEF Covered
  <2> QED
    BY <2>3, <2>4
<1>8. ASSUME NEW p \in Listed \ missed'
      PROVE  Covered(p)'
  <2>1. p \in Listed \ missed /\ (n < page.age => p # page.player)
    BY <1>1
  <2>2. Covered(p)
    BY <1>1, <2>1 DEF CoverInv
  <2>3. CASE ListAt(p, scan.base) \subseteq Found(p)
    <3>1. Found(p) \subseteq Found(p)'
      BY <1>4, CoveredKept
    <3> QED
      BY <1>4, <2>3, <3>1 DEF Covered
  <2>4. CASE \E other \in AtHand : Reaches(other, p)
    BY <1>6, <1>7, <2>1, <2>4 DEF Reaches
  <2> QED
    BY <2>2, <2>3, <2>4 DEF Covered
<1> QED
  BY <1>1, <1>2, <1>4, <1>8 DEF CoverInv, ScanComplete

LEMMA PassCovers ==
    ASSUME LadderInv, MatchInv, CoverInv, PassEnds
    PROVE  CoverInv'
<1> USE InvFacts
<1>1. Frame /\ scan.pc = "scan" /\ scan.page = {} /\ scan.todo = {} /\ UNCHANGED missed
  BY DEF PassEnds, Frame, ladderVars
<1>2. UNCHANGED Listed
  BY <1>1, FrameFacts
<1>3. UNCHANGED <<scan.page, scan.base, scan.found>>
  BY PassFields
<1>4. CASE scan'.pc = "references" /\ scan'.unread = {page.player : page \in scan.failed}
  <2>1. ASSUME NEW p \in Listed \ (scan'.unread \cup missed)
        PROVE  ListAt(p, scan.base) \subseteq Found(p)
    <3>1. Covered(p)
      BY <1>1, <2>1 DEF CoverInv
    <3>2. \A page \in AtHand : ~Reaches(page, p)
      BY <1>1, <1>4, <2>1 DEF AtHand, Reaches
    <3> QED
      BY <3>1, <3>2 DEF Covered
  <2>2. \A p : Found(p)' = Found(p)
    BY <1>3 DEF Found
  <2>3. ScanComplete'
    BY <1>1, <1>2, <1>3, <2>1, <2>2 DEF ScanComplete
  <2> QED
    BY <1>4, <2>3 DEF CoverInv
<1>5. CASE scan'.todo = scan.todo \cup scan.failed /\ UNCHANGED <<scan.pc, scan.unread>>
  <2>1. AtHand \subseteq AtHand'
    BY <1>3, <1>5 DEF AtHand
  <2> QED
    BY <1>1, <1>2, <1>3, <1>5, <2>1, CoverKept
<1> QED
  BY <1>4, <1>5, PassFields

\* Other steps of the scan drop no page.
LEMMA ScanCovers ==
    ASSUME LadderInv, MatchInv, CoverInv, FailScan \/ ScanStep,
           ~BeginScan, ~PassEnds, \A page \in scan.page, n \in 0 .. Played : ~ReadPage(page, n)
    PROVE  CoverInv'
<1> USE InvFacts
<1>1. Frame /\ UNCHANGED missed
  BY DEF FailScan, ScanStep, LookUp, DetailsDone, LinksDone, NextPlayer, PageRaises,
         SaveReferences, Link, LinkRefused, SaveDetail, DetailRaises, Hydrate, HydrateRaises,
         Frame, ladderVars
<1>2. UNCHANGED Listed
  BY <1>1, FrameFacts
<1>3. ASSUME UNCHANGED paging, UNCHANGED result,
             scan'.pc = scan.pc \/ (scan.pc \in Later /\ scan'.pc \in Later) \/ scan'.pc = "failed"
      PROVE  CoverInv'
  <2>1. AtHand' = AtHand /\ UNCHANGED <<scan.base, scan.found, scan.unread>>
    BY <1>3 DEF paging, result, AtHand
  <2> QED
    BY <1>1, <1>2, <1>3, <2>1, CoverKept
<1>4. CASE \E next \in scan.todo : NextPlayer(next)
  <2>1. PICK next \in scan.todo : NextPlayer(next)
    BY <1>4
  <2>2. /\ scan.page = {} /\ scan'.page = {next} /\ scan'.todo = scan.todo \ {next}
        /\ UNCHANGED <<scan.pc, scan.failed, scan.base, scan.found, scan.unread>>
    BY <2>1, NextFields DEF NextPlayer, result
  <2>3. AtHand \subseteq AtHand'
    BY <2>2 DEF AtHand
  <2> QED
    BY <1>1, <1>2, <2>2, <2>3, CoverKept
<1>5. CASE \E page \in scan.page :
             PageRaises(page, {}) \/ \E n \in 0 .. Played : PageRaises(page, IdsOf(page, n))
  <2>1. PICK page \in scan.page : \E ids : PageRaises(page, ids)
    BY <1>5
  <2>2. PICK ids : PageRaises(page, ids)
    BY <2>1
  <2>3. /\ scan'.found = scan.found \cup ids
        /\ scan'.page = {} /\ scan'.failed = scan.failed \cup {page}
        /\ UNCHANGED <<scan.pc, scan.todo, scan.base, scan.unread>>
    BY <2>2, RaiseFields
  <2>4. AtHand \subseteq AtHand'
    BY <2>3 DEF AtHand, PagingOK
  <2> QED
    BY <1>1, <1>2, <2>3, <2>4, CoverKept
<1>6. CASE \E p \in Players : SaveReferences(p) \/ Link(p) \/ LinkRefused(p)
  BY <1>3, <1>6, ReferenceFields, EndFields DEF LinkRefused
<1>7. CASE LookUp \/ DetailsDone \/ LinksDone \/ FailScan
  BY <1>3, <1>7, LookUpFields, DoneFields, EndFields
     DEF LookUp, DetailsDone, LinksDone, FailScan, Later
<1>8. CASE \E m \in scan.details : SaveDetail(m) \/ DetailRaises(m)
  BY <1>3, <1>8, DetailFields DEF SaveDetail, DetailRaises, Later
<1>9. CASE \E m \in scan.match :
             Hydrate(m) \/ \E players \in SUBSET Participants[m] : HydrateRaises(m, players)
  BY <1>3, <1>9, HydrateFields DEF Hydrate, HydrateRaises, Later
<1> QED
  BY <1>4, <1>5, <1>6, <1>7, <1>8, <1>9 DEF ScanStep

\* A step that leaves the scan alone.
LEMMA ScanStays ==
    ASSUME LadderInv, MatchInv, [Next]_vars
    PROVE  \/ FailScan \/ ScanStep
           \/ UNCHANGED <<scan, missed, references>> /\ (scan.pc = "idle" \/ UNCHANGED Listed)
<1>1. CASE LaddersNext /\ UNCHANGED matchVars
  <2>1. CASE scan.pc = "idle"
    BY <1>1, <2>1 DEF matchVars, tables
  <2>2. CASE scan.pc # "idle"
    <3>1. job[MatchJob].pc = "replaced"
      BY <2>2, InvFacts DEF PhaseOK
    <3>2. job'[MatchJob] = job[MatchJob]
      BY <1>1, <3>1, ReplacedStays, MatchConstantsOK, AttemptIs
    <3> QED
      BY <1>1, <3>2 DEF matchVars, tables, Listed
  <2> QED
    BY <2>1, <2>2
<1>2. CASE \/ Others
           \/ \E p \in Players, start \in Starts : OthersFetchPage(p, start)
           \/ \E m \in Matches : DeleteMatch(m)
  BY <1>2 DEF Others, Play, OthersSave, OthersFetchPage, DeleteMatch, ladderVars, tables, Listed
<1>3. CASE UNCHANGED vars
  BY <1>3 DEF vars, ladderVars, matchVars, tables, Listed
<1> QED
  BY <1>1, <1>2, <1>3 DEF Next, MatchesNext

LEMMA NextCovers == LadderInv /\ MatchInv /\ CoverInv /\ [Next]_vars => CoverInv'
<1> SUFFICES ASSUME LadderInv, MatchInv, CoverInv, [Next]_vars
             PROVE  CoverInv'
  OBVIOUS
<1>1. CASE BeginScan \/ PassEnds \/ \E page \in scan.page, n \in 0 .. Played : ReadPage(page, n)
  BY <1>1, BeginCovers, PassCovers, ReadCovers
<1>2. CASE ~BeginScan /\ ~PassEnds /\ (FailScan \/ ScanStep)
           /\ \A page \in scan.page, n \in 0 .. Played : ~ReadPage(page, n)
  BY <1>2, ScanCovers
<1>3. CASE UNCHANGED <<scan, missed>> /\ UNCHANGED Listed
  <2>1. AtHand' = AtHand
    BY <1>3 DEF AtHand
  <2> QED
    BY <1>3, <2>1, CoverKept
<1>4. CASE UNCHANGED <<scan, missed>> /\ scan.pc = "idle"
  BY <1>4 DEF CoverInv, ScanComplete
<1> QED
  BY <1>1, <1>2, <1>3, <1>4, ScanStays

\* Of a player whose ids the result does not report as an error, and whose
\* pages did not go back in time, every match that had been played when the
\* scan began has been found, however many were played between two pages or
\* two passes, and whatever pages failed on the way.
THEOREM ScanOverlooksNothing == Spec => []ScanComplete
<1>1. Init => CoverInv
  BY DEF Init, NoScan, CoverInv, ScanComplete
<1>2. CoverInv => ScanComplete
  BY DEF CoverInv
<1> QED
  BY <1>1, <1>2, NextCovers, InvAlways, PTL DEF Spec

-----------------------------------------------------------------------------
(***************************************************************************)
(* Nothing found is lost.  A match that was found is at every phase        *)
(* somewhere: among the references or of a player left to write; with its  *)
(* detail, left to fetch, at hand or reported; linked, deleted by the      *)
(* manager, reported, or of a player left to link.                         *)
(***************************************************************************)
KeptInv ==
    /\ scan.pc = "references" => \A f \in scan.found : f[1] \in scan.left \/ f \in references
    /\ scan.pc \in Later \ {"references"} => scan.found \subseteq references
    /\ scan.pc \in {"details", "hydrate"} =>
          FoundMatches \subseteq scan.available \cup scan.details \cup scan.match \cup scan.unfetched
    /\ scan.pc = "link" => FoundMatches \subseteq scan.available \cup scan.unfetched
    /\ scan.pc \in {"link", "done"} =>
          \A f \in scan.found :
             \/ f \in links \cup removed \/ f[2] \in scan.unfetched
             \/ scan.pc = "link" /\ f[1] \in scan.left

LEMMA FoundPairs ==
    ASSUME LadderInv, MatchInv
    PROVE  /\ \A f \in scan.found : /\ f = <<f[1], f[2]>> /\ f[1] \in Listed /\ f[1] \in Players
                                    /\ f[2] \in FoundMatches /\ f[2] \in Found(f[1])
<1> SUFFICES ASSUME NEW f \in scan.found
             PROVE  /\ f = <<f[1], f[2]>> /\ f[1] \in Listed /\ f[1] \in Players
                    /\ f[2] \in FoundMatches /\ f[2] \in Found(f[1])
  OBVIOUS
<1>1. f = <<f[1], f[2]>> /\ f[1] \in Listed /\ f[1] \in Players /\ f[2] \in Matches
  BY InvFacts DEF ResultOK
<1>2. f[2] \in FoundMatches
  BY DEF FoundMatches
<1>3. f[2] \in Found(f[1])
  BY <1>1 DEF Found
<1> QED
  BY <1>1, <1>2, <1>3

\* What is kept stays kept while only the tables grow.
LEMMA KeptStays ==
    ASSUME KeptInv, UNCHANGED scan, references \subseteq references',
           links \cup removed \subseteq links' \cup removed'
    PROVE  KeptInv'
BY DEF KeptInv, FoundMatches

\* The steps before the references are written, and failures.
LEMMA PagesKept ==
    ASSUME LadderInv, MatchInv,
           scan'.pc \in {"scan", "failed"} \/ (PassEnds /\ scan'.pc = "references")
    PROVE  KeptInv'
<1>1. CASE scan'.pc \in {"scan", "failed"}
  BY <1>1 DEF KeptInv, Later
<1>2. CASE PassEnds /\ scan'.pc = "references"
  <2>1. scan.pc = "scan"
    BY <1>2 DEF PassEnds
  <2>2. scan'.left = Listed /\ scan'.found = scan.found
    BY <1>2, <2>1, InvFacts, PassFields
  <2> QED
    BY <1>2, <2>2, FoundPairs DEF KeptInv, Later
<1> QED
  BY <1>1, <1>2

LEMMA ReferencesKept ==
    ASSUME LadderInv, MatchInv, KeptInv, NEW p \in Players, SaveReferences(p)
    PROVE  KeptInv'
<1>1. scan.pc = "references" /\ references' = references \cup ({p} \X Found(p))
  BY DEF SaveReferences
<1>2. scan'.left = scan.left \ {p} /\ UNCHANGED <<scan.pc, scan.found>>
  BY InvFacts, ReferenceFields DEF result
<1>3. ASSUME NEW f \in scan.found
      PROVE  f[1] \in scan'.left \/ f \in references'
  <2>1. f[1] \in scan.left \/ f \in references
    BY <1>1 DEF KeptInv
  <2>2. CASE f[1] = p
    BY <1>1, <2>2, FoundPairs
  <2>3. CASE f[1] # p
    BY <1>1, <1>2, <2>1, <2>3
  <2> QED
    BY <2>2, <2>3
<1> QED
  BY <1>1, <1>2, <1>3 DEF KeptInv, Later

LEMMA LookUpKept ==
    ASSUME LadderInv, MatchInv, KeptInv, LookUp
    PROVE  KeptInv'
<1>1. scan.pc = "references" /\ scan.left = {} /\ UNCHANGED references
  BY DEF LookUp, tables
<1>2. /\ scan'.pc = "details" /\ scan'.available = FoundMatches \cap stored
      /\ scan'.details = FoundMatches \ stored /\ UNCHANGED scan.found
  BY InvFacts, LookUpFields DEF result
<1>3. scan'.found \subseteq references'
  BY <1>1, <1>2 DEF KeptInv
<1>4. FoundMatches' = FoundMatches
  BY <1>2 DEF FoundMatches
<1> QED
  BY <1>2, <1>3, <1>4 DEF KeptInv

\* A match at hand is available or reported afterwards.
LEMMA DetailsKept ==
    ASSUME LadderInv, MatchInv, KeptInv,
           \/ \E m \in scan.details : SaveDetail(m) \/ DetailRaises(m)
           \/ \E m \in scan.match :
                 Hydrate(m) \/ \E players \in SUBSET Participants[m] : HydrateRaises(m, players)
    PROVE  KeptInv'
<1> DEFINE all == scan.available \cup scan.details \cup scan.match \cup scan.unfetched
<1>1. /\ scan.pc \in {"details", "hydrate"} /\ UNCHANGED references
      /\ (scan.pc = "details" => scan.match = {})
  BY InvFacts DEF SaveDetail, DetailRaises, Hydrate, HydrateRaises, PhaseOK, tables
<1>2. UNCHANGED scan.found /\ scan'.pc \in {"details", "hydrate"}
  BY <1>1, InvFacts, DetailFields, HydrateFields DEF result
<1>3. all \subseteq all'
  <2>1. CASE \E m \in scan.details : SaveDetail(m) \/ DetailRaises(m)
    <3>1. PICK m \in scan.details : SaveDetail(m) \/ DetailRaises(m)
      BY <2>1
    <3>2. scan.match = {}
      BY <1>1, <3>1 DEF SaveDetail, DetailRaises
    <3>3. /\ scan'.details = scan.details \ {m} /\ scan'.available = scan.available
          /\ scan.unfetched \subseteq scan'.unfetched /\ m \in scan'.match \cup scan'.unfetched
      BY <3>1, InvFacts, DetailFields
    <3> QED
      BY <3>2, <3>3
  <2>2. CASE \E m \in scan.match :
                Hydrate(m) \/ \E players \in SUBSET Participants[m] : HydrateRaises(m, players)
    <3>1. PICK m \in scan.match :
             Hydrate(m) \/ \E players \in SUBSET Participants[m] : HydrateRaises(m, players)
      BY <2>2
    <3>2. PICK players : Hydrate(m) \/ HydrateRaises(m, players)
      BY <3>1
    <3>3. scan.match = {m}
      BY InvFacts DEF FetchingOK
    <3>4. /\ scan'.details = scan.details /\ scan.available \subseteq scan'.available
          /\ scan.unfetched \subseteq scan'.unfetched /\ m \in scan'.available \cup scan'.unfetched
      BY <3>2, InvFacts, HydrateFields
    <3> QED
      BY <3>3, <3>4
  <2> QED
    BY <2>1, <2>2
<1>4. FoundMatches' = FoundMatches
  BY <1>2 DEF FoundMatches
<1>5. FoundMatches \subseteq all /\ scan.found \subseteq references
  BY <1>1 DEF KeptInv, Later
<1> QED
  BY <1>1, <1>2, <1>3, <1>4, <1>5 DEF KeptInv

LEMMA DetailsDoneKept ==
    ASSUME LadderInv, MatchInv, KeptInv, DetailsDone
    PROVE  KeptInv'
<1>1. scan.pc = "details" /\ scan.details = {} /\ scan.match = {} /\ UNCHANGED references
  BY InvFacts DEF DetailsDone, PhaseOK, tables
<1>2. /\ scan'.pc = "link" /\ scan'.left = Listed
      /\ UNCHANGED <<scan.found, scan.available, scan.unfetched>>
  BY InvFacts, DoneFields DEF result, fetching
<1>3. scan.found \subseteq references /\ FoundMatches \subseteq scan.available \cup scan.unfetched
  BY <1>1 DEF KeptInv, Later
<1>4. FoundMatches' = FoundMatches
  BY <1>2 DEF FoundMatches
<1> QED
  BY <1>1, <1>2, <1>3, <1>4, FoundPairs DEF KeptInv

LEMMA LinkKept ==
    ASSUME LadderInv, MatchInv, KeptInv, NEW p \in Players, Link(p)
    PROVE  KeptInv'
<1>1. /\ scan.pc = "link" /\ UNCHANGED <<references, removed>>
      /\ links' = links \cup ({p} \X (Found(p) \cap scan.available))
  BY DEF Link
<1>2. scan'.left = scan.left \ {p} /\ UNCHANGED <<scan.pc, scan.found, scan.available, scan.unfetched>>
  BY InvFacts, ReferenceFields DEF result, fetching
<1>3. FoundMatches' = FoundMatches
  BY <1>2 DEF FoundMatches
<1>4. ASSUME NEW f \in scan.found
      PROVE  f \in links' \cup removed' \/ f[2] \in scan'.unfetched \/ f[1] \in scan'.left
  <2>1. f \in links \cup removed \/ f[2] \in scan.unfetched \/ f[1] \in scan.left
    BY <1>1 DEF KeptInv
  <2>2. CASE f[1] = p
    <3>1. f[2] \in scan.available \cup scan.unfetched
      BY <1>1, FoundPairs DEF KeptInv
    <3>2. f[2] \in scan.available => f \in links'
      BY <1>1, <2>2, FoundPairs
    <3> QED
      BY <1>2, <3>1, <3>2
  <2>3. CASE f[1] # p
    BY <1>1, <1>2, <2>1, <2>3
  <2> QED
    BY <2>2, <2>3
<1>5. scan.found \subseteq references /\ FoundMatches \subseteq scan.available \cup scan.unfetched
  BY <1>1 DEF KeptInv, Later
<1> QED
  BY <1>1, <1>2, <1>3, <1>4, <1>5 DEF KeptInv

LEMMA LinksDoneKept ==
    ASSUME LadderInv, MatchInv, KeptInv, LinksDone
    PROVE  KeptInv'
<1>1. scan.pc = "link" /\ scan.left = {} /\ UNCHANGED <<references, links, removed>>
  BY DEF LinksDone, tables
<1>2. scan'.pc = "done" /\ UNCHANGED <<scan.found, scan.unfetched>>
  BY InvFacts, EndFields DEF result, fetching
<1> QED
  BY <1>1, <1>2 DEF KeptInv, Later

\* The manager deletes a match with its links, others write around the scan.
LEMMA OthersKept ==
    ASSUME LadderInv, MatchInv, KeptInv, UNCHANGED <<scan, references>>, [Next]_vars
    PROVE  KeptInv'
<1>1. links \cup removed \subseteq links' \cup removed'
  <2>1. CASE \E m \in Matches : DeleteMatch(m)
    <3>1. PICK m \in Matches : DeleteMatch(m)
      BY <2>1
    <3>2. links' = {l \in links : l[2] # m} /\ removed' = removed \cup (Players \X {m})
      BY <3>1 DEF DeleteMatch
    <3>3. \A l \in links : l = <<l[1], l[2]>> /\ l[1] \in Players
      BY InvFacts DEF TablesOK
    <3> QED
      BY <3>2, <3>3
  <2>2. CASE ~(\E m \in Matches : DeleteMatch(m))
    <3>1. CASE UNCHANGED vars \/ (LaddersNext /\ UNCHANGED matchVars)
      BY <3>1 DEF vars, matchVars, tables
    <3>2. CASE Others \/ FailScan \/ \E p \in Players, start \in Starts : OthersFetchPage(p, start)
      BY <3>2 DEF Others, Play, OthersSave, OthersFetchPage, FailScan, tables
    <3>3. CASE ScanStep
      BY <3>3 DEF ScanStep, BeginScan, PassEnds, LookUp, DetailsDone, LinksDone, NextPlayer,
                  ReadPage, PageRaises, SaveReferences, Link, LinkRefused, SaveDetail,
                  DetailRaises, Hydrate, HydrateRaises, tables
    <3> QED
      BY <2>2, <3>1, <3>2, <3>3 DEF Next, MatchesNext
  <2> QED
    BY <2>1, <2>2
<1> QED
  BY <1>1, KeptStays

LEMMA NextKept == LadderInv /\ MatchInv /\ KeptInv /\ [Next]_vars => KeptInv'
<1> SUFFICES ASSUME LadderInv, MatchInv, KeptInv, [Next]_vars
             PROVE  KeptInv'
  OBVIOUS
<1>1. CASE BeginScan
  BY <1>1, InvFacts, BeginFields, PagesKept
<1>2. CASE PassEnds
  <2>1. scan'.pc \in {"scan", "references"}
    BY <1>2, InvFacts, PassFields DEF PassEnds
  <2> QED
    BY <1>2, <2>1, PagesKept
<1>3. CASE \/ \E next \in scan.todo : NextPlayer(next)
           \/ \E page \in scan.page, n \in 0 .. Played : ReadPage(page, n)
           \/ \E page \in scan.page : \E ids : PageRaises(page, ids)
  <2>1. scan'.pc = scan.pc /\ scan.pc = "scan"
    BY <1>3, InvFacts, NextFields, ReadFields, RaiseFields DEF NextPlayer, ReadPage, PageRaises
  <2> QED
    BY <2>1, PagesKept
<1>4. CASE FailScan \/ \E p \in Players : LinkRefused(p)
  BY <1>4, InvFacts, EndFields, PagesKept DEF FailScan, LinkRefused
<1>5. CASE \E p \in Players : SaveReferences(p) \/ Link(p)
  BY <1>5, ReferencesKept, LinkKept
<1>6. CASE LookUp \/ DetailsDone \/ LinksDone
  BY <1>6, LookUpKept, DetailsDoneKept, LinksDoneKept
<1>7. CASE \/ \E m \in scan.details : SaveDetail(m) \/ DetailRaises(m)
           \/ \E m \in scan.match :
                 Hydrate(m) \/ \E players \in SUBSET Participants[m] : HydrateRaises(m, players)
  BY <1>7, DetailsKept
<1>8. CASE UNCHANGED <<scan, references>>
  BY <1>8, OthersKept
<1>9. FailScan \/ ScanStep \/ UNCHANGED <<scan, references>>
  BY ScanStays
<1> QED
  BY <1>1, <1>2, <1>3, <1>4, <1>5, <1>6, <1>7, <1>8, <1>9 DEF ScanStep

\* What a job found it keeps as references, and each player it found it for
\* is linked to the match, unless the result reports the match as an error or
\* the manager deleted it: whatever fails half way, and whoever writes the
\* same tables meanwhile.
THEOREM NothingFoundIsLost == Spec => []FoundIsKept
<1>1. Init => KeptInv
  BY DEF Init, NoScan, KeptInv, Later
<1>2. KeptInv => FoundIsKept
  BY DEF KeptInv, FoundIsKept, Later
<1> QED
  BY <1>1, <1>2, NextKept, InvAlways, PTL DEF Spec

=============================================================================
