------------------------- MODULE MatchHistoryProofs -------------------------
(***************************************************************************)
(* Theorems of MatchHistory: its types, that what a job reports is in the  *)
(* tables, and that paging misses no match newer than the known history,   *)
(* for any number of players, matches, attempts and disturbances.          *)
(***************************************************************************)
EXTENDS MatchHistory, CountingLemmas, FiniteSetTheorems, TLAPS

\* A set of matches is finite, hence its cardinality a number.
LEMMA MatchesFinite ==
    ASSUME NEW S \in SUBSET Matches
    PROVE  IsFiniteSet(S) /\ Cardinality(S) \in Nat
<1>1. IsFiniteSet(Matches)
  BY ConstantsOK, FS_Interval DEF Matches
<1>2. IsFiniteSet(S)
  BY <1>1, FS_Subset
<1> QED
  BY <1>2, FS_CardinalityType

\* A page lists matches that have been played.
LEMMA PageOfMatches ==
    ASSUME NEW p, NEW n \in 0 .. MaxMatches, NEW start, NEW count
    PROVE  PageOf(p, n, start, count) \subseteq Matches
  BY ConstantsOK DEF PageOf, Listed, Matches

-----------------------------------------------------------------------------
(* Types.                                                                  *)

AttemptType == [pc : {"idle"} \cup Running \cup Ended,
                history : SUBSET Matches, base : 0 .. MaxMatches,
                seen : SUBSET Matches, start : Nat,
                todo : SUBSET Matches, absent : SUBSET Matches,
                last : BOOLEAN]

AttemptOK(r) ==
    /\ r \in AttemptType
    /\ r.history \cap r.seen = {}
    /\ r.todo \subseteq r.seen
    /\ r.pc \in {"idle", "page", "succeeded"} => r.todo = {}

\* The part of TypeOK about attempts, one attempt at a time.
AttemptsOK == fetch \in [Attempts -> AttemptType] /\ \A a \in Attempts : AttemptOK(fetch[a])

\* The part of TypeOK about the tables and the other writers.
TablesOK ==
    /\ played \in 0 .. MaxMatches
    /\ stored \subseteq Matches
    /\ links \in Histories /\ removed \in Histories
    /\ ladder \in [pc : {"idle", "ids", "match", "links"} \cup Ended,
                   left : SUBSET Players, todo : SUBSET Matches, lists : Histories]
    /\ events \in 0 .. MaxEvents
    /\ manager \in [match : {0} \cup Matches, puuid : Players]
    /\ \A p \in Players : links[p] \subseteq stored

LEMMA TypeOKParts == TypeOK <=> AttemptsOK /\ TablesOK
  BY DEF TypeOK, AttemptsOK, TablesOK, AttemptOK, AttemptType

LEMMA UnusedOK == AttemptOK(Unused) /\ AttemptOK(Failed)
<1>1. 0 \in 0 .. MaxMatches
  BY ConstantsOK
<1>2. AttemptOK(Unused)
  BY <1>1 DEF AttemptOK, AttemptType, Unused
<1>3. Unused.todo = {}
  BY DEF Unused
<1>4. AttemptOK(Failed)
  BY <1>2, <1>3 DEF AttemptOK, AttemptType, Failed, Ended
<1> QED
  BY <1>2, <1>4

\* A step that gives one attempt a new state keeps the attempts well formed.
LEMMA SetOK ==
    ASSUME AttemptsOK, NEW a \in Attempts, NEW r, AttemptOK(r), Set(a, r)
    PROVE  AttemptsOK'
  BY DEF AttemptsOK, Set, AttemptOK

LEMMA AttemptSteps ==
    ASSUME TypeOK, NEW a \in Attempts, Begin(a) \/ FetchStep(a) \/ Fail(a)
    PROVE  AttemptsOK'
<1> USE TypeOKParts
<1>0. AttemptsOK /\ TablesOK /\ AttemptOK(fetch[a])
  BY DEF AttemptsOK
<1>1. CASE Begin(a)
  <2> DEFINE r == [Unused EXCEPT !.pc = "page", !.history = links[Player], !.base = played]
  <2>1. links[Player] \subseteq Matches
    BY <1>0, ConstantsOK DEF TablesOK, Histories
  <2>2. AttemptOK(r)
    BY <1>0, <2>1, UnusedOK DEF TablesOK, AttemptOK, AttemptType, Unused, Running
  <2> QED
    BY <1>0, <1>1, <2>2, SetOK DEF Begin
<1>2. CASE FetchPage(a)
  <2> DEFINE page == PageOf(Player, played, fetch[a].start, PageSize)
             new == (page \ fetch[a].seen) \ Known(a, page)
             r == [fetch[a] EXCEPT
                     !.pc = "lookup",
                     !.seen = @ \cup new,
                     !.start = NextStart(a, page),
                     !.todo = new,
                     !.last = Known(a, page) # {} \/ Cardinality(page) < PageSize]
  <2>1. page \subseteq Matches
    BY <1>0, PageOfMatches DEF TablesOK
  <2>2. NextStart(a, page) \in Nat
    BY <1>0, <2>1, MatchesFinite DEF NextStart, AttemptOK, AttemptType
  <2>3. new \subseteq Matches /\ new \cap fetch[a].history = {}
    BY <2>1 DEF Known
  <2> HIDE DEF new, page
  <2>4. AttemptOK(r)
    BY <1>0, <2>2, <2>3 DEF AttemptOK, AttemptType, Running
  <2> QED
    BY <1>0, <1>2, <2>4, SetOK DEF FetchPage, page, new
<1>3. CASE LookUp(a)
  <2> DEFINE r == [fetch[a] EXCEPT !.pc = "match", !.absent = fetch[a].todo \ stored]
  <2>1. AttemptOK(r)
    BY <1>0 DEF AttemptOK, AttemptType, Running
  <2> QED
    BY <1>0, <1>3, <2>1, SetOK DEF LookUp
<1>4. CASE EndPage(a)
  <2> DEFINE r == IF fetch[a].last
                  THEN [fetch[a] EXCEPT !.pc = "succeeded", !.start = 0]
                  ELSE [fetch[a] EXCEPT !.pc = "page"]
  <2>1. AttemptOK(r)
    BY <1>0, <1>4 DEF EndPage, AttemptOK, AttemptType, Running, Ended
  <2> QED
    BY <1>0, <1>4, <2>1, SetOK DEF EndPage
<1>5. ASSUME NEW m \in Matches, FetchMatch(a, m)
      PROVE  AttemptsOK'
  <2> DEFINE r == [fetch[a] EXCEPT !.absent = @ \ {m}]
  <2>1. AttemptOK(r)
    BY <1>0 DEF AttemptOK, AttemptType
  <2> QED
    BY <1>0, <1>5, <2>1, SetOK DEF FetchMatch
<1>6. ASSUME NEW m \in Matches, LinkMatch(a, m)
      PROVE  AttemptsOK'
  <2> DEFINE r == [fetch[a] EXCEPT !.todo = @ \ {m}]
  <2>1. AttemptOK(r)
    BY <1>0 DEF AttemptOK, AttemptType
  <2> QED
    BY <1>0, <1>6, <2>1, SetOK DEF LinkMatch
<1>7. ASSUME NEW m \in Matches, LinkRefused(a, m)
      PROVE  AttemptsOK'
  BY <1>0, <1>7, UnusedOK, SetOK DEF LinkRefused
<1>8. CASE Fail(a)
  BY <1>0, <1>8, UnusedOK, SetOK DEF Fail
<1> QED
  BY <1>1, <1>2, <1>3, <1>4, <1>5, <1>6, <1>7, <1>8 DEF FetchStep

\* The steps of a fetch leave the rest well formed.
LEMMA AttemptTables ==
    ASSUME TypeOK, NEW a \in Attempts, Begin(a) \/ FetchStep(a) \/ Fail(a)
    PROVE  TablesOK'
<1>0. TablesOK
  BY TypeOKParts
<1>1. CASE Begin(a)
  BY <1>0, <1>1, ConstantsOK DEF TablesOK, Begin, Event, tables
<1>2. CASE FetchPage(a) \/ LookUp(a) \/ EndPage(a)
  BY <1>0, <1>2 DEF TablesOK, FetchPage, LookUp, EndPage, tables
<1>3. ASSUME NEW m \in Matches, FetchMatch(a, m)
      PROVE  TablesOK'
  BY <1>0, <1>3 DEF TablesOK, FetchMatch, SaveMatch
<1>4. ASSUME NEW m \in Matches, LinkMatch(a, m)
      PROVE  TablesOK'
  BY <1>0, <1>4, ConstantsOK DEF TablesOK, LinkMatch, LinkPlayerMatches, Linkable, Histories
<1>5. ASSUME NEW m \in Matches, LinkRefused(a, m)
      PROVE  TablesOK'
  BY <1>0, <1>5 DEF TablesOK, LinkRefused, tables
<1>6. CASE Fail(a)
  BY <1>0, <1>6, ConstantsOK DEF TablesOK, Fail, Event, tables
<1> QED
  BY <1>1, <1>2, <1>3, <1>4, <1>5, <1>6 DEF FetchStep

LadderType == [pc : {"idle", "ids", "match", "links"} \cup Ended,
               left : SUBSET Players, todo : SUBSET Matches, lists : Histories]

LEMMA LadderTables ==
    ASSUME TypeOK, LadderStep
    PROVE  TablesOK' /\ fetch' = fetch
<1>0. TablesOK /\ ladder \in LadderType
  BY TypeOKParts DEF TablesOK, LadderType
<1>1. CASE LadderBegin
  BY <1>0, <1>1, ConstantsOK DEF TablesOK, LadderType, LadderBegin, Event, tables
<1>2. ASSUME NEW p \in Players, AskIds(p)
      PROVE  TablesOK' /\ fetch' = fetch
  <2>1. PICK n \in 0 .. played :
           ladder' = [ladder EXCEPT !.left = @ \ {p},
                                    !.lists[p] = PageOf(p, n, 0, LadderCount),
                                    !.todo = @ \cup PageOf(p, n, 0, LadderCount)]
    BY <1>2 DEF AskIds
  <2>2. n \in 0 .. MaxMatches
    BY <1>0, ConstantsOK DEF TablesOK
  <2>3. PageOf(p, n, 0, LadderCount) \subseteq Matches
    BY <2>2, PageOfMatches
  <2>4. ladder' \in LadderType
    BY <1>0, <2>1, <2>3 DEF LadderType, Histories
  <2> QED
    BY <1>0, <1>2, <2>4 DEF TablesOK, LadderType, AskIds, tables
<1>3. CASE LadderLookUp \/ LadderDetailsDone \/ LadderEnd
  BY <1>0, <1>3 DEF TablesOK, LadderType, LadderLookUp, LadderDetailsDone, LadderEnd, Ended, tables
<1>4. ASSUME NEW m \in Matches, LadderFetchMatch(m)
      PROVE  TablesOK' /\ fetch' = fetch
  BY <1>0, <1>4 DEF TablesOK, LadderType, LadderFetchMatch, SaveMatch
<1>5. ASSUME NEW p \in Players, LadderLink(p)
      PROVE  TablesOK' /\ fetch' = fetch
  <2>1. ladder' \in LadderType /\ ladder.lists[p] \subseteq stored
    BY <1>0, <1>5 DEF LadderType, LadderLink, Linkable
  <2>2. links' = [links EXCEPT ![p] = @ \cup ladder.lists[p]]
    BY <1>5 DEF LadderLink, LinkPlayerMatches
  <2> QED
    BY <1>0, <1>5, <2>1, <2>2 DEF TablesOK, LadderType, LadderLink, Histories
<1>6. CASE LadderFail
  BY <1>0, <1>6, ConstantsOK DEF TablesOK, LadderType, LadderFail, Event, Ended, tables
<1> QED
  BY <1>1, <1>2, <1>3, <1>4, <1>5, <1>6 DEF LadderStep

LEMMA ManagerTables ==
    ASSUME TypeOK, ManagerStep
    PROVE  TablesOK' /\ fetch' = fetch
<1>0. TablesOK
  BY TypeOKParts
<1>1. ASSUME NEW p \in Players, NEW m \in Matches, ManagerSave(m, p)
      PROVE  TablesOK' /\ fetch' = fetch
  BY <1>0, <1>1, ConstantsOK DEF TablesOK, ManagerSave, SaveMatch, Event
<1>2. CASE ManagerLink
  <2>1. manager.match \in Matches /\ manager' \in [match : {0} \cup Matches, puuid : Players]
    BY <1>0, <1>2 DEF TablesOK, ManagerLink
  <2>2. CASE Linkable({manager.match})
    BY <1>0, <1>2, <2>1, <2>2 DEF TablesOK, ManagerLink, Linkable, LinkPlayerMatches, Histories
  <2>3. CASE ~Linkable({manager.match})
    BY <1>0, <1>2, <2>1, <2>3 DEF TablesOK, ManagerLink
  <2> QED
    BY <2>2, <2>3
<1>3. ASSUME NEW p \in Players, NEW m \in Matches, UnlinkPlayerMatch(p, m)
      PROVE  TablesOK' /\ fetch' = fetch
  BY <1>0, <1>3, ConstantsOK DEF TablesOK, UnlinkPlayerMatch, Event, Histories
<1>4. ASSUME NEW m \in Matches, DeleteMatch(m)
      PROVE  TablesOK' /\ fetch' = fetch
  BY <1>0, <1>4, ConstantsOK DEF TablesOK, DeleteMatch, Event, Histories
<1> QED
  BY <1>1, <1>2, <1>3, <1>4 DEF ManagerStep

LEMMA InitTypes == Init => TypeOK
<1> SUFFICES ASSUME Init PROVE TypeOK
  OBVIOUS
<1>1. AttemptsOK
  BY UnusedOK DEF Init, AttemptsOK, AttemptOK
<1>2. TablesOK
  BY ConstantsOK DEF Init, TablesOK, Histories
<1> QED
  BY <1>1, <1>2, TypeOKParts

LEMMA NextTypes == TypeOK /\ [Next]_vars => TypeOK'
<1> SUFFICES ASSUME TypeOK, [Next]_vars PROVE AttemptsOK' /\ TablesOK'
  BY DEF TypeOK, AttemptsOK, TablesOK, AttemptOK, AttemptType
<1>0. AttemptsOK /\ TablesOK
  BY TypeOKParts
<1>1. CASE Play
  BY <1>0, <1>1, ConstantsOK DEF Play, AttemptsOK, TablesOK, tables
<1>2. ASSUME NEW a \in Attempts, Begin(a) \/ FetchStep(a) \/ Fail(a)
      PROVE  AttemptsOK' /\ TablesOK'
  BY <1>2, AttemptSteps, AttemptTables
<1>3. CASE LadderStep
  BY <1>0, <1>3, LadderTables DEF AttemptsOK
<1>4. CASE ManagerStep
  BY <1>0, <1>4, ManagerTables DEF AttemptsOK
<1>5. CASE UNCHANGED vars
  BY <1>0, <1>5 DEF vars, tables, AttemptsOK, TablesOK
<1> QED
  BY <1>1, <1>2, <1>3, <1>4, <1>5 DEF Next

(***************************************************************************)
(* In every reachable state the variables have their types, no link is     *)
(* without its match, the new matches of a fetch are not those of the      *)
(* history it read, and a fetch that goes to its next page has linked all  *)
(* it has seen.                                                            *)
(***************************************************************************)
THEOREM HistoryTypes == Spec => []TypeOK
<1>1. Init => TypeOK
  BY InitTypes
<1>2. TypeOK /\ [Next]_vars => TypeOK'
  BY NextTypes
<1> QED
  BY <1>1, <1>2, PTL DEF Spec

-----------------------------------------------------------------------------
(* What a job reports is in the tables.                                    *)

Kept(p) == links[p] \cup removed[p]

\* The inductive invariant: an attempt has linked what it has seen except
\* for what is left of its page, and the ladder ingestion has linked the
\* lists of the players it is done with.
WorkLinked ==
    /\ \A a \in Attempts :
          fetch[a].history \cup (fetch[a].seen \ fetch[a].todo) \subseteq Kept(Player)
    /\ ladder.pc \in {"links", "succeeded"} =>
          \A p \in Players \ ladder.left : ladder.lists[p] \subseteq Kept(p)
    /\ ladder.pc = "succeeded" => ladder.left = {}

\* No step takes a link away that the manager did not remove.
KeptGrows == \A p \in Players : Kept(p) \subseteq Kept(p)'

LEMMA StepKeeps ==
    ASSUME TypeOK, [Next]_vars
    PROVE  KeptGrows
<1>0. links \in Histories /\ removed \in Histories /\ Player \in Players
  BY ConstantsOK DEF TypeOK
<1>1. ASSUME UNCHANGED <<links, removed>>
      PROVE  KeptGrows
  BY <1>1 DEF KeptGrows, Kept
<1>2. ASSUME NEW p \in Players, NEW S, LinkPlayerMatches(p, S), UNCHANGED removed
      PROVE  KeptGrows
  BY <1>0, <1>2 DEF KeptGrows, Kept, LinkPlayerMatches, Histories
<1>3. ASSUME NEW p \in Players, NEW m \in Matches, UnlinkPlayerMatch(p, m)
      PROVE  KeptGrows
  BY <1>0, <1>3 DEF KeptGrows, Kept, UnlinkPlayerMatch, Histories
<1>4. ASSUME NEW m \in Matches, DeleteMatch(m)
      PROVE  KeptGrows
  BY <1>0, <1>4 DEF KeptGrows, Kept, DeleteMatch, Histories
<1>5. ASSUME NEW a \in Attempts, Begin(a) \/ FetchStep(a) \/ Fail(a)
      PROVE  KeptGrows
  <2>1. ASSUME NEW m \in Matches, FetchMatch(a, m) \/ LinkMatch(a, m) \/ LinkRefused(a, m)
        PROVE  KeptGrows
    BY <2>1, <1>0, <1>1, <1>2 DEF FetchMatch, LinkMatch, LinkRefused, tables
  <2> QED
    BY <1>5, <1>1, <2>1 DEF Begin, FetchStep, Fail, FetchPage, LookUp, EndPage, tables
<1>6. CASE LadderStep
  <2>1. ASSUME NEW p \in Players, AskIds(p) \/ LadderLink(p)
        PROVE  KeptGrows
    BY <2>1, <1>1, <1>2 DEF AskIds, LadderLink, tables
  <2> QED
    BY <1>6, <1>1, <2>1 DEF LadderStep, LadderBegin, LadderLookUp, LadderDetailsDone,
       LadderEnd, LadderFail, LadderFetchMatch, tables
<1>7. CASE ManagerStep
  <2>1. CASE ManagerLink
    <3>1. manager.puuid \in Players
      BY DEF TypeOK
    <3> QED
      BY <2>1, <3>1, <1>1, <1>2 DEF ManagerLink
  <2> QED
    BY <1>7, <1>1, <1>3, <1>4, <2>1 DEF ManagerStep, ManagerSave
<1> QED
  BY <1>1, <1>5, <1>6, <1>7 DEF Next, Play, vars, tables

LEMMA AttemptLinks ==
    ASSUME TypeOK, WorkLinked, KeptGrows,
           NEW a \in Attempts, Begin(a) \/ FetchStep(a) \/ Fail(a)
    PROVE  WorkLinked'
<1> DEFINE Linked(r) == r.history \cup (r.seen \ r.todo) \subseteq Kept(Player)'
<1>0. /\ AttemptsOK /\ TablesOK /\ Player \in Players
      /\ \A b \in Attempts : Linked(fetch[b])
  BY TypeOKParts, ConstantsOK DEF WorkLinked, KeptGrows
<1>1. ladder' = ladder
  BY DEF Begin, FetchStep, Fail, FetchPage, LookUp, EndPage, FetchMatch, LinkMatch, LinkRefused
<1>2. ASSUME NEW r, Set(a, r), Linked(r)
      PROVE  WorkLinked'
  <2>1. \A b \in Attempts : Linked(fetch'[b])
    BY <1>0, <1>2 DEF Set, AttemptsOK
  <2> QED
    BY <1>1, <2>1 DEF WorkLinked, KeptGrows
<1>3. Linked(Unused) /\ Linked(Failed)
  BY DEF Unused, Failed
<1>4. CASE Begin(a)
  <2> DEFINE r == [Unused EXCEPT !.pc = "page", !.history = links[Player], !.base = played]
  <2>1. r.history = links[Player] /\ r.seen = {}
    BY DEF Unused
  <2>2. Linked(r)
    BY <1>0, <2>1 DEF KeptGrows, Kept
  <2> QED
    BY <1>2, <1>4, <2>2 DEF Begin
<1>5. CASE FetchPage(a)
  <2> DEFINE page == PageOf(Player, played, fetch[a].start, PageSize)
             new == (page \ fetch[a].seen) \ Known(a, page)
             r == [fetch[a] EXCEPT
                     !.pc = "lookup",
                     !.seen = @ \cup new,
                     !.start = NextStart(a, page),
                     !.todo = new,
                     !.last = Known(a, page) # {} \/ Cardinality(page) < PageSize]
  <2>1. fetch[a] \in AttemptType /\ fetch[a].todo = {}
    BY <1>0, <1>5 DEF AttemptsOK, AttemptOK, FetchPage
  <2> HIDE DEF new, page
  <2>2. r.history = fetch[a].history /\ r.seen = fetch[a].seen \cup new /\ r.todo = new
    BY <2>1 DEF AttemptType
  <2>3. Linked(r)
    BY <1>0, <2>1, <2>2
  <2> QED
    BY <1>2, <1>5, <2>3 DEF FetchPage, new, page
<1>6. ASSUME NEW r, Set(a, r), r.history = fetch[a].history, r.seen = fetch[a].seen,
             fetch[a].todo \subseteq r.todo
      PROVE  WorkLinked'
  BY <1>0, <1>2, <1>6
<1>7. fetch[a] \in AttemptType
  BY <1>0 DEF AttemptsOK
<1>8. CASE LookUp(a)
  BY <1>6, <1>7, <1>8 DEF LookUp, AttemptType
<1>9. CASE EndPage(a)
  <2> DEFINE r == IF fetch[a].last
                  THEN [fetch[a] EXCEPT !.pc = "succeeded", !.start = 0]
                  ELSE [fetch[a] EXCEPT !.pc = "page"]
  <2>1. r.history = fetch[a].history /\ r.seen = fetch[a].seen /\ r.todo = fetch[a].todo
    BY <1>7 DEF AttemptType
  <2> QED
    BY <1>6, <1>9, <2>1 DEF EndPage
<1>10. ASSUME NEW m \in Matches, FetchMatch(a, m)
       PROVE  WorkLinked'
  BY <1>6, <1>7, <1>10 DEF FetchMatch, AttemptType
<1>11. ASSUME NEW m \in Matches, LinkMatch(a, m)
       PROVE  WorkLinked'
  <2> DEFINE r == [fetch[a] EXCEPT !.todo = @ \ {m}]
  <2>1. r.history = fetch[a].history /\ r.seen = fetch[a].seen /\ r.todo = fetch[a].todo \ {m}
    BY <1>7 DEF AttemptType
  <2>2. m \in Kept(Player)'
    BY <1>0, <1>11 DEF LinkMatch, LinkPlayerMatches, Kept, TablesOK, Histories
  <2>3. Linked(r)
    BY <1>0, <2>1, <2>2
  <2> QED
    BY <1>2, <1>11, <2>3 DEF LinkMatch
<1>12. ASSUME NEW m \in Matches, LinkRefused(a, m)
       PROVE  WorkLinked'
  BY <1>2, <1>3, <1>12 DEF LinkRefused
<1>13. CASE Fail(a)
  BY <1>2, <1>3, <1>13 DEF Fail
<1> QED
  BY <1>4, <1>5, <1>8, <1>9, <1>10, <1>11, <1>12, <1>13 DEF FetchStep

LEMMA LadderLinks ==
    ASSUME TypeOK, WorkLinked, KeptGrows, LadderStep
    PROVE  WorkLinked'
<1>0. links \in Histories /\ ladder \in LadderType /\ Player \in Players
  BY ConstantsOK DEF TypeOK, LadderType
<1>1. \A a \in Attempts :
         fetch'[a].history \cup (fetch'[a].seen \ fetch'[a].todo) \subseteq Kept(Player)'
  BY <1>0, LadderTables DEF WorkLinked, KeptGrows
<1>2. ASSUME ladder'.pc \notin {"links", "succeeded"}
      PROVE  WorkLinked'
  BY <1>1, <1>2 DEF WorkLinked
<1>3. CASE LadderBegin \/ LadderLookUp \/ LadderFail
  BY <1>0, <1>2, <1>3 DEF LadderBegin, LadderLookUp, LadderFail, LadderType
<1>4. ASSUME NEW p \in Players, AskIds(p)
      PROVE  WorkLinked'
  <2>1. ladder'.pc = "ids"
    BY <1>0, <1>4 DEF AskIds, LadderType
  <2> QED
    BY <1>2, <2>1
<1>5. ASSUME NEW m \in Matches, LadderFetchMatch(m)
      PROVE  WorkLinked'
  BY <1>0, <1>2, <1>5 DEF LadderFetchMatch, LadderType
<1>6. CASE LadderDetailsDone
  BY <1>0, <1>1, <1>6 DEF LadderDetailsDone, LadderType, WorkLinked
<1>7. ASSUME NEW p \in Players, LadderLink(p)
      PROVE  WorkLinked'
  <2>1. ladder'.pc = "links" /\ ladder'.left = ladder.left \ {p} /\ ladder'.lists = ladder.lists
    BY <1>0, <1>7 DEF LadderLink, LadderType
  <2>2. ladder.lists[p] \subseteq Kept(p)'
    BY <1>0, <1>7 DEF LadderLink, LinkPlayerMatches, Kept, Histories
  <2>3. \A q \in Players \ ladder'.left : ladder'.lists[q] \subseteq Kept(q)'
    BY <1>7, <2>1, <2>2 DEF WorkLinked, KeptGrows, LadderLink
  <2> QED
    BY <1>1, <2>1, <2>3 DEF WorkLinked
<1>8. CASE LadderEnd
  <2>1. ladder'.pc = "succeeded" /\ ladder'.left = {} /\ ladder'.lists = ladder.lists
    BY <1>0, <1>8 DEF LadderEnd, LadderType
  <2>2. \A q \in Players : ladder.lists[q] \subseteq Kept(q)'
    BY <1>8 DEF WorkLinked, KeptGrows, LadderEnd
  <2> QED
    BY <1>1, <2>1, <2>2 DEF WorkLinked
<1> QED
  BY <1>3, <1>4, <1>5, <1>6, <1>7, <1>8 DEF LadderStep

(***************************************************************************)
(* Whatever a finished fetch or ingestion reports is linked, unless the    *)
(* manager removed it: for every interleaving of the writers, whatever     *)
(* fails, and although save and link are two statements.                   *)
(***************************************************************************)
THEOREM ReportedIsStored == Spec => []ResultsStored
<1>1. Init => WorkLinked
  BY ConstantsOK DEF Init, WorkLinked, Unused, Kept
<1>2. ASSUME TypeOK, WorkLinked, [Next]_vars
      PROVE  WorkLinked'
  <2>1. KeptGrows
    BY <1>2, StepKeeps
  <2>2. ASSUME UNCHANGED <<fetch, ladder>>
        PROVE  WorkLinked'
    BY <1>2, <2>1, <2>2, ConstantsOK DEF WorkLinked, KeptGrows
  <2>3. CASE \E a \in Attempts : Begin(a) \/ FetchStep(a) \/ Fail(a)
    BY <1>2, <2>1, <2>3, AttemptLinks
  <2>4. CASE LadderStep
    BY <1>2, <2>1, <2>4, LadderLinks
  <2> QED
    BY <1>2, <2>2, <2>3, <2>4 DEF Next, Play, ManagerStep, ManagerLink, ManagerSave,
       UnlinkPlayerMatch, DeleteMatch, vars
<1>3. TypeOK /\ WorkLinked => ResultsStored
  BY DEF TypeOK, WorkLinked, ResultsStored, Result, Kept
<1> QED
  BY <1>1, <1>2, <1>3, HistoryTypes, PTL DEF Spec

-----------------------------------------------------------------------------
(***************************************************************************)
(* Paging.  A successful profile fetch misses no match that is newer than  *)
(* what it knew: for any page size, any number of matches played meanwhile *)
(* and any other writers.                                                  *)
(*                                                                         *)
(* The argument is about positions in the list of Riot.  They only grow    *)
(* while matches are played, and a page that lies wholly before a match    *)
(* has as many entries as were asked for; so a match that the pages read   *)
(* so far do not contain is still at or behind the next start.             *)
(***************************************************************************)
LEMMA PositionIs == \A m, S : Position(m, S) = CountAbove(m, S)
BY DEF Position, CountAbove, Above

LEMMA PositionNat ==
    ASSUME NEW n \in Nat, NEW S \in SUBSET (1 .. n), NEW m
    PROVE  Position(m, S) \in Nat
BY AboveFinite, PositionIs

\* Newer matches come first.
LEMMA NewerFirst ==
    ASSUME NEW n \in Nat, NEW S \in SUBSET (1 .. n), NEW k \in S, NEW m \in S, k > m
    PROVE  Position(k, S) < Position(m, S)
BY AboveFewer, PositionIs

\* Matches played later only push a match further back.
LEMMA PositionGrows ==
    ASSUME NEW n \in Nat, NEW T \in SUBSET (1 .. n), NEW S \in SUBSET T, NEW m
    PROVE  Position(m, S) <= Position(m, T)
BY AboveGrows, PositionIs

\* A page that ends before a listed match is full.
LEMMA PageFull ==
    ASSUME NEW n \in Nat, NEW S \in SUBSET (1 .. n), NEW m \in S,
           NEW start \in Nat, NEW count \in Nat, start + count <= Position(m, S)
    PROVE  Cardinality({k \in S : start <= Position(k, S) /\ Position(k, S) < start + count}) = count
<1>1. start + count <= CountAbove(m, S)
  BY PositionIs
<1>2. {k \in S : start <= Position(k, S) /\ Position(k, S) < start + count} = Slice(S, start, count)
  BY DEF Position, Slice, CountAbove, Above
<1> QED
  BY <1>1, <1>2, SliceFull

-----------------------------------------------------------------------------
(* The list of the player.                                                 *)

List(n) == Listed(Player, n)

LEMMA ListFacts ==
    ASSUME NEW n \in Nat
    PROVE  List(n) \in SUBSET (1 .. n) /\ List(n) \in SUBSET List(n + 1)
  BY DEF List, Listed

\* What the pages read so far leave: a match newer than what was known is
\* either seen or still to come.
Covered(r, n) ==
    \A m \in List(r.base) : NewerThanKnown(r, m) =>
        \/ m \in r.seen
        \/ ~r.last /\ r.pc # "succeeded" /\ r.start <= Position(m, List(n))

CoverOK(r, n) ==
    /\ r.base <= n
    /\ r.pc = "page" => ~r.last
    /\ Covered(r, n)

PagingInv == \A a \in Attempts : CoverOK(fetch[a], played)

LEMMA UnusedCovered ==
    ASSUME NEW n \in Nat
    PROVE  CoverOK(Unused, n) /\ CoverOK(Failed, n)
<1>1. List(0) = {}
  BY DEF List, Listed
<1>2. Unused.base = 0 /\ Unused.pc = "idle"
  BY DEF Unused
<1>3. Failed.base = 0 /\ Failed.pc = "failed"
  BY DEF Failed, Unused
<1> QED
  BY <1>1, <1>2, <1>3 DEF CoverOK, Covered

\* One more match is played: what is still to come moves back.
LEMMA PlayCovers ==
    ASSUME NEW n \in 0 .. MaxMatches, NEW r \in AttemptType, CoverOK(r, n)
    PROVE  CoverOK(r, n + 1)
<1>0. n \in Nat /\ r.base \in Nat /\ r.start \in Nat
  BY ConstantsOK DEF AttemptType
<1>1. r.base <= n + 1
  BY <1>0 DEF CoverOK
<1>2. ASSUME NEW m \in List(r.base), r.start <= Position(m, List(n))
      PROVE  r.start <= Position(m, List(n + 1))
  <2>1. List(n) \in SUBSET (1 .. n) /\ List(n) \in SUBSET List(n + 1)
    BY <1>0, ListFacts
  <2>2. List(n + 1) \in SUBSET (1 .. n + 1) /\ n + 1 \in Nat
    BY <1>0, ListFacts
  <2>3. Position(m, List(n)) \in Nat /\ Position(m, List(n + 1)) \in Nat
    BY <1>0, <2>1, <2>2, PositionNat
  <2>4. Position(m, List(n)) <= Position(m, List(n + 1))
    BY <2>1, <2>2, PositionGrows
  <2> QED
    BY <1>0, <1>2, <2>3, <2>4
<1> QED
  BY <1>1, <1>2 DEF CoverOK, Covered

\* The heart of the argument: a page either shows the match, or is full,
\* shows nothing known, and ends before it.
LEMMA PageCovers ==
    ASSUME TypeOK, NEW a \in Attempts, CoverOK(fetch[a], played), FetchPage(a)
    PROVE  CoverOK(fetch'[a], played)
<1> DEFINE S == List(played)
           old == fetch[a]
           page == PageOf(Player, played, old.start, PageSize)
           new == (page \ old.seen) \ Known(a, page)
           r == [old EXCEPT
                   !.pc = "lookup",
                   !.seen = @ \cup new,
                   !.start = NextStart(a, page),
                   !.todo = new,
                   !.last = Known(a, page) # {} \/ Cardinality(page) < PageSize]
<1>1. old \in AttemptType /\ played \in Nat /\ fetch \in [Attempts -> AttemptType]
  BY TypeOKParts, ConstantsOK DEF AttemptsOK, TablesOK
<1>2. fetch'[a] = r
  BY <1>1 DEF FetchPage, Set
<1>3. page = {k \in S : old.start <= Position(k, S) /\ Position(k, S) < old.start + PageSize}
  BY DEF PageOf, List
<1>4. S \in SUBSET (1 .. played)
  BY <1>1, ListFacts
<1>5. old.start \in Nat /\ PageSize \in Nat /\ old.base \in Nat /\ PageSize > 0
  BY <1>1, ConstantsOK DEF AttemptType
<1> HIDE DEF page, S
<1>6. /\ r.pc = "lookup" /\ r.history = old.history /\ r.base = old.base
      /\ r.seen = old.seen \cup new /\ r.start = old.start + Cardinality(page)
      /\ r.last <=> (Known(a, page) # {} \/ Cardinality(page) < PageSize)
  BY <1>1 DEF AttemptType, NextStart
<1>7. ASSUME NEW m \in List(old.base), NewerThanKnown(old, m), m \notin old.seen
      PROVE  \/ m \in new
             \/ ~r.last /\ r.start <= Position(m, S)
  <2>1. m \in S
    BY <1>1, <1>5 DEF CoverOK, List, Listed, S
  <2>2. m \in Nat /\ Position(m, S) \in Nat /\ old.start <= Position(m, S)
    <3>1. m \in Nat
      BY <1>4, <2>1
    <3>2. Position(m, S) \in Nat
      BY <1>1, <1>4, PositionNat
    <3>3. old.start <= Position(m, S)
      BY <1>7 DEF CoverOK, Covered, S
    <3> QED
      BY <3>1, <3>2, <3>3
  <2>3. m \notin old.history
    BY <1>7, <2>1, <2>2 DEF NewerThanKnown, S, List, Listed
  <2>4. CASE m \in page
    BY <1>7, <2>3, <2>4 DEF Known
  <2>5. CASE m \notin page
    <3>1. old.start + PageSize <= Position(m, S)
      BY <1>3, <1>5, <2>1, <2>2, <2>5
    <3>2. Cardinality(page) = PageSize
      BY <1>1, <1>3, <1>4, <1>5, <2>1, <3>1, PageFull
    <3>3. Known(a, page) = {}
      <4> SUFFICES ASSUME NEW k \in page, k \in old.history
                   PROVE  FALSE
        BY DEF Known
      <4>1. k \in S /\ Position(k, S) < old.start + PageSize /\ Position(k, S) \in Nat
        BY <1>1, <1>3, <1>4, PositionNat
      <4>2. k \in Nat /\ Player \in Participants[k]
        BY <1>4, <4>1 DEF S, List, Listed
      <4>3. k < m
        BY <1>7, <4>2 DEF NewerThanKnown
      <4>4. Position(m, S) < Position(k, S)
        BY <1>1, <1>4, <2>1, <2>2, <4>1, <4>2, <4>3, NewerFirst
      <4> QED
        BY <1>5, <2>2, <3>1, <4>1, <4>4
    <3> QED
      BY <1>5, <1>6, <3>1, <3>2, <3>3
  <2> QED
    BY <2>4, <2>5
<1>8. Covered(r, played)
  BY <1>6, <1>7 DEF Covered, NewerThanKnown, S
<1> QED
  BY <1>2, <1>6, <1>8 DEF CoverOK

\* Every other step of a fetch leaves its pages as they were, or ends it.
LEMMA FetchCovers ==
    ASSUME TypeOK, NEW a \in Attempts, CoverOK(fetch[a], played),
           Begin(a) \/ FetchStep(a) \/ Fail(a)
    PROVE  CoverOK(fetch'[a], played)
<1>1. fetch \in [Attempts -> AttemptType] /\ fetch[a] \in AttemptType /\ played \in Nat
  BY TypeOKParts, ConstantsOK DEF AttemptsOK, TablesOK
<1>2. ASSUME NEW r, Set(a, r)
      PROVE  fetch'[a] = r
  BY <1>1, <1>2 DEF Set
<1>3. ASSUME NEW r, r.pc \in {"lookup", "match"}, r.history = fetch[a].history,
             r.base = fetch[a].base, r.seen = fetch[a].seen, r.start = fetch[a].start,
             r.last = fetch[a].last, fetch[a].pc # "succeeded"
      PROVE  CoverOK(r, played)
  BY <1>3 DEF CoverOK, Covered, NewerThanKnown
<1>4. CASE Begin(a)
  <2> DEFINE r == [Unused EXCEPT !.pc = "page", !.history = links[Player], !.base = played]
  <2>1. r.pc = "page" /\ r.last = FALSE /\ r.start = 0 /\ r.base = played
    BY DEF Unused
  <2>2. \A m \in List(played) : 0 <= Position(m, List(played))
    <3>1. List(played) \in SUBSET (1 .. played)
      BY <1>1, ListFacts
    <3>2. \A m : Position(m, List(played)) \in Nat
      BY <1>1, <3>1, PositionNat
    <3> QED
      BY <3>2
  <2>3. CoverOK(r, played)
    BY <1>1, <2>1, <2>2 DEF CoverOK, Covered
  <2> QED
    BY <1>2, <1>4, <2>3 DEF Begin
<1>5. CASE FetchPage(a)
  BY <1>5, PageCovers
<1>6. CASE LookUp(a)
  <2> DEFINE r == [fetch[a] EXCEPT !.pc = "match", !.absent = fetch[a].todo \ stored]
  <2>1. /\ r.pc = "match" /\ r.history = fetch[a].history /\ r.base = fetch[a].base
        /\ r.seen = fetch[a].seen /\ r.start = fetch[a].start /\ r.last = fetch[a].last
    BY <1>1 DEF AttemptType
  <2>2. CoverOK(r, played)
    <3>1. fetch[a].pc # "succeeded"
      BY <1>6 DEF LookUp
    <3> HIDE DEF r
    <3> QED
      BY <1>3, <2>1, <3>1
  <2> QED
    BY <1>2, <1>6, <2>2 DEF LookUp
<1>7. CASE EndPage(a)
  <2>1. CASE fetch[a].last
    <3> DEFINE r == [fetch[a] EXCEPT !.pc = "succeeded", !.start = 0]
    <3>1. r.pc = "succeeded" /\ r.history = fetch[a].history /\ r.base = fetch[a].base
          /\ r.seen = fetch[a].seen
      BY <1>1 DEF AttemptType
    <3>2. CoverOK(r, played)
      BY <2>1, <3>1 DEF CoverOK, Covered, NewerThanKnown
    <3> QED
      BY <1>2, <1>7, <2>1, <3>2 DEF EndPage
  <2>2. CASE ~fetch[a].last
    <3> DEFINE r == [fetch[a] EXCEPT !.pc = "page"]
    <3>1. r.pc = "page" /\ r.history = fetch[a].history /\ r.base = fetch[a].base
          /\ r.seen = fetch[a].seen /\ r.start = fetch[a].start /\ r.last = fetch[a].last
      BY <1>1 DEF AttemptType
    <3>2. CoverOK(r, played)
      BY <2>2, <3>1 DEF CoverOK, Covered, NewerThanKnown
    <3> QED
      BY <1>2, <1>7, <2>2, <3>2 DEF EndPage
  <2> QED
    BY <2>1, <2>2
<1>8. ASSUME NEW m \in Matches, FetchMatch(a, m)
      PROVE  CoverOK(fetch'[a], played)
  <2> DEFINE r == [fetch[a] EXCEPT !.absent = @ \ {m}]
  <2>1. CoverOK(r, played)
    BY <1>1, <1>3, <1>8 DEF FetchMatch, AttemptType
  <2> QED
    BY <1>2, <1>8, <2>1 DEF FetchMatch
<1>9. ASSUME NEW m \in Matches, LinkMatch(a, m)
      PROVE  CoverOK(fetch'[a], played)
  <2> DEFINE r == [fetch[a] EXCEPT !.todo = @ \ {m}]
  <2>1. CoverOK(r, played)
    BY <1>1, <1>3, <1>9 DEF LinkMatch, MayLink, AttemptType
  <2> QED
    BY <1>2, <1>9, <2>1 DEF LinkMatch
<1>10. ASSUME NEW m \in Matches, LinkRefused(a, m)
       PROVE  CoverOK(fetch'[a], played)
  BY <1>1, <1>2, <1>10, UnusedCovered DEF LinkRefused
<1>11. CASE Fail(a)
  BY <1>1, <1>2, <1>11, UnusedCovered DEF Fail
<1> QED
  BY <1>4, <1>5, <1>6, <1>7, <1>8, <1>9, <1>10, <1>11 DEF FetchStep

\* A step of one attempt leaves the others and the list of Riot alone.
LEMMA OthersUntouched ==
    ASSUME TypeOK, NEW a \in Attempts, Begin(a) \/ FetchStep(a) \/ Fail(a)
    PROVE  played' = played /\ \A b \in Attempts \ {a} : fetch'[b] = fetch[b]
<1>1. fetch \in [Attempts -> AttemptType]
  BY TypeOKParts DEF AttemptsOK
<1> QED
  BY <1>1 DEF Begin, FetchStep, Fail, FetchPage, LookUp, EndPage, FetchMatch, LinkMatch,
     LinkRefused, Set

(***************************************************************************)
(* A profile fetch that succeeds has found every match the player had      *)
(* played when it began and that is newer than all it knew: for any page   *)
(* size, while matches are played between the pages, and whatever the      *)
(* other jobs and the manager do.                                          *)
(***************************************************************************)
THEOREM NewestFound == Spec => []NewestComplete
<1>1. Init => PagingInv
  <2> SUFFICES ASSUME Init, NEW a \in Attempts PROVE CoverOK(fetch[a], played)
    BY DEF PagingInv
  <2>1. played \in Nat /\ fetch[a] = Unused
    BY ConstantsOK DEF Init
  <2> QED
    BY <2>1, UnusedCovered
<1>2. ASSUME TypeOK, PagingInv, [Next]_vars
      PROVE  PagingInv'
  <2>1. CASE Play
    <3> SUFFICES ASSUME NEW a \in Attempts PROVE CoverOK(fetch[a], played + 1)
      BY <2>1 DEF PagingInv, Play, CoverOK, Covered, List, NewerThanKnown
    <3>1. fetch[a] \in AttemptType /\ played \in 0 .. MaxMatches
      BY <1>2, TypeOKParts DEF AttemptsOK, TablesOK
    <3> QED
      BY <1>2, <3>1, PlayCovers DEF PagingInv
  <2>2. ASSUME NEW a \in Attempts, Begin(a) \/ FetchStep(a) \/ Fail(a)
        PROVE  PagingInv'
    <3>1. CoverOK(fetch'[a], played)
      BY <1>2, <2>2, FetchCovers DEF PagingInv
    <3>2. \A b \in Attempts : CoverOK(fetch'[b], played)
      BY <1>2, <2>2, <3>1, OthersUntouched DEF PagingInv
    <3>3. played' = played
      BY <1>2, <2>2, OthersUntouched
    <3> QED
      BY <3>2, <3>3 DEF PagingInv, CoverOK, Covered, List, NewerThanKnown
  <2>3. ASSUME UNCHANGED <<played, fetch>>
        PROVE  PagingInv'
    BY <1>2, <2>3 DEF PagingInv, CoverOK, Covered, List, NewerThanKnown
  <2>4. CASE LadderStep
    BY <1>2, <2>3, <2>4, LadderTables DEF LadderStep, LadderBegin, LadderLookUp, LadderFail,
       AskIds, LadderFetchMatch, LadderDetailsDone, LadderLink, LadderEnd
  <2>5. CASE ManagerStep
    BY <2>3, <2>5 DEF ManagerStep, ManagerSave, ManagerLink, UnlinkPlayerMatch, DeleteMatch
  <2> QED
    BY <1>2, <2>1, <2>2, <2>3, <2>4, <2>5 DEF Next, vars
<1>3. PagingInv => NewestComplete
  BY DEF PagingInv, CoverOK, Covered, NewestComplete, Result, List
<1> QED
  BY <1>1, <1>2, <1>3, HistoryTypes, PTL DEF Spec

=============================================================================
