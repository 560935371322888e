---------------------------- MODULE MatchHistory ----------------------------
(***************************************************************************)
(* The match history of players: the rows of riot_matches and              *)
(* player_matches (matches/store.py, migration 0003) and who writes them:  *)
(* the profile fetch (jobs/profile.py), the ladder ingestion               *)
(* (jobs/ingestion.py) and the requests of the manager                     *)
(* (api/routes/manager.py), while more matches are played at Riot.         *)
(*                                                                         *)
(* Matches are numbered in the order in which they are played.  Riot lists *)
(* the matches of a player newest first and serves the list page by page;  *)
(* the store returns a history in the same order, so pages and histories   *)
(* are sets here and "newest first" is the order of the numbers.           *)
(*                                                                         *)
(* One action is one request to Riot or one statement on the database.     *)
(***************************************************************************)
EXTENDS Naturals, FiniteSets

CONSTANTS
    Players,        \* the PUUIDs
    Player,         \* the one whose profile is fetched
    MaxMatches,     \* bound: matches ever played
    Participants,   \* the players of each match
    MaxAttempts,    \* bound: the attempts at the profile fetch
    PageSize,       \* MATCH_ID_PAGE_SIZE
    LadderCount,    \* params.match_count of the ladder ingestion
    Events,         \* what disturbs the fetch: "failure" of a job or a call,
                    \* "rerun" of a job that still runs elsewhere, "ladder"
                    \* ingestion and the "manager"
    MaxEvents       \* bound: disturbances in one behaviour

Matches == 1 .. MaxMatches
Attempts == 1 .. MaxAttempts    \* in the order in which they start

ASSUME ConstantsOK ==
    /\ Player \in Players
    /\ MaxMatches \in Nat /\ MaxAttempts \in Nat /\ MaxEvents \in Nat
    /\ Participants \in [Matches -> SUBSET Players]
    /\ PageSize \in Nat \ {0} /\ LadderCount \in Nat \ {0}

VARIABLES
    played,     \* how many matches Riot has
    stored,     \* riot_matches
    links,      \* player_matches: of each player, the linked matches
    fetch,      \* of each attempt at the profile fetch, its local state
    ladder,     \* the local state of the ladder ingestion
    manager,    \* the link a request of the manager has yet to make
    removed,    \* history: of each player, the links the manager deleted
    events      \* how many disturbances have happened

tables == <<stored, links>>
vars == <<played, tables, fetch, ladder, manager, removed, events>>

(***************************************************************************)
(* An attempt: the place it is at, the history it read and how many        *)
(* matches Riot had then, the new matches it has seen, where the next page *)
(* starts, the matches of the page still to link, those of them whose      *)
(* detail is still to fetch, and whether the page was the last.            *)
(***************************************************************************)
Unused == [pc |-> "idle", history |-> {}, base |-> 0, seen |-> {}, start |-> 0,
           todo |-> {}, absent |-> {}, last |-> FALSE]

Failed == [Unused EXCEPT !.pc = "failed"]

Running == {"page", "lookup", "match"}
Ended == {"succeeded", "failed"}

Newest(m, S) == m \in S /\ \A k \in S : k <= m

-----------------------------------------------------------------------------
(* Riot.                                                                   *)

Listed(p, n) == {m \in 1 .. n : p \in Participants[m]}

\* How many matches are listed before this one.
Position(m, S) == Cardinality({k \in S : k > m})

\* The answer to start and count when n matches have been played.
PageOf(p, n, start, count) ==
    {m \in Listed(p, n) :
        /\ start <= Position(m, Listed(p, n))
        /\ Position(m, Listed(p, n)) < start + count}

-----------------------------------------------------------------------------
Init ==
    /\ played \in 0 .. MaxMatches
    /\ stored = {}
    /\ links = [p \in Players |-> {}]
    /\ fetch = [a \in Attempts |-> Unused]
    /\ ladder = [pc |-> "idle", left |-> Players, todo |-> {},
                 lists |-> [p \in Players |-> {}]]
    /\ manager = [match |-> 0, puuid |-> Player]
    /\ removed = [p \in Players |-> {}]
    /\ events = 0

Event(what) ==
    /\ what \in Events
    /\ events < MaxEvents
    /\ events' = events + 1

Play ==
    /\ played < MaxMatches
    /\ played' = played + 1
    /\ UNCHANGED <<tables, fetch, ladder, manager, removed, events>>

-----------------------------------------------------------------------------
(* The store.                                                              *)

\* insert ... on conflict do nothing
SaveMatch(m) == stored' = stored \cup {m}

\* The foreign key refuses the whole statement when a match is missing.
LinkableInMemory(S) == TRUE     \* variant: no foreign key
Linkable(S) == S \subseteq stored

LinkPlayerMatches(p, S) == links' = [links EXCEPT ![p] = @ \cup S]

-----------------------------------------------------------------------------
(* The profile fetch.                                                      *)

Set(a, r) == fetch' = [fetch EXCEPT ![a] = r]

\* Account and history: an attempt starts when no other runs, unless the
\* lock of the job was lost to a second worker.
Begin(a) ==
    /\ fetch[a].pc = "idle"
    /\ \A b \in 1 .. a - 1 : fetch[b].pc # "idle"
    /\ IF \E b \in Attempts : fetch[b].pc \in Running
       THEN Event("rerun")
       ELSE UNCHANGED events
    /\ Set(a, [Unused EXCEPT !.pc = "page", !.history = links[Player], !.base = played])
    /\ UNCHANGED <<played, tables, ladder, manager, removed>>

\* What of a page counts as already in the history.
StoredOfPage(a, page) == page \cap stored   \* variant: anybody's matches are known
Known(a, page) == page \cap fetch[a].history

NewOfPage(a, page) == fetch[a].start + Cardinality(page \ fetch[a].seen)  \* variant
NextStart(a, page) == fetch[a].start + Cardinality(page)

\* One page of ids, sorted into seen, known and new.
FetchPage(a) ==
    /\ fetch[a].pc = "page"
    /\ LET page == PageOf(Player, played, fetch[a].start, PageSize)
           new == (page \ fetch[a].seen) \ Known(a, page)
       IN Set(a, [fetch[a] EXCEPT
                    !.pc = "lookup",
                    !.seen = @ \cup new,
                    !.start = NextStart(a, page),
                    !.todo = new,
                    !.last = Known(a, page) # {} \/ Cardinality(page) < PageSize])
    /\ UNCHANGED <<played, tables, ladder, manager, removed, events>>

\* Variant: matches that are already stored need no work at all.
LookUpAndSkip(a) ==
    /\ fetch[a].pc = "lookup"
    /\ Set(a, [fetch[a] EXCEPT !.pc = "match", !.todo = @ \ stored,
                               !.absent = fetch[a].todo \ stored])
    /\ UNCHANGED <<played, tables, ladder, manager, removed, events>>

\* get_matches of the new ids.
LookUp(a) ==
    /\ fetch[a].pc = "lookup"
    /\ Set(a, [fetch[a] EXCEPT !.pc = "match", !.absent = fetch[a].todo \ stored])
    /\ UNCHANGED <<played, tables, ladder, manager, removed, events>>

\* The detail of a match that was not found in the store.
FetchMatch(a, m) ==
    /\ fetch[a].pc = "match"
    /\ Newest(m, fetch[a].todo)
    /\ m \in fetch[a].absent
    /\ SaveMatch(m)
    /\ Set(a, [fetch[a] EXCEPT !.absent = @ \ {m}])
    /\ UNCHANGED <<played, links, ladder, manager, removed, events>>

MayLink(a, m) ==
    /\ fetch[a].pc = "match"
    /\ Newest(m, fetch[a].todo)
    /\ m \notin fetch[a].absent

LinkMatch(a, m) ==
    /\ MayLink(a, m)
    /\ Linkable({m})
    /\ LinkPlayerMatches(Player, {m})
    /\ Set(a, [fetch[a] EXCEPT !.todo = @ \ {m}])
    /\ UNCHANGED <<played, stored, ladder, manager, removed, events>>

\* The manager deleted the match before it was linked.
LinkRefused(a, m) ==
    /\ MayLink(a, m)
    /\ ~Linkable({m})
    /\ Set(a, Failed)
    /\ UNCHANGED <<played, tables, ladder, manager, removed, events>>

\* The page is done: another one, or the result.
EndPage(a) ==
    /\ fetch[a].pc = "match"
    /\ fetch[a].todo = {}
    /\ Set(a, IF fetch[a].last
              THEN [fetch[a] EXCEPT !.pc = "succeeded", !.start = 0]
              ELSE [fetch[a] EXCEPT !.pc = "page"])
    /\ UNCHANGED <<played, tables, ladder, manager, removed, events>>

\* A call of Riot or of the store raises, or the worker is cancelled.
Fail(a) ==
    /\ Event("failure")
    /\ fetch[a].pc \in Running
    /\ Set(a, Failed)
    /\ UNCHANGED <<played, tables, ladder, manager, removed>>

\* ProfileFetchResult.match_ids
Result(a) == fetch[a].seen \cup fetch[a].history

FetchStep(a) ==
    \/ FetchPage(a) \/ LookUp(a) \/ EndPage(a)
    \/ \E m \in Matches : FetchMatch(a, m) \/ LinkMatch(a, m) \/ LinkRefused(a, m)

-----------------------------------------------------------------------------
(* The ladder ingestion: first the ids of all players, then all details,   *)
(* then the links of each player.                                          *)

LadderBegin ==
    /\ Event("ladder")
    /\ ladder.pc = "idle"
    /\ ladder' = [ladder EXCEPT !.pc = "ids"]
    /\ UNCHANGED <<played, tables, fetch, manager, removed>>

\* The list may come from the response cache and be older than the store.
\* A player whose answer is no list is skipped, as one with an empty list.
AskIds(p) ==
    /\ ladder.pc = "ids"
    /\ p \in ladder.left
    /\ \E n \in 0 .. played :
          LET list == PageOf(p, n, 0, LadderCount)
          IN ladder' = [ladder EXCEPT !.left = @ \ {p}, !.lists[p] = list,
                                      !.todo = @ \cup list]
    /\ UNCHANGED <<played, tables, fetch, manager, removed, events>>

LadderLookUp ==
    /\ ladder.pc = "ids"
    /\ ladder.left = {}
    /\ ladder' = [ladder EXCEPT !.pc = "match", !.todo = @ \ stored]
    /\ UNCHANGED <<played, tables, fetch, manager, removed, events>>

LadderFetchMatch(m) ==
    /\ ladder.pc = "match"
    /\ m \in ladder.todo
    /\ SaveMatch(m)
    /\ ladder' = [ladder EXCEPT !.todo = @ \ {m}]
    /\ UNCHANGED <<played, links, fetch, manager, removed, events>>

LadderDetailsDone ==
    /\ ladder.pc = "match"
    /\ ladder.todo = {}
    /\ ladder' = [ladder EXCEPT !.pc = "links", !.left = Players]
    /\ UNCHANGED <<played, tables, fetch, manager, removed, events>>

LadderLink(p) ==
    /\ ladder.pc = "links"
    /\ p \in ladder.left
    /\ Linkable(ladder.lists[p])
    /\ LinkPlayerMatches(p, ladder.lists[p])
    /\ ladder' = [ladder EXCEPT !.left = @ \ {p}]
    /\ UNCHANGED <<played, stored, fetch, manager, removed, events>>

LadderEnd ==
    /\ ladder.pc = "links"
    /\ ladder.left = {}
    /\ ladder' = [ladder EXCEPT !.pc = "succeeded"]
    /\ UNCHANGED <<played, tables, fetch, manager, removed, events>>

\* A link is refused, a call raises, or the worker is cancelled.
LadderFail ==
    /\ \/ Event("failure") /\ ladder.pc \in {"ids", "match", "links"}
       \/ /\ ladder.pc = "links"
          /\ \E p \in ladder.left : ~Linkable(ladder.lists[p])
          /\ UNCHANGED events
    /\ ladder' = [ladder EXCEPT !.pc = "failed"]
    /\ UNCHANGED <<played, tables, fetch, manager, removed>>

LadderStep ==
    \/ LadderBegin \/ LadderLookUp \/ LadderDetailsDone \/ LadderEnd \/ LadderFail
    \/ \E p \in Players : AskIds(p) \/ LadderLink(p)
    \/ \E m \in Matches : LadderFetchMatch(m)

-----------------------------------------------------------------------------
(* The requests of the manager.                                            *)

\* fetch_matches saves a match and, when the body names a player, links it.
ManagerSave(m, p) ==
    /\ Event("manager")
    /\ manager.match = 0
    /\ m <= played
    /\ SaveMatch(m)
    /\ manager' = [match |-> m, puuid |-> p]
    /\ UNCHANGED <<played, links, fetch, ladder, removed>>

\* A refused link is an error of this item only.
ManagerLink ==
    /\ manager.match # 0
    /\ IF Linkable({manager.match})
       THEN LinkPlayerMatches(manager.puuid, {manager.match})
       ELSE UNCHANGED links
    /\ manager' = [manager EXCEPT !.match = 0]
    /\ UNCHANGED <<played, stored, fetch, ladder, removed, events>>

UnlinkPlayerMatch(p, m) ==
    /\ Event("manager")
    /\ m \in links[p]
    /\ links' = [links EXCEPT ![p] = @ \ {m}]
    /\ removed' = [removed EXCEPT ![p] = @ \cup {m}]
    /\ UNCHANGED <<played, stored, fetch, ladder, manager>>

\* The deletion cascades to the links.
DeleteMatch(m) ==
    /\ Event("manager")
    /\ m \in stored
    /\ stored' = stored \ {m}
    /\ links' = [p \in Players |-> links[p] \ {m}]
    /\ removed' = [p \in Players |-> removed[p] \cup ({m} \cap links[p])]
    /\ UNCHANGED <<played, fetch, ladder, manager>>

ManagerStep ==
    \/ ManagerLink
    \/ \E m \in Matches : DeleteMatch(m)
    \/ \E p \in Players, m \in Matches : ManagerSave(m, p) \/ UnlinkPlayerMatch(p, m)

-----------------------------------------------------------------------------
Next ==
    \/ Play
    \/ \E a \in Attempts : Begin(a) \/ FetchStep(a) \/ Fail(a)
    \/ LadderStep
    \/ ManagerStep

Spec == Init /\ [][Next]_vars

\* Riot and the database answer: a running attempt takes its next step.
FairSpec == Spec /\ \A a \in Attempts : WF_vars(FetchStep(a))

-----------------------------------------------------------------------------
(* Properties.                                                             *)

Histories == [Players -> SUBSET Matches]

\* The types, and: no link without its match (the foreign key), the new
\* matches of an attempt were not in its history, and an attempt that has
\* ended its work on a page has linked all it has seen.
TypeOK ==
    /\ played \in 0 .. MaxMatches
    /\ stored \subseteq Matches
    /\ links \in Histories /\ removed \in Histories
    /\ fetch \in [Attempts -> [pc : {"idle"} \cup Running \cup Ended,
                               history : SUBSET Matches, base : 0 .. MaxMatches,
                               seen : SUBSET Matches, start : Nat,
                               todo : SUBSET Matches, absent : SUBSET Matches,
                               last : BOOLEAN]]
    /\ ladder \in [pc : {"idle", "ids", "match", "links"} \cup Ended,
                   left : SUBSET Players, todo : SUBSET Matches, lists : Histories]
    /\ events \in 0 .. MaxEvents
    /\ manager \in [match : {0} \cup Matches, puuid : Players]
    /\ \A p \in Players : links[p] \subseteq stored
    /\ \A a \in Attempts :
          /\ fetch[a].history \cap fetch[a].seen = {}
          /\ fetch[a].todo \subseteq fetch[a].seen
          /\ fetch[a].pc \in {"idle", "page", "succeeded"} => fetch[a].todo = {}

(***************************************************************************)
(* A profile that was fetched shows only matches the player is linked to,  *)
(* and a ladder that was ingested has linked what it listed: whatever a    *)
(* job reports is in the tables unless the manager removed it, although    *)
(* saving and linking are separate statements and other jobs write the     *)
(* same rows (profile.py:295-314, ingestion.py:121-150).                   *)
(***************************************************************************)
ResultsStored ==
    /\ \A a \in Attempts :
          fetch[a].pc = "succeeded" => Result(a) \subseteq links[Player] \cup removed[Player]
    /\ ladder.pc = "succeeded" =>
          \A p \in Players : ladder.lists[p] \subseteq links[p] \cup removed[p]

\* Newer than all the matches of the player in the history an attempt read.
NewerThanKnown(r, m) == \A k \in r.history : Player \in Participants[k] => k < m

(***************************************************************************)
(* A successful fetch misses no match that is newer than all the player    *)
(* was known to have played: pages shift while matches are played, and     *)
(* details stored for somebody else are not mistaken for the player's      *)
(* history (profile.py:142-175, 268-279).                                  *)
(***************************************************************************)
NewestComplete ==
    \A a \in Attempts : fetch[a].pc = "succeeded" =>
        \A m \in Listed(Player, fetch[a].base) : NewerThanKnown(fetch[a], m) => m \in Result(a)

(***************************************************************************)
(* Every attempt ends, though pages shift while it reads them: the loop    *)
(* of profile.py:142 always reaches a short page or a known match.         *)
(***************************************************************************)
EveryFetchEnds ==
    \A a \in Attempts : (fetch[a].pc \in Running) ~> (fetch[a].pc \in Ended)

(***************************************************************************)
(* What the documents promise of a first population: when no attempt has   *)
(* succeeded before, the fetch pages through all matches of the player     *)
(* (docs/development.md:141, README.md:215, test_profile_fetch_job.py:188).*)
(***************************************************************************)
InitialComplete ==
    \A a \in Attempts :
        /\ fetch[a].pc = "succeeded"
        /\ \A b \in Attempts \ {a} : fetch[b].pc # "succeeded"
        => Listed(Player, fetch[a].base) \subseteq Result(a)
=============================================================================
