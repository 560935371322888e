--------------------------- MODULE LadderMatches ---------------------------
(***************************************************************************)
(* The second half of a ladder players job in the mode ladder_and_matches  *)
(* (_discover_and_fetch_matches in jobs/ladder_players.py): read the pages *)
(* of the match ids of every player, those that fail again in up to Passes *)
(* later passes; keep all ids as references; fetch the details the store   *)
(* lacks; link players to the matches whose details are there.             *)
(*                                                                         *)
(* As in MatchHistory, matches are numbered in the order in which they are *)
(* played and a page is a set.  Riot lists them newest first, and a page   *)
(* may come from the response cache: then it is a page of the list as it   *)
(* was when somebody fetched it.                                           *)
(***************************************************************************)
EXTENDS LadderPlayers, Sequences

CONSTANTS
    MatchJob,       \* the attempt that goes on to the matches
    MaxMatches,     \* bound: matches ever played
    FirstMatches,   \* bound: matches played before the job
    Participants,   \* the players of each match
    PageSize,       \* MATCH_ID_PAGE_SIZE
    Passes          \* DEFERRED_RETRY_PASSES

Matches == 1 .. MaxMatches
Starts == {k * PageSize : k \in 0 .. MaxMatches}

ASSUME MatchConstantsOK ==
    /\ MatchJob \in Jobs
    /\ MaxMatches \in Nat /\ FirstMatches \in 0 .. MaxMatches
    /\ Participants \in [Matches -> SUBSET Players]
    /\ PageSize \in Nat \ {0} /\ Passes \in Nat

VARIABLES
    played,     \* the time at which each match was played
    pages,      \* riot_response_cache: of a player and a start, how many
                \* matches were played when the page was fetched
    references, \* player_match_references, as pairs
    stored,     \* riot_matches
    links,      \* player_matches, as pairs
    scan,       \* local state of MatchJob after its ladder is replaced
    removed,    \* history: links to matches the manager deleted
    missed      \* history: players for whom a page was older than the one before

matchVars == <<played, pages, references, stored, links, scan, removed, missed>>
tables == <<references, stored, links>>
vars == <<ladderVars, matchVars>>

Played == Len(played)

(***************************************************************************)
(* The scan: its phase, the pages to begin with in this pass, those that   *)
(* failed in it and the page at hand, how many passes were made, the       *)
(* matches there were at first, the ids found as pairs of player and       *)
(* match, the matches whose details are available or left to fetch, the    *)
(* one at hand, the players left to write, and the two kinds of errors.    *)
(* A page is a player, a start, and how many matches were played when the  *)
(* page before it was fetched.                                             *)
(***************************************************************************)
NoScan == [pc |-> "idle", todo |-> {}, failed |-> {}, page |-> {}, pass |-> 0,
           base |-> 0, found |-> {}, available |-> {}, details |-> {}, match |-> {},
           left |-> {}, unread |-> {}, unfetched |-> {}]

Init ==
    /\ LadderInit
    /\ played = [m \in 1 .. FirstMatches |-> 0]
    /\ pages = {}
    /\ references = {}
    /\ stored = {}
    /\ links = {}
    /\ scan = NoScan
    /\ removed = {}
    /\ missed = {}

Listed == Puuids(job[MatchJob].rows)

Found(p) == {m \in Matches : <<p, m>> \in scan.found}

FoundMatches == {f[2] : f \in scan.found}

-----------------------------------------------------------------------------
(* Pages of match ids.                                                     *)

\* Riot's list of a player when n matches were played.
ListAt(p, n) == {m \in 1 .. n : p \in Participants[m]}

PageAt(p, start, n) ==
    {m \in ListAt(p, n) :
        Cardinality({k \in ListAt(p, n) : k > m}) \in start .. start + PageSize - 1}

\* What the client may answer: the list as it is, or a page the cache holds.
AgesOf(p, start) ==
    {Played} \cup {page.age : page \in {c \in pages : c.player = p /\ c.start = start}}

Put(p, start) ==
    {c \in pages : ~(c.player = p /\ c.start = start)}
    \cup {[player |-> p, start |-> start, age |-> Played]}

BeginScan ==
    /\ scan.pc = "idle"
    /\ job[MatchJob].pc = "replaced"
    /\ scan' = [scan EXCEPT !.pc = "scan", !.base = Played,
                            !.todo = {[player |-> p, start |-> 0, age |-> Played] : p \in Listed}]
    /\ UNCHANGED <<ladderVars, played, pages, tables, removed, missed>>

\* The next player of the pass.
NextPlayer(next) ==
    /\ scan.pc = "scan"
    /\ scan.page = {}
    /\ next \in scan.todo
    /\ scan' = [scan EXCEPT !.page = {next}, !.todo = @ \ {next}]
    /\ UNCHANGED <<ladderVars, played, pages, tables, removed, missed>>

\* variant: the next page starts one match too late
NextPageSkipping(page, n) ==
    IF Cardinality(PageAt(page.player, page.start, n)) < PageSize
    THEN {}
    ELSE {[page EXCEPT !.start = @ + PageSize + 1, !.age = n]}

\* The page that follows a full one.
NextPage(page, n) ==
    IF Cardinality(PageAt(page.player, page.start, n)) < PageSize
    THEN {}
    ELSE {[page EXCEPT !.start = @ + PageSize, !.age = n]}

IdsOf(page, n) == {<<page.player, m>> : m \in PageAt(page.player, page.start, n)}

ReadPage(page, n) ==
    /\ scan.pc = "scan"
    /\ page \in scan.page
    /\ n \in AgesOf(page.player, page.start)
    /\ scan' = [scan EXCEPT !.found = @ \cup IdsOf(page, n), !.page = NextPage(page, n)]
    /\ pages' = IF n = Played THEN Put(page.player, page.start) ELSE pages
    /\ missed' = IF n < page.age THEN missed \cup {page.player} ELSE missed
    /\ UNCHANGED <<ladderVars, played, tables, removed>>

\* A later pass goes on where the player's pages failed.
Defer(page) == scan.failed \cup {page}

\* The request raises, or the progress cannot be written after the ids of
\* the page were added.
PageRaises(page, ids) ==
    /\ scan.pc = "scan"
    /\ page \in scan.page
    /\ Happens
    /\ scan' = [scan EXCEPT !.found = @ \cup ids, !.page = {}, !.failed = Defer(page)]
    /\ UNCHANGED <<now, identities, target, job, played, pages, tables, removed, missed>>

EndPass ==
    IF scan.failed = {} \/ scan.pass = Passes
    THEN scan' = [scan EXCEPT !.pc = "references", !.left = Listed, !.failed = {},
                              !.unread = {page.player : page \in scan.failed}]
    ELSE scan' = [scan EXCEPT !.todo = @ \cup scan.failed, !.failed = {}, !.pass = @ + 1]

PassEnds ==
    /\ scan.pc = "scan"
    /\ scan.page = {} /\ scan.todo = {}
    /\ EndPass
    /\ UNCHANGED <<ladderVars, played, pages, tables, removed, missed>>

-----------------------------------------------------------------------------
(* References, details and links.                                          *)

SaveReferences(p) ==
    /\ scan.pc = "references"
    /\ p \in scan.left
    /\ references' = references \cup ({p} \X Found(p))
    /\ scan' = [scan EXCEPT !.left = @ \ {p}]
    /\ UNCHANGED <<ladderVars, played, pages, stored, links, removed, missed>>

LookUp ==
    /\ scan.pc = "references"
    /\ scan.left = {}
    /\ scan' = [scan EXCEPT !.pc = "details", !.available = FoundMatches \cap stored,
                            !.details = FoundMatches \ stored]
    /\ UNCHANGED <<ladderVars, played, pages, tables, removed, missed>>

SaveDetail(m) ==
    /\ scan.pc = "details"
    /\ m \in scan.details
    /\ stored' = stored \cup {m}
    /\ scan' = [scan EXCEPT !.pc = "hydrate", !.details = @ \ {m}, !.match = {m}]
    /\ UNCHANGED <<ladderVars, played, pages, references, links, removed, missed>>

DetailRaises(m) ==
    /\ scan.pc = "details"
    /\ m \in scan.details
    /\ Happens
    /\ scan' = [scan EXCEPT !.details = @ \ {m}, !.unfetched = @ \cup {m}]
    /\ UNCHANGED <<now, identities, target, job, played, pages, tables, removed, missed>>

ObservedIn(m, players) == ObservedAt(Participants[m] \cap players, played[m])

Hydrate(m) ==
    /\ scan.pc = "hydrate"
    /\ m \in scan.match
    /\ identities' = Upsert(ObservedIn(m, Players))
    /\ scan' = [scan EXCEPT !.pc = "details", !.match = {}, !.available = @ \cup {m}]
    /\ UNCHANGED <<now, target, job, events, played, pages, tables, removed, missed>>

\* variant: the match that was saved is not reported when its players are not
ForgetUnhydrated(m) == {}

Report(m) == {m}

\* The match stays, some of its players are written, and it is an error.
HydrateRaises(m, players) ==
    /\ scan.pc = "hydrate"
    /\ m \in scan.match
    /\ Happens
    /\ identities' = Upsert(ObservedIn(m, players))
    /\ scan' = [scan EXCEPT !.pc = "details", !.match = {}, !.unfetched = @ \cup Report(m)]
    /\ UNCHANGED <<now, target, job, played, pages, tables, removed, missed>>

DetailsDone ==
    /\ scan.pc = "details"
    /\ scan.details = {}
    /\ scan' = [scan EXCEPT !.pc = "link", !.left = Listed]
    /\ UNCHANGED <<ladderVars, played, pages, tables, removed, missed>>

Link(p) ==
    /\ scan.pc = "link"
    /\ p \in scan.left
    /\ Found(p) \cap scan.available \subseteq stored
    /\ links' = links \cup ({p} \X (Found(p) \cap scan.available))
    /\ scan' = [scan EXCEPT !.left = @ \ {p}]
    /\ UNCHANGED <<ladderVars, played, pages, references, stored, removed, missed>>

ScanFails == scan' = [scan EXCEPT !.pc = "failed"]

\* The foreign key refuses the statement.
LinkRefused(p) ==
    /\ scan.pc = "link"
    /\ p \in scan.left
    /\ ~(Found(p) \cap scan.available \subseteq stored)
    /\ ScanFails
    /\ UNCHANGED <<ladderVars, played, pages, tables, removed, missed>>

LinksDone ==
    /\ scan.pc = "link"
    /\ scan.left = {}
    /\ scan' = [scan EXCEPT !.pc = "done"]
    /\ UNCHANGED <<ladderVars, played, pages, tables, removed, missed>>

\* A call outside the handled ones raises, or the job is cancelled or dies.
FailScan ==
    /\ scan.pc \notin {"idle", "done", "failed"}
    /\ Happens
    /\ ScanFails
    /\ UNCHANGED <<now, identities, target, job, played, pages, tables, removed, missed>>

-----------------------------------------------------------------------------
(* What others do.                                                         *)

Play ==
    /\ Played < MaxMatches
    /\ played' = Append(played, now)
    /\ UNCHANGED <<ladderVars, pages, tables, scan, removed, missed>>

\* A profile fetch or another call of the client fills the cache.
OthersFetchPage(p, start) ==
    /\ Happens
    /\ pages' = Put(p, start)
    /\ UNCHANGED <<now, identities, target, job, played, tables, scan, removed, missed>>

\* Another job, or the manager, saves a match and the names in it.
OthersSave(m) ==
    /\ Happens
    /\ m \in DOMAIN played
    /\ stored' = stored \cup {m}
    /\ identities' = Upsert(ObservedIn(m, Players))
    /\ UNCHANGED <<now, target, job, played, pages, references, links, scan, removed, missed>>

\* DELETE /manager/api/matches/{match_id}: the links go with the row.
DeleteMatch(m) ==
    /\ Happens
    /\ m \in stored
    /\ stored' = stored \ {m}
    /\ links' = {l \in links : l[2] # m}
    /\ removed' = removed \cup (Players \X {m})
    /\ UNCHANGED <<now, identities, target, job, played, pages, references, scan, missed>>

ScanStep ==
    \/ BeginScan \/ PassEnds \/ LookUp \/ DetailsDone \/ LinksDone
    \/ \E next \in scan.todo : NextPlayer(next)
    \/ \E page \in scan.page :
          \/ \E n \in 0 .. Played : ReadPage(page, n) \/ PageRaises(page, IdsOf(page, n))
          \/ PageRaises(page, {})
    \/ \E p \in Players : SaveReferences(p) \/ Link(p) \/ LinkRefused(p)
    \/ \E m \in scan.details : SaveDetail(m) \/ DetailRaises(m)
    \/ \E m \in scan.match :
          Hydrate(m) \/ \E players \in SUBSET Participants[m] : HydrateRaises(m, players)

\* The steps of the ladders, the steps of the matches, and what changes both.
LaddersNext ==
    \/ Tick
    \/ \E j \in Jobs : Begin(j) \/ PlayersStep(j) \/ Fail(j)
    \/ \E p \in Players, t \in 0 .. now : RouteObserves(p, t)

MatchesNext ==
    \/ ScanStep
    \/ FailScan
    \/ \E p \in Players, start \in Starts : OthersFetchPage(p, start)
    \/ \E m \in Matches : DeleteMatch(m)

Others == Play \/ \E m \in Matches : OthersSave(m)

Next == (LaddersNext /\ UNCHANGED matchVars) \/ MatchesNext \/ Others

Spec == Init /\ [][Next]_vars

\* An attempt that has begun takes its next step, and a transaction that
\* waits for another is resumed.
FairSpec ==
    /\ Spec
    /\ \A j \in Jobs : WF_vars(PlayersStep(j) /\ UNCHANGED matchVars)
    /\ WF_vars(ScanStep)

-----------------------------------------------------------------------------
(* Properties.                                                             *)

PageRecords == [player : Players, start : Nat, age : 0 .. MaxMatches]

TypeOK ==
    /\ LadderTypeOK
    /\ played \in Seq(Nat) /\ Played \in FirstMatches .. MaxMatches
    /\ pages \subseteq PageRecords
    /\ \A c, d \in pages : c.player = d.player /\ c.start = d.start => c = d
    /\ references \subseteq Players \X Matches
    /\ stored \subseteq DOMAIN played
    /\ links \subseteq Players \X stored
    /\ scan.todo \cup scan.failed \cup scan.page \subseteq PageRecords
    /\ scan.pass \in 0 .. Passes
    /\ scan.found \subseteq Players \X Matches
    /\ scan.available \cap (scan.details \cup scan.match \cup scan.unfetched) = {}
    /\ scan.left \cup scan.unread \cup missed \subseteq Players

\* _scan_match_id_pages: of a player whose ids are not reported as an error,
\* every match there was when the scan began has been found, however many
\* more were played between two pages or two passes.  The pages must not
\* come from the response cache in an order that goes back in time.
ScanComplete ==
    scan.pc \in {"references", "details", "hydrate", "link", "done"} =>
        \A p \in Listed \ (scan.unread \cup missed) : ListAt(p, scan.base) \subseteq Found(p)

\* What a job found is kept as a reference, and the player is linked to the
\* match, unless the result reports the match as an error or the manager
\* deleted it meanwhile: a detail that fails half way is not lost in silence.
FoundIsKept ==
    scan.pc = "done" =>
        /\ scan.found \subseteq references
        /\ \A f \in scan.found : f \in links \cup removed \/ f[2] \in scan.unfetched

\* A fetch that began ends: neither a transaction that waits for another one
\* nor pages that fail again keep it for ever.
LadderFetchEnds ==
    /\ \A j \in Jobs : job[j].pc = "ladder" ~> job[j].pc \in {"replaced", "failed"}
    /\ scan.pc = "scan" ~> scan.pc \in {"done", "failed"}

=============================================================================
