------------------------------ MODULE MCStores ------------------------------
(***************************************************************************)
(* What the service keeps in PostgreSQL for its readers, in one run: a     *)
(* behaviour is about the cached answers of Riot, the profile views of     *)
(* jobs, or the listings of jobs.                                          *)
(***************************************************************************)
EXTENDS RiotCache, ProfileView

CONSTANTS account, summoner, other

VARIABLE part

\* Two resources that are cached, and one with a TTL of zero that is not.
MixedTTL == [k \in Keys |-> IF k = other THEN 0 ELSE 1]

StoresInit ==
    /\ part \in {"entries", "views", "lists"}
    /\ Init
    /\ ViewInit
    /\ part # "views" => cache = "none"

\* A view tells rows apart by their order, which their ids suffice for; a
\* listing by whether they are active, and all ends are alike.
StoresNext ==
    \/ part = "entries" /\ Next /\ UNCHANGED viewVars
    \/ /\ part = "views"
       /\ ViewNext \/ CacheNext \/ (RowsNext /\ UNCHANGED <<cache, view>>)
       /\ UNCHANGED vars
    \/ /\ part = "lists"
       /\ ClockTick \/ ListingNext \/ DraftsNext \/ \E r \in rows : MarkFailed(r)
       /\ UNCHANGED <<cache, view, vars>>

StoresSpec == StoresInit /\ [][StoresNext /\ UNCHANGED part]_<<part, vars, viewVars>>

=============================================================================
