-------------------------- MODULE MCLadderMatches --------------------------
EXTENDS LadderMatches

CONSTANTS p, q

\* A ladder without the second player, and the whole one.
SomeLadders == {{p}, {p, q}}

\* One player takes part in every match, the other in every second.
AllAndOdd == [m \in 1 .. MaxMatches |-> IF m % 2 = 1 THEN {p, q} ELSE {p}]

(***************************************************************************)
(* Once its ladder is stored, an attempt shares nothing with the ladders   *)
(* of others but the identities, which the matches only write.  So a       *)
(* behaviour is about one half: ladders, with one failure or write of      *)
(* others, or the matches of an attempt whose ladder was stored at the     *)
(* beginning, with as many as MaxEvents.                                   *)
(***************************************************************************)
VARIABLE half

\* The ladder that is stored at first lacks the second player.
BoundInit ==
    /\ Init
    /\ Puuids(target) = {p}
    /\ half \in {"ladders", "matches"}

\* The attempt with the matches, just after its transaction.
StoredAtFirst ==
    /\ half = "matches"
    /\ job[MatchJob].pc = "idle"
    /\ \E ladder \in Ladders :
          /\ target' = {Row(x, MatchJob, {}) : x \in ladder}
          /\ job' = [job EXCEPT ![MatchJob].pc = "replaced", ![MatchJob].rows = target']
    /\ UNCHANGED <<now, identities, events, matchVars>>

HalfNext ==
    \/ /\ half = "ladders"
       /\ \/ LaddersNext /\ UNCHANGED matchVars
          \/ \E m \in Matches : OthersSave(m)
       /\ events' <= 1
    \/ half = "matches" /\ job[MatchJob].pc = "replaced" /\ (MatchesNext \/ Others)

BoundSpec ==
    /\ BoundInit
    /\ [][(StoredAtFirst \/ HalfNext) /\ UNCHANGED half]_<<vars, half>>
    /\ \A j \in Jobs :
          WF_vars(half = "ladders" /\ PlayersStep(j) /\ UNCHANGED <<matchVars, half>>)
    /\ WF_vars(half = "matches" /\ ScanStep /\ UNCHANGED half)
=============================================================================
