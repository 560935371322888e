-------------------------- MODULE MCMatchHistory --------------------------
EXTENDS MatchHistory

\* The player takes part in every match, the other one in every second.
AllAndOdd == [m \in 1 .. MaxMatches |->
    {Player} \cup (IF m % 2 = 1 THEN Players ELSE {})]
=============================================================================
