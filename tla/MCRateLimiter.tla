--------------------------- MODULE MCRateLimiter ---------------------------
EXTENDS RateLimiter

\* A short and a long window, as in the development key of Riot, each with a
\* share for manual calls.
TwoLimits == <<[count |-> 2, window |-> 2], [count |-> 3, window |-> 4]>>

\* One window, half of which is the share of manual calls.
OneLimit == <<[count |-> 4, window |-> 6]>>

=============================================================================
