------------------------- MODULE MCRedisRateLimiter -------------------------
EXTENDS RedisRateLimiter

\* A short window and a longer one, neither with room for automatic calls
\* before the unlock time.
TwoLimits == <<[count |-> 1, window |-> 1], [count |-> 2, window |-> 2]>>

=============================================================================
