------------------------- MODULE RateLimiterProofs -------------------------
(***************************************************************************)
(* The limiter never exceeds its budget: for any limits, callers, retries, *)
(* pauses and lateness of the event loop.                                  *)
(*                                                                         *)
(* The argument relates each deque to the history of all reservations: it  *)
(* is the end of the history, and everything before it left the window.    *)
(* A reservation is granted only when every deque is shorter than its      *)
(* count, so the reservation count places earlier is one that left.        *)
(***************************************************************************)
EXTENDS RateLimiter, CountingLemmas, TLAPS, FiniteSetTheorems

\* Time never runs backwards along the history.
Ordered ==
    \A k \in 1 .. Len(grants) :
        /\ grants[k].at <= now
        /\ \A j \in 1 .. k : grants[j].at <= grants[k].at

Inv == TypeOK /\ Ordered /\ WindowsComplete /\ WithinLimits

-----------------------------------------------------------------------------
(* What the loop that drops expired reservations leaves of a deque.        *)

LEMMA SeqElement ==
    ASSUME NEW S, NEW q \in Seq(S), NEW k \in 1 .. Len(q)
    PROVE  q[k] \in S
OBVIOUS

LEMMA LimitType ==
    ASSUME NEW i \in Windows
    PROVE  Limits[i].count \in Nat \ {0} /\ Limits[i].window \in Nat \ {0}
<1>1. Limits \in Seq([count : Nat \ {0}, window : Nat \ {0}])
  BY LimitsOK
<1>2. i \in 1 .. Len(Limits)
  BY <1>1 DEF Windows
<1>3. Limits[i] \in [count : Nat \ {0}, window : Nat \ {0}]
  BY <1>1, <1>2, SeqElement
<1>4. QED
  BY <1>3

LEMMA ReservationType ==
    ASSUME NEW q \in Seq(Reservations), NEW k \in 1 .. Len(q)
    PROVE  q[k] \in Reservations /\ q[k].at \in Nat
<1>1. q[k] \in Reservations
  OBVIOUS
<1>2. QED
  BY <1>1 DEF Reservations

LEMMA LiveFacts ==
    ASSUME TypeOK, Ordered, WindowsComplete, NEW i \in Windows
    PROVE  \E n \in 0 .. Len(windows[i]) :
              /\ Live(i) \in Seq(Reservations)
              /\ Len(Live(i)) = Len(windows[i]) - n
              /\ \A k \in 1 .. Len(Live(i)) : Live(i)[k] = windows[i][n + k]
              /\ \A k \in 1 .. n : windows[i][k].at + Limits[i].window <= now
              /\ \A k \in 1 .. Len(Live(i)) : Live(i)[k].at + Limits[i].window > now
<1> DEFINE q == windows[i]
           n == Cardinality(Expired(i))
           forgotten == Len(grants) - Len(q)
<1>1. /\ q \in Seq(Reservations) /\ Len(q) \in Nat /\ now \in Nat
      /\ grants \in Seq(Reservations) /\ Len(grants) \in Nat
      /\ Limits[i].window \in Nat
  BY LimitType DEF TypeOK
<1>2. forgotten >= 0 /\ \A k \in 1 .. Len(q) : q[k] = grants[forgotten + k]
  BY DEF WindowsComplete, WindowComplete
<1>3. \A k \in 1 .. Len(q) : q[k].at \in Nat
  BY <1>1, ReservationType
<1>4. \A k \in 1 .. Len(q) : \A j \in 1 .. k : q[j].at <= q[k].at
  <2> SUFFICES ASSUME NEW k \in 1 .. Len(q), NEW j \in 1 .. k
               PROVE  q[j].at <= q[k].at
    OBVIOUS
  <2>1. j \in 1 .. Len(q) /\ j <= k
    BY <1>1
  <2>2. q[k] = grants[forgotten + k] /\ q[j] = grants[forgotten + j]
    BY <1>2, <2>1
  <2>3. forgotten \in Nat /\ forgotten + Len(q) = Len(grants)
    BY <1>1, <1>2
  <2> HIDE DEF forgotten, q
  <2>4. forgotten + k \in 1 .. Len(grants) /\ forgotten + j \in 1 .. (forgotten + k)
    BY <1>1, <2>1, <2>3
  <2>5. QED
    BY <2>2, <2>4 DEF Ordered
<1>5. Expired(i) = {k \in 1 .. Len(q) : q[k].at + Limits[i].window <= now}
  BY <1>1 DEF Expired
<1>6. \A k \in Expired(i) : \A j \in 1 .. k : j \in Expired(i)
  BY <1>1, <1>3, <1>4, <1>5
<1>7. n \in 0 .. Len(q) /\ Expired(i) = 1 .. n
  BY <1>1, <1>5, <1>6, Prefix
<1>8. Live(i) = SubSeq(q, n + 1, Len(q))
  BY DEF Live
<1> HIDE DEF n, q
<1>9. /\ Live(i) \in Seq(Reservations)
      /\ Len(Live(i)) = Len(q) - n
      /\ \A k \in 1 .. Len(Live(i)) : Live(i)[k] = q[n + k]
  BY <1>1, <1>7, <1>8
<1>10. \A k \in 1 .. n : q[k].at + Limits[i].window <= now
  BY <1>5, <1>7
<1>11. \A k \in 1 .. Len(Live(i)) : Live(i)[k].at + Limits[i].window > now
  <2> SUFFICES ASSUME NEW k \in 1 .. Len(Live(i))
               PROVE  Live(i)[k].at + Limits[i].window > now
    OBVIOUS
  <2>1. n + k \in 1 .. Len(q) /\ n + k \notin 1 .. n
    BY <1>1, <1>7, <1>9
  <2>2. ~(q[n + k].at + Limits[i].window <= now)
    BY <1>5, <1>7, <2>1
  <2>3. QED
    BY <1>1, <1>3, <1>9, <2>1, <2>2
<1>12. QED
  BY <1>7, <1>9, <1>10, <1>11 DEF q

\* Dropping what expired keeps the deque the end of the history.
LEMMA LiveComplete ==
    ASSUME TypeOK, Ordered, WindowsComplete, NEW i \in Windows
    PROVE  LET forgotten == Len(grants) - Len(Live(i)) IN
           /\ forgotten >= 0
           /\ \A k \in 1 .. Len(Live(i)) : Live(i)[k] = grants[forgotten + k]
           /\ \A k \in 1 .. forgotten : grants[k].at + Limits[i].window <= now
<1> DEFINE f == Len(grants) - Len(windows[i])
           g == Len(grants) - Len(Live(i))
<1>1. PICK n \in 0 .. Len(windows[i]) :
         /\ Live(i) \in Seq(Reservations)
         /\ Len(Live(i)) = Len(windows[i]) - n
         /\ \A k \in 1 .. Len(Live(i)) : Live(i)[k] = windows[i][n + k]
         /\ \A k \in 1 .. n : windows[i][k].at + Limits[i].window <= now
  BY LiveFacts
<1>2. /\ f >= 0
      /\ \A k \in 1 .. Len(windows[i]) : windows[i][k] = grants[f + k]
      /\ \A k \in 1 .. f : grants[k].at + Limits[i].window <= now
  BY DEF WindowsComplete, WindowComplete
<1>3. Len(grants) \in Nat /\ Len(windows[i]) \in Nat /\ Len(Live(i)) \in Nat
  BY <1>1 DEF TypeOK
<1>4. f \in Nat /\ n \in Nat /\ g = f + n
  BY <1>1, <1>2, <1>3
<1>5. ASSUME NEW k \in 1 .. Len(Live(i))
      PROVE  Live(i)[k] = grants[g + k]
  <2>1. n + k \in 1 .. Len(windows[i]) /\ f + (n + k) = g + k
    BY <1>1, <1>3, <1>4
  <2>2. QED
    BY <1>1, <1>2, <2>1
<1>6. ASSUME NEW k \in 1 .. g
      PROVE  grants[k].at + Limits[i].window <= now
  <2>1. CASE k \in 1 .. f
    BY <1>2, <2>1
  <2>2. CASE k \notin 1 .. f
    <3>1. k \in Nat /\ k <= f + n /\ k > f /\ n <= Len(windows[i])
      BY <1>1, <1>3, <1>4, <2>2
    <3> HIDE DEF f, g
    <3>2. k - f \in 1 .. n /\ k - f \in 1 .. Len(windows[i]) /\ f + (k - f) = k
      BY <1>3, <1>4, <3>1
    <3> USE DEF f, g
    <3>3. windows[i][k - f] = grants[k]
      BY <1>2, <3>2
    <3>4. QED
      BY <1>1, <3>2, <3>3
  <2>3. QED
    BY <2>1, <2>2
<1>7. g >= 0
  BY <1>4
<1>8. QED
  BY <1>5, <1>6, <1>7

\* When no window makes an automatic or manual call wait, none is full.
LEMMA OpenIsNotFull ==
    ASSUME TypeOK, Ordered, WindowsComplete, NEW c, NEW i \in Windows, OpensAt(c, i) <= now
    PROVE  Len(Live(i)) < Limits[i].count
<1> SUFFICES ASSUME Full(i)
             PROVE  FALSE
  BY LimitType, LiveFacts DEF Full
<1>1. PICK n \in 0 .. Len(windows[i]) :
         /\ Live(i) \in Seq(Reservations)
         /\ \A k \in 1 .. Len(Live(i)) : Live(i)[k].at + Limits[i].window > now
  BY LiveFacts
<1>2. 1 \in 1 .. Len(Live(i))
  BY <1>1, LimitType DEF Full
<1>3. OpensAt(c, i) = Live(i)[1].at + Limits[i].window
  BY DEF OpensAt, Reached
<1>4. Live(i)[1].at \in Nat /\ Limits[i].window \in Nat /\ now \in Nat
  BY <1>1, <1>2, LimitType, ReservationType DEF TypeOK
<1>5. QED
  BY <1>1, <1>2, <1>3, <1>4

-----------------------------------------------------------------------------
(* The invariant is inductive.                                             *)

LEMMA InvInit == Init => Inv
<1> SUFFICES ASSUME Init
             PROVE  Inv
  OBVIOUS
<1>1. TypeOK
  BY LimitsOK DEF Init, TypeOK, Places
<1>2. Len(grants) = 0 /\ \A i \in Windows : Len(windows[i]) = 0
  BY DEF Init
<1>3. Ordered /\ WithinLimits
  BY <1>2 DEF Ordered, WithinLimits
<1>4. WindowsComplete
  BY <1>2 DEF WindowsComplete, WindowComplete
<1>5. QED
  BY <1>1, <1>3, <1>4 DEF Inv

\* Steps that make no reservation and may drop expired ones.
LEMMA InvDrop ==
    ASSUME Inv, TypeOK', UNCHANGED <<now, grants>>,
           \A i \in Windows : windows'[i] \in {windows[i], Live(i)}
    PROVE  Inv'
<1>1. Ordered' /\ WithinLimits'
  BY DEF Inv, Ordered, WithinLimits
<1>2. ASSUME NEW i \in Windows
      PROVE  WindowComplete(i)'
  <2>1. CASE windows'[i] = windows[i]
    BY <2>1 DEF Inv, WindowsComplete, WindowComplete
  <2>2. CASE windows'[i] = Live(i)
    BY <2>2, LiveComplete DEF Inv, WindowComplete
  <2>3. QED
    BY <2>1, <2>2
<1>3. QED
  BY <1>1, <1>2 DEF Inv, WindowsComplete

LEMMA InvTick == Inv /\ Tick => Inv'
<1> SUFFICES ASSUME Inv, Tick
             PROVE  Inv'
  OBVIOUS
<1>1. TypeOK'
  BY DEF Inv, Tick, TypeOK, caller
<1>2. \A k \in 1 .. Len(grants) : grants[k].at \in Nat
  BY ReservationType DEF Inv, TypeOK
<1>3. now \in Nat /\ now' = now + 1 /\ UNCHANGED <<windows, grants>>
  BY DEF Inv, TypeOK, Tick
<1>4. Ordered' /\ WithinLimits'
  BY <1>2, <1>3 DEF Inv, Ordered, WithinLimits
<1>5. ASSUME NEW i \in Windows
      PROVE  WindowComplete(i)'
  <2>1. Limits[i].window \in Nat
    BY LimitType
  <2>2. Len(grants) \in Nat /\ Len(windows[i]) \in Nat
    BY DEF Inv, TypeOK
  <2>3. WindowComplete(i)
    BY DEF Inv, WindowsComplete
  <2>4. ASSUME NEW k \in 1 .. Len(grants) - Len(windows[i])
        PROVE  grants[k].at + Limits[i].window <= now + 1
    <3>1. k \in 1 .. Len(grants)
      BY <2>2
    <3>2. grants[k].at + Limits[i].window <= now
      BY <2>3 DEF WindowComplete
    <3>3. QED
      BY <1>2, <1>3, <2>1, <3>1, <3>2
  <2>5. QED
    BY <1>3, <2>3, <2>4 DEF WindowComplete
<1>6. QED
  BY <1>1, <1>4, <1>5 DEF Inv, WindowsComplete

LEMMA LiveType ==
    ASSUME Inv, NEW i \in Windows
    PROVE  Live(i) \in Seq(Reservations)
BY LiveFacts DEF Inv

LEMMA InvGranted ==
    ASSUME Inv, NEW c \in Callers, AskGranted(c)
    PROVE  Inv'
<1> DEFINE r == Reserve(c)
           n == Len(grants)
<1>1. r \in Reservations /\ r.at = now
  BY DEF Inv, TypeOK, Reserve, Reservations
<1>2. /\ grants \in Seq(Reservations) /\ n \in Nat /\ now \in Nat
      /\ grants' = Append(grants, r) /\ UNCHANGED now
      /\ windows' = [i \in Windows |-> Append(Live(i), r)]
  BY DEF Inv, TypeOK, AskGranted
<1> HIDE DEF r
<1>3. /\ Len(grants') = n + 1 /\ grants'[n + 1] = r
      /\ \A k \in 1 .. n : grants'[k] = grants[k]
  BY <1>1, <1>2
<1>4. \A k \in 1 .. n : grants[k].at \in Nat /\ grants[k].at <= now
  BY <1>2, ReservationType DEF Inv, Ordered
<1>5. ASSUME NEW i \in Windows
      PROVE  /\ Live(i) \in Seq(Reservations) /\ Len(Live(i)) \in Nat
             /\ windows'[i] = Append(Live(i), r)
             /\ Len(windows'[i]) = Len(Live(i)) + 1
             /\ windows'[i][Len(Live(i)) + 1] = r
             /\ \A k \in 1 .. Len(Live(i)) : windows'[i][k] = Live(i)[k]
  <2>1. Live(i) \in Seq(Reservations)
    BY LiveType
  <2>2. QED
    BY <1>1, <1>2, <2>1
<1>6. TypeOK'
  <2>1. windows' \in [Windows -> Seq(Reservations)]
    BY <1>1, <1>2, LiveType
  <2>2. grants' \in Seq(Reservations)
    BY <1>1, <1>2
  <2>3. QED
    BY <2>1, <2>2 DEF Inv, TypeOK, AskGranted, Goto, Places
<1>7. Ordered'
  <2> SUFFICES ASSUME NEW k \in 1 .. (n + 1), NEW j \in 1 .. k
               PROVE  grants'[k].at <= now /\ grants'[j].at <= grants'[k].at
    BY <1>2, <1>3 DEF Ordered
  <2>1. CASE k = n + 1
    BY <1>1, <1>2, <1>3, <1>4, <2>1
  <2>2. CASE k \in 1 .. n
    <3>1. grants'[k] = grants[k] /\ grants'[j] = grants[j]
      BY <1>2, <1>3, <2>2
    <3>2. QED
      BY <2>2, <3>1 DEF Inv, Ordered
  <2>3. QED
    BY <1>2, <2>1, <2>2
<1>8. ASSUME NEW i \in Windows
      PROVE  WindowComplete(i)'
  <2> DEFINE f == n - Len(Live(i))
  <2>1. /\ f >= 0
        /\ \A k \in 1 .. Len(Live(i)) : Live(i)[k] = grants[f + k]
        /\ \A k \in 1 .. f : grants[k].at + Limits[i].window <= now
    BY LiveComplete DEF Inv
  <2>2. Len(grants') - Len(windows'[i]) = f
    BY <1>2, <1>3, <1>5
  <2>3. ASSUME NEW k \in 1 .. (Len(Live(i)) + 1)
        PROVE  windows'[i][k] = grants'[f + k]
    <3>1. CASE k = Len(Live(i)) + 1
      <4>1. f + k = n + 1
        BY <1>2, <1>5, <3>1
      <4>2. QED
        BY <1>3, <1>5, <3>1, <4>1
    <3>2. CASE k \in 1 .. Len(Live(i))
      <4>1. f + k \in 1 .. n
        BY <1>2, <1>5, <2>1, <3>2
      <4>2. QED
        BY <1>3, <1>5, <2>1, <3>2, <4>1
    <3>3. QED
      BY <1>5, <3>1, <3>2
  <2>4. ASSUME NEW k \in 1 .. f
        PROVE  grants'[k].at + Limits[i].window <= now
    <3>1. k \in 1 .. n
      BY <1>2, <1>5
    <3>2. QED
      BY <1>3, <2>1, <3>1
  <2>5. QED
    BY <1>2, <1>5, <2>1, <2>2, <2>3, <2>4 DEF WindowComplete
<1>9. ASSUME NEW i \in Windows, NEW k \in 1 .. (n + 1), k + Limits[i].count <= n + 1
      PROVE  grants'[k + Limits[i].count].at >= grants'[k].at + Limits[i].window
  <2> DEFINE last == k + Limits[i].count
  <2>1. Limits[i].count \in Nat \ {0} /\ Limits[i].window \in Nat \ {0}
    BY LimitType
  <2>2. last \in 1 .. (n + 1) /\ k \in 1 .. n /\ last \in Nat
    BY <1>2, <1>9, <2>1
  <2>3. CASE last = n + 1
    <3>1. OpensAt(c, i) <= now
      BY DEF AskGranted
    <3>2. Len(Live(i)) < Limits[i].count
      BY <3>1, OpenIsNotFull DEF Inv
    <3>3. k \in 1 .. (n - Len(Live(i)))
      BY <1>2, <1>5, <2>1, <2>3, <3>2
    <3>4. grants[k].at + Limits[i].window <= now
      BY <3>3, LiveComplete DEF Inv
    <3>5. QED
      BY <1>1, <1>2, <1>3, <1>4, <2>1, <2>2, <2>3, <3>4
  <2>4. CASE last \in 1 .. n
    <3>1. grants[last].at >= grants[k].at + Limits[i].window
      BY <1>2, <2>2, <2>4 DEF Inv, WithinLimits
    <3>2. QED
      BY <1>3, <2>2, <2>4, <3>1
  <2>5. last = n + 1 \/ last \in 1 .. n
    BY <1>2, <2>2
  <2>6. QED
    BY <2>3, <2>4, <2>5
<1>10. WithinLimits'
  BY <1>3, <1>9 DEF WithinLimits
<1>11. QED
  BY <1>6, <1>7, <1>8, <1>10 DEF Inv, WindowsComplete

LEMMA GotoType ==
    ASSUME TypeOK, NEW c \in Callers, NEW place \in Places, NEW time \in Nat, Goto(c, place, time)
    PROVE  pc' \in [Callers -> Places] /\ due' \in [Callers -> Nat]
BY DEF TypeOK, Goto

LEMMA EndType ==
    ASSUME TypeOK, NEW c \in Callers, End(c)
    PROVE  /\ pc' \in [Callers -> Places] /\ due' \in [Callers -> Nat]
           /\ attempts' \in [Callers -> 0 .. MaxRetries]
<1>1. "idle" \in Places /\ 0 \in Nat /\ 0 \in 0 .. MaxRetries
  BY LimitsOK DEF Places
<1>2. QED
  BY <1>1, GotoType DEF End, TypeOK

LEMMA InvStep == Inv /\ [Next]_vars => Inv'
<1> SUFFICES ASSUME Inv, [Next]_vars
             PROVE  Inv'
  OBVIOUS
<1>1. TypeOK /\ now \in Nat /\ blocked \in Nat
  BY DEF Inv, TypeOK
<1>2. CASE UNCHANGED vars
  <2>1. TypeOK'
    BY <1>1, <1>2 DEF vars, TypeOK
  <2>2. QED
    BY <1>2, <2>1, InvDrop DEF vars
<1>3. ASSUME NEW c \in Callers, Request(c)
      PROVE  Inv'
  <2>1. TypeOK'
    BY <1>1, <1>3 DEF Request, Goto, TypeOK, Places
  <2>2. QED
    BY <1>3, <2>1, InvDrop DEF Request
<1>4. ASSUME NEW c \in Callers, Answer(c) \/ Exceeded(c)
      PROVE  Inv'
  <2>1. TypeOK'
    BY <1>1, <1>4, EndType DEF Answer, Exceeded, TypeOK
  <2>2. QED
    BY <1>4, <2>1, InvDrop DEF Answer, Exceeded
<1>5. ASSUME NEW c \in Callers, NEW d \in RetryAfter, Throttled(c, d)
      PROVE  Inv'
  <2>1. attempts[c] \in 0 .. MaxRetries /\ attempts[c] < MaxRetries /\ MaxRetries \in Nat
        /\ d \in Nat /\ Pause(d) \in Nat
    BY <1>1, <1>5, LimitsOK DEF Throttled, TypeOK, Pause
  <2>2. attempts' \in [Callers -> 0 .. MaxRetries]
    BY <1>1, <1>5, <2>1 DEF Throttled, TypeOK
  <2>3. {"throttled", "asking"} \in SUBSET Places /\ now + d \in Nat
    BY <1>1, <2>1 DEF Places, Sleeping
  <2>4. pc' \in [Callers -> Places] /\ due' \in [Callers -> Nat] /\ blocked' \in Nat
    BY <1>1, <1>5, <2>1, <2>3, GotoType DEF Throttled
  <2>5. TypeOK'
    BY <1>1, <1>5, <2>2, <2>4 DEF Throttled, TypeOK
  <2>6. QED
    BY <1>5, <2>5, InvDrop DEF Throttled
<1>6. ASSUME NEW c \in Callers, NEW time \in Nat, WaitOrGiveUp(c, time),
             windows' \in [Windows -> Seq(Reservations)]
      PROVE  TypeOK'
  <2>1. "waiting" \in Places
    BY DEF Places, Sleeping
  <2>2. /\ pc' \in [Callers -> Places] /\ due' \in [Callers -> Nat]
        /\ attempts' \in [Callers -> 0 .. MaxRetries]
    BY <1>1, <1>6, <2>1, EndType, GotoType DEF WaitOrGiveUp, TypeOK
  <2>3. QED
    BY <1>1, <1>6, <2>2 DEF WaitOrGiveUp, TypeOK
<1>7. ASSUME NEW c \in Callers, AskBlocked(c)
      PROVE  Inv'
  <2>1. TypeOK'
    BY <1>1, <1>6, <1>7 DEF AskBlocked, TypeOK
  <2>2. QED
    BY <1>7, <2>1, InvDrop DEF AskBlocked, WaitOrGiveUp
<1>8. ASSUME NEW c \in Callers, AskHopeless(c)
      PROVE  Inv'
  <2>1. /\ windows' \in [Windows -> Seq(Reservations)]
        /\ \A i \in Windows : windows'[i] \in {windows[i], Live(i)}
    BY <1>1, <1>8, LiveType DEF AskHopeless, TypeOK
  <2>2. TypeOK'
    BY <1>1, <1>8, <2>1, EndType DEF AskHopeless, TypeOK
  <2>3. QED
    BY <1>8, <2>1, <2>2, InvDrop DEF AskHopeless
<1>9. ASSUME NEW c \in Callers, AskDelayed(c)
      PROVE  Inv'
  <2>1. PICK i \in Windows : OpensLast(c, i) /\ WaitOrGiveUp(c, OpensAt(c, i))
    BY <1>9 DEF AskDelayed
  <2>2. /\ windows' \in [Windows -> Seq(Reservations)]
        /\ \A k \in Windows : windows'[k] = Live(k)
    BY <1>9, LiveType DEF AskDelayed
  <2>3. OpensAt(c, i) \in Nat
    <3>1. Live(i) \in Seq(Reservations) /\ Limits[i].window \in Nat /\ Unlock \in Nat
          /\ Limits[i].count \in Nat \ {0}
      BY LiveType, LimitType, LimitsOK
    <3>2. CASE Full(i)
      <4>1. 1 \in 1 .. Len(Live(i))
        BY <3>1, <3>2 DEF Full
      <4>2. Live(i)[1].at \in Nat
        BY <3>1, <4>1, ReservationType
      <4>3. QED
        BY <3>1, <3>2, <4>2 DEF OpensAt, Reached
    <3>3. CASE ~Full(i) /\ Reached(c, i) /\ ~Unlocked(i)
      <4>1. Live(i) # <<>>
        BY <1>9, <3>3 DEF AskDelayed, Hopeless
      <4>2. 1 \in 1 .. Len(Live(i))
        BY <3>1, <4>1
      <4>3. Live(i)[1].at \in Nat
        BY <3>1, <4>2, ReservationType
      <4>4. OpensAt(c, i) = Live(i)[1].at + Limits[i].window - Unlock
        BY <3>3 DEF OpensAt
      <4>5. OpensAt(c, i) > now
        BY <2>1 DEF OpensLast
      <4>6. QED
        BY <1>1, <3>1, <4>3, <4>4, <4>5
    <3>4. CASE ~Full(i) /\ ~(Reached(c, i) /\ ~Unlocked(i))
      BY <1>1, <3>4 DEF OpensAt
    <3>5. QED
      BY <3>2, <3>3, <3>4
  <2>4. TypeOK'
    BY <1>6, <2>1, <2>2, <2>3
  <2>5. QED
    BY <2>1, <2>2, <2>4, InvDrop DEF WaitOrGiveUp
<1>10. QED
  BY <1>2, <1>3, <1>4, <1>5, <1>7, <1>8, <1>9, InvTick, InvGranted DEF Next, Ask

\* Every state is well formed; in particular no call is retried more often
\* than RIOT_RATE_LIMIT_MAX_RETRIES allows.
THEOREM LimiterTypes == Spec => []TypeOK
<1>1. Inv => TypeOK
  BY DEF Inv
<1>2. QED
  BY <1>1, InvInit, InvStep, PTL DEF Spec

\* Whatever the limits and however many callers there are, no interval as long
\* as a window holds more reservations than its limit.
THEOREM BudgetRespected == Spec => []WithinLimits
<1>1. Inv => WithinLimits
  BY DEF Inv
<1>2. QED
  BY <1>1, InvInit, InvStep, PTL DEF Spec

\* No deque forgets a reservation that still counts, whichever window refuses
\* and whatever asks that raise have pruned.
THEOREM DequesComplete == Spec => []WindowsComplete
<1>1. Inv => WindowsComplete
  BY DEF Inv
<1>2. QED
  BY <1>1, InvInit, InvStep, PTL DEF Spec

-----------------------------------------------------------------------------
(* The pause of a 429.                                                     *)

\* A caller that sleeps a pause has stored it, and it is only prolonged.
PauseInv == \A c \in Callers : pc[c] = "throttled" => due[c] <= blocked

\* A step of one caller that does not sleep a pause after it.
LEMMA PauseKept ==
    ASSUME TypeOK, PauseInv, NEW c \in Callers, NEW place \in Places \ {"throttled"}, NEW time,
           Goto(c, place, time), blocked' = blocked
    PROVE  PauseInv'
<1>1. pc' = [pc EXCEPT ![c] = place] /\ due' = [due EXCEPT ![c] = time] /\ place # "throttled"
  BY DEF Goto
<1>2. pc \in [Callers -> Places] /\ due \in [Callers -> Nat]
  BY DEF TypeOK
<1>3. ASSUME NEW d \in Callers, pc'[d] = "throttled" PROVE due'[d] <= blocked'
  <2>1. d # c /\ pc'[d] = pc[d] /\ due'[d] = due[d]
    BY <1>1, <1>2, <1>3
  <2>2. QED
    BY <1>3, <2>1 DEF PauseInv
<1>4. QED
  BY <1>3 DEF PauseInv

LEMMA PauseStep == Inv /\ PauseInv /\ [Next]_vars => PauseInv'
<1> SUFFICES ASSUME Inv, PauseInv, [Next]_vars PROVE PauseInv'
  OBVIOUS
<1>1. /\ TypeOK /\ now \in Nat /\ blocked \in Nat /\ RetryAfter \subseteq Nat
      /\ pc \in [Callers -> Places] /\ due \in [Callers -> Nat]
  BY LimitsOK DEF Inv, TypeOK
<1>2. {"idle", "asking", "waiting", "sent"} \subseteq Places \ {"throttled"}
  BY DEF Places, Sleeping
<1>3. CASE UNCHANGED <<pc, due, blocked>>
  BY <1>3 DEF PauseInv
<1>4. ASSUME NEW c \in Callers, Request(c) \/ Ask(c) \/ Answer(c) \/ Exceeded(c)
      PROVE  PauseInv'
  <2>1. CASE Request(c)
    BY <1>1, <1>2, <2>1, PauseKept DEF Request
  <2>2. ASSUME NEW time, WaitOrGiveUp(c, time) PROVE PauseInv'
    <3>1. blocked' = blocked /\ (End(c) \/ Goto(c, "waiting", time))
      BY <2>2 DEF WaitOrGiveUp
    <3>2. QED
      BY <1>1, <1>2, <3>1, PauseKept DEF End
  <2>3. CASE AskBlocked(c)
    BY <2>2, <2>3 DEF AskBlocked
  <2>4. CASE AskDelayed(c)
    BY <2>2, <2>4 DEF AskDelayed
  <2>5. CASE AskHopeless(c) \/ Answer(c) \/ Exceeded(c)
    <3>1. End(c) /\ blocked' = blocked
      BY <2>5 DEF AskHopeless, Answer, Exceeded
    <3>2. QED
      BY <1>1, <1>2, <3>1, PauseKept DEF End
  <2>6. CASE AskGranted(c)
    BY <1>1, <1>2, <2>6, PauseKept DEF AskGranted
  <2>7. QED
    BY <1>4, <2>1, <2>3, <2>4, <2>5, <2>6 DEF Ask
<1>5. ASSUME NEW c \in Callers, NEW d \in RetryAfter, Throttled(c, d)
      PROVE  PauseInv'
  <2>1. CASE d > 0
    <3>1. blocked' = Pause(d) /\ Goto(c, "throttled", now + d)
      BY <1>5, <2>1 DEF Throttled
    <3>2. now + d \in Nat /\ now + d <= blocked' /\ blocked <= blocked' /\ blocked' \in Nat
      BY <1>1, <3>1 DEF Pause
    <3>3. ASSUME NEW e \in Callers, pc'[e] = "throttled" PROVE due'[e] <= blocked'
      <4>1. CASE e = c
        BY <1>1, <3>1, <3>2, <4>1 DEF Goto
      <4>2. CASE e # c
        <5>1. pc[e] = "throttled" /\ due'[e] = due[e] /\ due[e] \in Nat
          BY <1>1, <3>1, <3>3, <4>2 DEF Goto
        <5>2. due[e] <= blocked
          BY <5>1 DEF PauseInv
        <5>3. QED
          BY <1>1, <3>2, <5>1, <5>2
      <4>3. QED
        BY <4>1, <4>2
    <3>4. QED
      BY <3>3 DEF PauseInv
  <2>2. CASE ~(d > 0)
    <3>1. blocked' = blocked /\ Goto(c, "asking", now)
      BY <1>5, <2>2 DEF Throttled
    <3>2. QED
      BY <1>1, <1>2, <3>1, PauseKept
  <2>3. QED
    BY <2>1, <2>2
<1>6. QED
  BY <1>3, <1>4, <1>5 DEF Next, Tick, caller, vars

\* While one caller waits out the Retry-After of its 429 nobody is granted a
\* request, however many 429 answers ask for whatever pauses.
THEOREM PauseBindsAll == Spec => PauseRespected
<1> DEFINE Sleeps == \E c \in Callers : pc[c] = "throttled" /\ now < due[c]
<1>1. Init => PauseInv
  BY DEF Init, PauseInv
<1>2. Inv /\ PauseInv /\ [Next]_vars => [Sleeps => UNCHANGED grants]_vars
  <2> SUFFICES ASSUME Inv, PauseInv, Next, NEW c \in Callers, pc[c] = "throttled", now < due[c]
               PROVE  grants' = grants
    OBVIOUS
  <2>1. due[c] <= blocked /\ due[c] \in Nat /\ blocked \in Nat /\ now \in Nat
    BY DEF PauseInv, Inv, TypeOK
  <2>2. ~(blocked <= now)
    BY <2>1
  <2>3. QED
    BY <2>2 DEF Next, Tick, Request, Ask, AskBlocked, AskHopeless, AskDelayed, AskGranted,
                WaitOrGiveUp, Answer, Exceeded, Throttled
<1>3. [Sleeps => UNCHANGED grants]_vars
      => [\A c \in Callers : pc[c] = "throttled" /\ now < due[c] => UNCHANGED grants]_vars
  OBVIOUS
<1>4. QED
  BY <1>1, <1>2, <1>3, InvInit, InvStep, PauseStep, PTL DEF Spec, PauseRespected

-----------------------------------------------------------------------------
(* The manual share.  What is true of a reservation when it is made stays  *)
(* true of the history: an automatic one was borrowed, or found less in    *)
(* the window than automatic calls may use.                                *)

Leaves(i, j) == grants[j].at + Limits[i].window

\* The reservations that were in the window when the k-th was made.
Present(i, k) == {j \in 1 .. k - 1 : Leaves(i, j) > grants[k].at}

Borrowed(i, k) ==
    \/ \E j \in Present(i, k) : Leaves(i, j) <= grants[k].at + Unlock
    \/ Present(i, k) = {} /\ Limits[i].window <= Unlock

ShareInv ==
    \A i \in Windows : \A k \in 1 .. Len(grants) :
        grants[k].automatic =>
            Borrowed(i, k) \/ Cardinality(Present(i, k)) < AutomaticCapacity(i)

LEMMA IntervalSize ==
    ASSUME NEW n \in Nat, NEW g \in 0 .. n
    PROVE  IsFiniteSet(g + 1 .. n) /\ Cardinality(g + 1 .. n) = n - g
<1>1. g + 1 \in Int /\ n \in Int
  OBVIOUS
<1>2. /\ IsFiniteSet(g + 1 .. n)
      /\ Cardinality(g + 1 .. n) = IF g + 1 > n THEN 0 ELSE n - (g + 1) + 1
  BY <1>1, FS_Interval
<1>3. QED
  BY <1>2

LEMMA UnionBound ==
    ASSUME NEW S, NEW T, IsFiniteSet(S), IsFiniteSet(T)
    PROVE  IsFiniteSet(S \cup T) /\ Cardinality(S \cup T) <= Cardinality(S) + Cardinality(T)
<1>1. /\ IsFiniteSet(S \cup T)
      /\ Cardinality(S \cup T) = Cardinality(S) + Cardinality(T) - Cardinality(S \cap T)
  BY FS_Union
<1>2. IsFiniteSet(S \cap T)
  BY FS_Subset
<1>3. Cardinality(S) \in Nat /\ Cardinality(T) \in Nat /\ Cardinality(S \cap T) \in Nat
  BY <1>2, FS_CardinalityType
<1>4. QED
  BY <1>1, <1>3

LEMMA CapacityType ==
    ASSUME NEW i \in Windows
    PROVE  AutomaticCapacity(i) \in Nat
<1>1. Limits[i].count \in Nat /\ ReservePercent \in Nat
  BY LimitsOK, LimitType
<1>2. Limits[i].count * ReservePercent \in Nat
  BY <1>1
<1> DEFINE places == Limits[i].count * ReservePercent
<1>3. (places + 99) \div 100 \in Nat
  <2> HIDE DEF places
  <2>1. places \in Nat
    BY <1>2 DEF places
  <2>2. QED
    BY <2>1
<1>4. QED
  BY <1>1, <1>3 DEF AutomaticCapacity

\* The reservations of a window that have not left it: the end of the history.
LEMMA LiveGrants ==
    ASSUME Inv, NEW i \in Windows
    PROVE  \E g \in 0 .. Len(grants) :
              /\ Len(grants) \in Nat /\ Live(i) \in Seq(Reservations)
              /\ Len(Live(i)) = Len(grants) - g
              /\ \A k \in 1 .. Len(Live(i)) : Live(i)[k] = grants[g + k]
              /\ \A k \in 1 .. g : Leaves(i, k) <= now
              /\ \A k \in g + 1 .. Len(grants) : Leaves(i, k) > now
<1> DEFINE g == Len(grants) - Len(Live(i))
<1>1. TypeOK /\ Ordered /\ WindowsComplete
  BY DEF Inv
<1>2. /\ Live(i) \in Seq(Reservations)
      /\ \A k \in 1 .. Len(Live(i)) : Live(i)[k].at + Limits[i].window > now
  BY <1>1, LiveFacts
<1>3. /\ g >= 0
      /\ \A k \in 1 .. Len(Live(i)) : Live(i)[k] = grants[g + k]
      /\ \A k \in 1 .. g : grants[k].at + Limits[i].window <= now
  BY <1>1, LiveComplete
<1>4. Len(grants) \in Nat /\ Len(Live(i)) \in Nat
  BY <1>1, <1>2 DEF TypeOK
<1>5. g \in 0 .. Len(grants) /\ Len(Live(i)) = Len(grants) - g
  BY <1>3, <1>4
<1>6. ASSUME NEW k \in g + 1 .. Len(grants) PROVE Leaves(i, k) > now
  <2>1. k - g \in 1 .. Len(Live(i)) /\ g + (k - g) = k
    BY <1>4, <1>5
  <2>2. QED
    BY <1>2, <1>3, <2>1 DEF Leaves
<1>7. QED
  BY <1>2, <1>3, <1>4, <1>5, <1>6 DEF Leaves

\* What a call that is granted an automatic place has found in the window.
LEMMA FoundInWindow ==
    ASSUME Inv, NEW c \in Automatic, AskGranted(c), NEW i \in Windows
    PROVE  \/ Len(Live(i)) < AutomaticCapacity(i)
           \/ Live(i) = <<>> /\ Limits[i].window <= Unlock
           \/ Live(i) # <<>> /\ Live(i)[1].at + Limits[i].window <= now + Unlock
<1>1. OpensAt(c, i) <= now /\ i \notin Hopeless(c)
  BY DEF AskGranted
<1>2. Live(i) \in Seq(Reservations) /\ Len(Live(i)) \in Nat
  BY LiveType
<1>3. /\ AutomaticCapacity(i) \in Nat /\ Limits[i].count \in Nat /\ Limits[i].window \in Nat
      /\ Unlock \in Nat /\ now \in Nat
  BY CapacityType, LimitType, LimitsOK DEF Inv, TypeOK
<1>4. ~Full(i)
  BY <1>1, <1>2, <1>3, OpenIsNotFull DEF Inv, Full
<1>5. CASE ~Reached(c, i)
  BY <1>2, <1>3, <1>4, <1>5 DEF Reached
<1>6. CASE Reached(c, i) /\ Live(i) = <<>>
  BY <1>1, <1>6 DEF Hopeless, Unlocked
<1>7. CASE Reached(c, i) /\ Live(i) # <<>>
  <2>1. Live(i)[1].at \in Nat
    BY <1>2, <1>7, ReservationType
  <2>2. CASE Unlocked(i)
    BY <1>7, <2>2 DEF Unlocked
  <2>3. CASE ~Unlocked(i)
    <3>1. Live(i)[1].at + Limits[i].window - Unlock <= now
      BY <1>1, <1>4, <1>7, <2>3 DEF OpensAt
    <3>2. QED
      BY <1>3, <1>7, <2>1, <3>1
  <2>4. QED
    BY <2>2, <2>3
<1>8. QED
  BY <1>5, <1>6, <1>7

LEMMA ShareGranted ==
    ASSUME Inv, ShareInv, NEW c \in Callers, AskGranted(c)
    PROVE  ShareInv'
<1> DEFINE n == Len(grants)
<1>1. /\ grants \in Seq(Reservations) /\ n \in Nat /\ now \in Nat /\ Unlock \in Nat
      /\ Reserve(c) \in Reservations /\ Reserve(c).at = now
      /\ Reserve(c).automatic = (c \in Automatic)
  BY LimitsOK DEF Inv, TypeOK, Reserve, Reservations
<1>2. /\ Len(grants') = n + 1 /\ grants'[n + 1] = Reserve(c)
      /\ \A k \in 1 .. n : grants'[k] = grants[k]
  BY <1>1 DEF AskGranted
<1>3. ASSUME NEW i \in Windows, NEW k \in 1 .. n
      PROVE  Present(i, k)' = Present(i, k) /\ Borrowed(i, k)' = Borrowed(i, k)
  <2>1. \A j \in 1 .. k - 1 : Leaves(i, j)' = Leaves(i, j) /\ j \in 1 .. n
    BY <1>1, <1>2 DEF Leaves
  <2>2. grants'[k] = grants[k]
    BY <1>2
  <2>3. Present(i, k)' = Present(i, k)
    BY <2>1, <2>2 DEF Present
  <2>4. \A j \in Present(i, k) : Leaves(i, j)' = Leaves(i, j)
    BY <2>1 DEF Present
  <2>5. QED
    BY <2>2, <2>3, <2>4 DEF Borrowed
<1>4. ASSUME NEW i \in Windows, NEW k \in Nat, k = n + 1, c \in Automatic
      PROVE  Borrowed(i, k)' \/ Cardinality(Present(i, k)') < AutomaticCapacity(i)
  <2>1. PICK g \in 0 .. n :
           /\ Live(i) \in Seq(Reservations) /\ Len(Live(i)) = n - g
           /\ \A j \in 1 .. Len(Live(i)) : Live(i)[j] = grants[g + j]
           /\ \A j \in 1 .. g : Leaves(i, j) <= now
           /\ \A j \in g + 1 .. n : Leaves(i, j) > now
    BY LiveGrants
  <2>2. \A j \in 1 .. n : Leaves(i, j)' = Leaves(i, j) /\ Leaves(i, j) \in Nat
    BY <1>1, <1>2, LimitType, ReservationType DEF Leaves
  <2>3. grants'[k] = Reserve(c) /\ grants'[k].at = now /\ 1 .. k - 1 = 1 .. n
    BY <1>1, <1>2, <1>4
  <2>4. Present(i, k)' = g + 1 .. n
    <3>1. Present(i, k)' = {j \in 1 .. n : Leaves(i, j) > now}
      BY <2>2, <2>3 DEF Present
    <3>2. \A j \in 1 .. n : Leaves(i, j) > now <=> j \in g + 1 .. n
      <4>1. ASSUME NEW j \in 1 .. n, j \notin g + 1 .. n PROVE ~(Leaves(i, j) > now)
        <5>1. j \in 1 .. g
          BY <1>1, <4>1
        <5>2. QED
          BY <1>1, <2>1, <2>2, <5>1
      <4>2. QED
        BY <2>1, <4>1
    <3>3. g + 1 .. n \subseteq 1 .. n
      BY <1>1
    <3>4. QED
      BY <3>1, <3>2, <3>3
  <2>5. Cardinality(Present(i, k)') = Len(Live(i))
    BY <1>1, <2>1, <2>4, IntervalSize
  <2>6. CASE Live(i) = <<>> /\ Limits[i].window <= Unlock
    <3>1. Present(i, k)' = {}
      BY <1>1, <2>1, <2>4, <2>6
    <3>2. QED
      BY <2>6, <3>1 DEF Borrowed
  <2>7. CASE Live(i) # <<>> /\ Live(i)[1].at + Limits[i].window <= now + Unlock
    <3>1. 1 \in 1 .. Len(Live(i)) /\ g + 1 \in g + 1 .. n /\ g + 1 \in 1 .. n
      BY <1>1, <2>1, <2>7
    <3>2. Leaves(i, g + 1) = Live(i)[1].at + Limits[i].window
      BY <2>1, <3>1 DEF Leaves
    <3>3. PICK j \in 1 .. n : j = g + 1
      BY <3>1
    <3>4. j \in Present(i, k)' /\ Leaves(i, j)' <= grants'[k].at + Unlock
      BY <2>2, <2>3, <2>4, <2>7, <3>1, <3>2, <3>3
    <3>5. QED
      BY <3>4 DEF Borrowed
  <2>8. QED
    BY <1>4, <2>5, <2>6, <2>7, FoundInWindow
<1>5. ASSUME NEW i \in Windows, NEW k \in 1 .. n + 1, grants'[k].automatic
      PROVE  Borrowed(i, k)' \/ Cardinality(Present(i, k)') < AutomaticCapacity(i)
  <2>1. CASE k = n + 1
    <3>1. k \in Nat /\ grants'[k] = Reserve(c)
      BY <1>1, <1>2, <2>1
    <3>2. c \in Automatic
      BY <1>1, <1>5, <3>1
    <3>3. QED
      BY <1>4, <2>1, <3>1, <3>2
  <2>2. CASE k \in 1 .. n
    BY <1>2, <1>3, <1>5, <2>2 DEF ShareInv
  <2>3. QED
    BY <1>1, <2>1, <2>2
<1>6. QED
  BY <1>2, <1>5 DEF ShareInv, Windows, AutomaticCapacity

LEMMA ShareStep == Inv /\ ShareInv /\ [Next]_vars => ShareInv'
<1> SUFFICES ASSUME Inv, ShareInv, [Next]_vars PROVE ShareInv'
  OBVIOUS
<1>1. CASE UNCHANGED grants
  BY <1>1 DEF ShareInv, Borrowed, Present, Leaves
<1>2. CASE \E c \in Callers : AskGranted(c)
  BY <1>2, ShareGranted
<1>3. QED
  BY <1>1, <1>2 DEF Next, Tick, Request, Ask, AskBlocked, AskHopeless, AskDelayed, WaitOrGiveUp,
                    Answer, Exceeded, Throttled, vars

\* The automatic reservations of a full window that were not borrowed are no
\* more than automatic calls may use: the last of them found the others there.
LEMMA ShareLeft == Inv /\ ShareInv => ReserveKept
<1> SUFFICES ASSUME Inv, ShareInv, NEW i \in Windows, Full(i)
             PROVE  Cardinality(ManualIn(i)) + Cardinality(BorrowedIn(i))
                        >= Limits[i].count - AutomaticCapacity(i)
  BY DEF ReserveKept
<1> DEFINE n == Len(grants)
           m == Len(Live(i))
<1>1. PICK g \in 0 .. n :
         /\ n \in Nat /\ Live(i) \in Seq(Reservations) /\ m = n - g
         /\ \A k \in 1 .. m : Live(i)[k] = grants[g + k]
         /\ \A k \in 1 .. g : Leaves(i, k) <= now
         /\ \A k \in g + 1 .. n : Leaves(i, k) > now
  BY LiveGrants
<1>2. /\ grants \in Seq(Reservations) /\ now \in Nat /\ m \in Nat /\ m >= Limits[i].count
      /\ Limits[i].count \in Nat /\ AutomaticCapacity(i) \in Nat
  BY <1>1, CapacityType, LimitType DEF Inv, TypeOK, Full
<1>3. \A k \in 1 .. n : grants[k].at \in Nat /\ grants[k].at <= now /\ Leaves(i, k) \in Nat
                        /\ grants[k].automatic \in BOOLEAN
  BY <1>1, <1>2, LimitType, ReservationType DEF Leaves, Inv, Ordered, Reservations
<1> DEFINE L == g + 1 .. n
           M == {k \in L : ~grants[k].automatic}
           A == {k \in L : grants[k].automatic /\ ~Borrowed(i, k)}
           B == {k \in L : grants[k].automatic /\ Borrowed(i, k)}
<1>4. L \subseteq 1 .. n /\ IsFiniteSet(L) /\ Cardinality(L) = m
  <2>1. L \subseteq 1 .. n
    BY <1>1
  <2>2. IsFiniteSet(L) /\ Cardinality(L) = n - g
    BY <1>1, IntervalSize
  <2>3. QED
    BY <1>1, <2>1, <2>2
<1>5. B = BorrowedIn(i)
  <2>1. DOMAIN grants = 1 .. n
    BY <1>2
  <2>2. \A k \in 1 .. n : Leaves(i, k) > now <=> k \in L
    <3>1. ASSUME NEW k \in 1 .. n, k \notin L PROVE ~(Leaves(i, k) > now)
      <4>1. k \in 1 .. g
        BY <1>1, <3>1
      <4>2. QED
        BY <1>1, <1>2, <1>3, <4>1
    <3>2. QED
      BY <1>1, <3>1
  <2>3. BorrowedIn(i) = {k \in 1 .. n : Leaves(i, k) > now /\ grants[k].automatic /\ Borrowed(i, k)}
    BY <2>1 DEF BorrowedIn, Borrowed, Present, Leaves
  <2>4. QED
    BY <1>4, <2>2, <2>3
<1>6. IsFiniteSet(M) /\ Cardinality(M) \in Nat /\ Cardinality(M) <= Cardinality(ManualIn(i))
      /\ Cardinality(ManualIn(i)) \in Nat
  <2>1. DOMAIN Live(i) = 1 .. m
    BY <1>1
  <2>2. IsFiniteSet(ManualIn(i))
    <3>1. IsFiniteSet(1 .. m)
      BY <1>2, FS_Interval
    <3>2. ManualIn(i) \in SUBSET (1 .. m)
      BY <2>1 DEF ManualIn
    <3>3. QED
      BY <3>1, <3>2, FS_Subset
  <2> DEFINE f == [k \in ManualIn(i) |-> g + k]
  <2>3. \A k \in ManualIn(i) : f[k] \in M
    BY <1>1, <1>2, <2>1 DEF ManualIn
  <2>4. \A x \in M : \E k \in ManualIn(i) : f[k] = x
    <3> SUFFICES ASSUME NEW x \in M PROVE \E k \in ManualIn(i) : f[k] = x
      OBVIOUS
    <3>1. x - g \in 1 .. m /\ g + (x - g) = x
      BY <1>1
    <3>2. x - g \in ManualIn(i)
      BY <1>1, <2>1, <3>1 DEF ManualIn
    <3>3. QED
      BY <3>1, <3>2
  <2>5. f \in Surjection(ManualIn(i), M)
    BY <2>3, <2>4 DEF Surjection
  <2>6. QED
    BY <2>2, <2>5, FS_Surjection, FS_CardinalityType
<1>7. IsFiniteSet(A) /\ IsFiniteSet(B) /\ Cardinality(A) \in Nat /\ Cardinality(B) \in Nat
  BY <1>4, FS_Subset, FS_CardinalityType
<1>8. Cardinality(A) <= AutomaticCapacity(i)
  <2>1. CASE A = {}
    <3>1. Cardinality(A) = 0
      BY <2>1, FS_EmptySet
    <3>2. QED
      BY <1>2, <3>1
  <2>2. CASE A # {}
    <3>1. PICK k \in A : \A j \in A : j <= k
      BY <1>1, <1>4, <2>2, Greatest
    <3>2. Cardinality(Present(i, k)) < AutomaticCapacity(i)
      BY <1>4, <3>1 DEF ShareInv
    <3>3. IsFiniteSet(Present(i, k)) /\ Cardinality(Present(i, k)) \in Nat
      <4>1. IsFiniteSet(1 .. k - 1)
        BY <1>4, <3>1, FS_Interval
      <4>2. Present(i, k) \in SUBSET (1 .. k - 1)
        BY DEF Present
      <4>3. QED
        BY <4>1, <4>2, FS_Subset, FS_CardinalityType
    <3>4. A \ {k} \in SUBSET Present(i, k)
      <4> SUFFICES ASSUME NEW j \in A, j # k PROVE j \in Present(i, k)
        OBVIOUS
      <4>1. j \in 1 .. k - 1
        BY <1>1, <1>4, <3>1
      <4>2. Leaves(i, j) > now /\ grants[k].at <= now
        BY <1>1, <1>3, <1>4, <3>1
      <4>3. QED
        BY <1>2, <1>3, <1>4, <3>1, <4>1, <4>2 DEF Present
    <3>5. Cardinality(A \ {k}) <= Cardinality(Present(i, k))
      BY <3>3, <3>4, FS_Subset
    <3>6. Cardinality(A \ {k}) = Cardinality(A) - 1
      BY <1>7, <3>1, FS_RemoveElement
    <3>7. QED
      BY <1>2, <1>7, <3>2, <3>3, <3>5, <3>6
  <2>3. QED
    BY <2>1, <2>2
<1>9. m <= Cardinality(M) + Cardinality(A) + Cardinality(B)
  <2>1. L = (M \cup A) \cup B
    BY <1>3, <1>4
  <2>2. IsFiniteSet(M \cup A) /\ Cardinality(M \cup A) <= Cardinality(M) + Cardinality(A)
    BY <1>6, <1>7, UnionBound
  <2>3. Cardinality((M \cup A) \cup B) <= Cardinality(M \cup A) + Cardinality(B)
    BY <1>7, <2>2, UnionBound
  <2> HIDE DEF M, A, B, L
  <2>4. Cardinality((M \cup A) \cup B) = m
    BY <1>4, <2>1
  <2>5. QED
    BY <1>2, <1>6, <1>7, <2>2, <2>3, <2>4, FS_CardinalityType
<1> HIDE DEF M, A, B, L, m
<1>10. QED
  BY <1>2, <1>5, <1>6, <1>7, <1>8, <1>9

\* For any limits, share and unlock time, a window is full for manual calls
\* only when they used their share, or automatic calls borrowed of it.
THEOREM ShareIsKept == Spec => []ReserveKept
<1>1. Init => ShareInv
  BY DEF Init, ShareInv
<1>2. QED
  BY <1>1, InvInit, InvStep, ShareStep, ShareLeft, PTL DEF Spec

=============================================================================
