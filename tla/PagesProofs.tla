---------------------------- MODULE PagesProofs ----------------------------
(***************************************************************************)
(* Three of those who wait for the service (MCPages).                      *)
(*                                                                         *)
(* The limiter of operator mutations, for any hosts, limits and windows,   *)
(* with or without a token: no window of a client key admits more than its *)
(* limit, and the Retry-After of a refusal is long enough.  As in          *)
(* RateLimiterProofs, a window is the end of the history of its key, and   *)
(* what lies before it has left.  For Retry-After the inductive fact is    *)
(* Promised: after a refusal the window is shorter than the limit, or its  *)
(* oldest request leaves it by the time that was announced.                *)
(*                                                                         *)
(* The list of the ladder page, with any number of requests under way: it  *)
(* becomes the one that was asked for last.                                *)
(*                                                                         *)
(* The profile page, with any number of requests by its buttons: while it  *)
(* says that a refresh is in progress, it polls.                           *)
(***************************************************************************)
EXTENDS MCPages, CountingLemmas

Ordered(k) ==
    \A i \in 1 .. Len(admitted[k]) :
        /\ admitted[k][i] <= now
        /\ \A j \in 1 .. i : admitted[k][j] <= admitted[k][i]

\* q is the end of the history of k, and what lies before it left the window.
EndOfHistory(k, q) ==
    LET before == Len(admitted[k]) - Len(q) IN
    /\ before >= 0
    /\ \A i \in 1 .. Len(q) : q[i] = admitted[k][before + i]
    /\ \A i \in 1 .. before : admitted[k][i] + Window <= now

WithinLimitOf(k) ==
    \A i \in 1 .. Len(admitted[k]) :
        i + Mutations <= Len(admitted[k]) => admitted[k][i + Mutations] >= admitted[k][i] + Window

Inv ==
    /\ TypeOK
    /\ \A k \in Keys : Ordered(k) /\ EndOfHistory(k, windows[k]) /\ WithinLimitOf(k)

Promised ==
    \A h \in Hosts :
        refusal[h].holds =>
            \/ Len(windows[KeyOf(h)]) < Mutations
            \/ windows[KeyOf(h)][1] + Window <= refusal[h].until

-----------------------------------------------------------------------------
(* What the loop that drops expired requests leaves of a window.           *)

LEMMA HostKey ==
    ASSUME NEW h \in Hosts
    PROVE  KeyOf(h) \in Keys
BY DEF KeyOf, Keys

\* What is left is the end of the window, and it is younger than the window's
\* length.
LEMMA LeftFacts ==
    ASSUME TypeOK, NEW k \in Keys, Ordered(k), EndOfHistory(k, windows[k])
    PROVE  \E n \in 0 .. Len(windows[k]) :
              /\ Left(k) \in Seq(Nat)
              /\ Len(Left(k)) = Len(windows[k]) - n
              /\ \A i \in 1 .. Len(Left(k)) : Left(k)[i] = windows[k][n + i]
              /\ \A i \in 1 .. n : windows[k][i] + Window <= now
              /\ \A i \in 1 .. Len(Left(k)) : Left(k)[i] + Window > now
<1> DEFINE q == windows[k]
           n == Cardinality(Expired(k))
           before == Len(admitted[k]) - Len(q)
<1>1. /\ q \in Seq(Nat) /\ Len(q) \in Nat /\ now \in Nat /\ Window \in Nat
      /\ admitted[k] \in Seq(Nat) /\ Len(admitted[k]) \in Nat
  BY LimiterOK DEF TypeOK
<1>2. before >= 0 /\ \A i \in 1 .. Len(q) : q[i] = admitted[k][before + i]
  BY DEF EndOfHistory
<1>3. \A i \in 1 .. Len(q) : q[i] \in Nat
  BY <1>1
<1>4. \A i \in 1 .. Len(q) : \A j \in 1 .. i : q[j] <= q[i]
  <2> SUFFICES ASSUME NEW i \in 1 .. Len(q), NEW j \in 1 .. i
               PROVE  q[j] <= q[i]
    OBVIOUS
  <2>1. j \in 1 .. Len(q) /\ j <= i
    BY <1>1
  <2>2. q[i] = admitted[k][before + i] /\ q[j] = admitted[k][before + j]
    BY <1>2, <2>1
  <2>3. before \in Nat /\ before + Len(q) = Len(admitted[k])
    BY <1>1, <1>2
  <2> HIDE DEF before, q
  <2>4. before + i \in 1 .. Len(admitted[k]) /\ before + j \in 1 .. (before + i)
    BY <1>1, <2>1, <2>3
  <2>5. QED
    BY <2>2, <2>4 DEF Ordered
<1>5. Expired(k) = {i \in 1 .. Len(q) : q[i] + Window <= now}
  BY <1>1 DEF Expired
<1>6. \A i \in Expired(k) : \A j \in 1 .. i : j \in Expired(k)
  BY <1>1, <1>3, <1>4, <1>5
<1>7. n \in 0 .. Len(q) /\ Expired(k) = 1 .. n
  BY <1>1, <1>5, <1>6, Prefix
<1>8. Left(k) = SubSeq(q, n + 1, Len(q))
  BY DEF Left
<1> HIDE DEF n, q
<1>9. /\ Left(k) \in Seq(Nat)
      /\ Len(Left(k)) = Len(q) - n
      /\ \A i \in 1 .. Len(Left(k)) : Left(k)[i] = q[n + i]
  BY <1>1, <1>7, <1>8
<1>10. \A i \in 1 .. n : q[i] + Window <= now
  BY <1>5, <1>7
<1>11. \A i \in 1 .. Len(Left(k)) : Left(k)[i] + Window > now
  <2> SUFFICES ASSUME NEW i \in 1 .. Len(Left(k))
               PROVE  Left(k)[i] + Window > now
    OBVIOUS
  <2>1. n + i \in 1 .. Len(q) /\ n + i \notin 1 .. n
    BY <1>1, <1>7, <1>9
  <2>2. ~(q[n + i] + Window <= now)
    BY <1>5, <1>7, <2>1
  <2>3. QED
    BY <1>1, <1>3, <1>9, <2>1, <2>2
<1>12. QED
  BY <1>7, <1>9, <1>10, <1>11 DEF q

\* Dropping what left keeps the window the end of the history.
LEMMA LeftComplete ==
    ASSUME TypeOK, NEW k \in Keys, Ordered(k), EndOfHistory(k, windows[k])
    PROVE  EndOfHistory(k, Left(k))
<1> DEFINE f == Len(admitted[k]) - Len(windows[k])
           g == Len(admitted[k]) - Len(Left(k))
<1>1. PICK n \in 0 .. Len(windows[k]) :
         /\ Left(k) \in Seq(Nat)
         /\ Len(Left(k)) = Len(windows[k]) - n
         /\ \A i \in 1 .. Len(Left(k)) : Left(k)[i] = windows[k][n + i]
         /\ \A i \in 1 .. n : windows[k][i] + Window <= now
  BY LeftFacts
<1>2. /\ f >= 0 /\ f = Len(admitted[k]) - Len(windows[k])
      /\ \A i \in 1 .. Len(windows[k]) : windows[k][i] = admitted[k][f + i]
      /\ \A i \in 1 .. f : admitted[k][i] + Window <= now
  BY DEF EndOfHistory
<1>3. /\ Len(admitted[k]) \in Nat /\ Len(windows[k]) \in Nat /\ Len(Left(k)) \in Nat
      /\ n \in Nat /\ n <= Len(windows[k])
  BY <1>1 DEF TypeOK
<1>4. f \in Nat /\ n \in Nat /\ g = f + n
  BY <1>1, <1>2, <1>3
<1> HIDE DEF f, g
<1>5. ASSUME NEW i \in 1 .. Len(Left(k))
      PROVE  Left(k)[i] = admitted[k][g + i]
  <2>1. n + i \in 1 .. Len(windows[k]) /\ f + (n + i) = g + i
    BY <1>1, <1>3, <1>4
  <2>2. QED
    BY <1>1, <1>2, <2>1
<1>6. ASSUME NEW i \in 1 .. g
      PROVE  admitted[k][i] + Window <= now
  <2>1. CASE i <= f
    BY <1>2, <1>4, <2>1
  <2>2. CASE ~(i <= f)
    <3>1. i - f \in 1 .. n /\ i - f \in 1 .. Len(windows[k]) /\ f + (i - f) = i
      BY <1>1, <1>3, <1>4, <2>2
    <3>2. admitted[k][i] = windows[k][i - f]
      BY <1>2, <3>1
    <3>3. QED
      BY <1>1, <3>1, <3>2
  <2>3. QED
    BY <2>1, <2>2
<1>7. g >= 0
  BY <1>4
<1>8. QED
  BY <1>5, <1>6, <1>7, Zenon DEF EndOfHistory, f, g

\* Rounding up to whole seconds, at least one, covers the delay.
LEMMA RoundedUp ==
    ASSUME NEW d \in Nat, NEW s \in Nat \ {0}
    PROVE  ((d + s - 1) \div s) * s \in Nat /\ ((d + s - 1) \div s) * s >= d
<1> DEFINE a == d + s - 1
<1>1. a \in Nat
  OBVIOUS
<1>2. a = s * (a \div s) + (a % s) /\ a % s \in 0 .. (s - 1) /\ a \div s \in Nat
  BY <1>1, Z3
<1>3. QED
  BY <1>1, <1>2, Z3

LEMMA AnnouncedEnough ==
    ASSUME TypeOK, NEW k \in Keys, Ordered(k), EndOfHistory(k, windows[k]),
           Len(Left(k)) >= Mutations
    PROVE  Announced(k) \in Nat /\ Left(k)[1] + Window <= now + Announced(k)
<1>1. /\ Left(k) \in Seq(Nat) /\ 1 \in 1 .. Len(Left(k)) /\ Left(k)[1] \in Nat
      /\ Left(k)[1] + Window > now
  BY LeftFacts, LimiterOK
<1>2. now \in Nat /\ Window \in Nat /\ Second \in Nat \ {0}
  BY LimiterOK DEF TypeOK
<1>3. Delay(k) = (Left(k)[1] + Window) - now /\ Delay(k) \in Nat
  BY <1>1, <1>2 DEF Delay
<1> DEFINE rounded == ((Delay(k) + Second - 1) \div Second) * Second
<1>4. rounded \in Nat /\ rounded >= Delay(k)
  BY <1>2, <1>3, RoundedUp
<1>5. Announced(k) = IF rounded < Second THEN Second ELSE rounded
  BY DEF Announced, AtLeast
<1> HIDE DEF rounded
<1>6. QED
  BY <1>1, <1>2, <1>3, <1>4, <1>5

-----------------------------------------------------------------------------
(* The steps.                                                              *)

\* A window admits only while it is short, so the request that lies Mutations
\* places back has left it.
LEMMA AdmitKeepsLimit ==
    ASSUME Inv, NEW h \in Hosts, Admit(h)
    PROVE  Inv'
<1> DEFINE k == KeyOf(h)
<1>1. k \in Keys
  BY HostKey
<1>2. /\ TypeOK /\ Ordered(k) /\ EndOfHistory(k, windows[k]) /\ WithinLimitOf(k)
  BY <1>1 DEF Inv
<1>3. /\ Left(k) \in Seq(Nat) /\ Len(Left(k)) \in Nat /\ Len(Left(k)) < Mutations
      /\ windows' = [windows EXCEPT ![k] = Append(Left(k), now)]
      /\ admitted' = [admitted EXCEPT ![k] = Append(@, now)]
      /\ refusal' = [g \in Hosts |-> [refusal[g] EXCEPT !.holds = @ /\ KeyOf(g) # k]]
      /\ now' = now
  BY <1>1, <1>2, LeftFacts DEF Admit
<1>4. /\ now \in Nat /\ Mutations \in Nat \ {0} /\ Window \in Nat \ {0}
      /\ windows \in [Keys -> Seq(Nat)] /\ admitted \in [Keys -> Seq(Nat)]
  BY LimiterOK DEF Inv, TypeOK
<1> DEFINE old == admitted[k]
           new == Append(old, now)
<1>5. /\ old \in Seq(Nat) /\ Len(old) \in Nat /\ Len(new) = Len(old) + 1
      /\ \A i \in 1 .. Len(old) : new[i] = old[i]
      /\ new[Len(old) + 1] = now
  BY <1>1, <1>4
<1>6. admitted'[k] = new /\ windows'[k] = Append(Left(k), now)
  BY <1>1, <1>3, <1>4
<1> HIDE DEF k
<1>7. TypeOK'
  <2>1. windows' \in [Keys -> Seq(Nat)] /\ admitted' \in [Keys -> Seq(Nat)]
    BY <1>1, <1>3, <1>4
  <2>2. \A j \in Keys : Len(windows'[j]) <= Mutations
    BY <1>1, <1>2, <1>3, <1>4 DEF TypeOK
  <2>3. refusal' \in [Hosts -> [until : Nat, holds : BOOLEAN]]
    BY <1>2, <1>3 DEF TypeOK
  <2>4. QED
    BY <1>3, <1>4, <2>1, <2>2, <2>3 DEF TypeOK
<1>8. \A j \in Keys \ {k} : admitted'[j] = admitted[j] /\ windows'[j] = windows[j]
  BY <1>3, <1>4
<1>9. Ordered(k)'
  <2> SUFFICES ASSUME NEW i \in 1 .. Len(new)
               PROVE  new[i] <= now /\ \A j \in 1 .. i : new[j] <= new[i]
    BY <1>3, <1>6 DEF Ordered
  <2>1. \A j \in 1 .. Len(old) : new[j] <= now
    BY <1>2, <1>5 DEF Ordered
  <2>2. CASE i = Len(old) + 1
    BY <1>4, <1>5, <2>1, <2>2
  <2>3. CASE i # Len(old) + 1
    <3>1. i \in 1 .. Len(old)
      BY <1>5, <2>3
    <3>2. \A j \in 1 .. i : j \in 1 .. Len(old)
      BY <1>5, <3>1
    <3>3. QED
      BY <1>2, <1>5, <2>1, <3>1, <3>2 DEF Ordered
  <2>4. QED
    BY <2>2, <2>3
<1>10. EndOfHistory(k, windows[k])'
  <2> DEFINE q == Append(Left(k), now)
             before == Len(old) - Len(Left(k))
  <2>1. /\ before >= 0
        /\ \A i \in 1 .. Len(Left(k)) : Left(k)[i] = old[before + i]
        /\ \A i \in 1 .. before : old[i] + Window <= now
    BY <1>1, <1>2, LeftComplete DEF EndOfHistory
  <2>2. /\ Len(q) = Len(Left(k)) + 1 /\ q[Len(Left(k)) + 1] = now
        /\ \A i \in 1 .. Len(Left(k)) : q[i] = Left(k)[i]
    BY <1>3, <1>4
  <2>3. before \in Nat /\ Len(new) - Len(q) = before /\ before + Len(Left(k)) = Len(old)
    BY <1>3, <1>5, <2>1, <2>2
  <2> HIDE DEF q, before, new, old
  <2>4. \A i \in 1 .. Len(q) : q[i] = new[before + i]
    <3> SUFFICES ASSUME NEW i \in 1 .. Len(q)
                 PROVE  q[i] = new[before + i]
      OBVIOUS
    <3>1. CASE i = Len(Left(k)) + 1
      <4>1. before + i = Len(old) + 1
        BY <1>3, <1>5, <2>3, <3>1
      <4>2. QED
        BY <1>5, <2>2, <3>1, <4>1
    <3>2. CASE i # Len(Left(k)) + 1
      <4>1. i \in 1 .. Len(Left(k))
        BY <1>3, <2>2, <3>2
      <4>2. before + i \in 1 .. Len(old)
        BY <1>3, <1>5, <2>3, <4>1
      <4>3. QED
        BY <1>5, <2>1, <2>2, <4>1, <4>2
    <3>3. QED
      BY <3>1, <3>2
  <2>5. \A i \in 1 .. before : new[i] + Window <= now
    <3>1. \A i \in 1 .. before : i \in 1 .. Len(old)
      BY <1>3, <1>5, <2>3
    <3>2. QED
      BY <1>5, <2>1, <3>1
  <2>6. windows'[k] = q
    BY <1>6 DEF q
  <2>7. Len(admitted'[k]) - Len(windows'[k]) = before /\ before >= 0
    BY <1>6, <2>1, <2>3, <2>6
  <2>8. QED
    BY <1>3, <1>6, <2>4, <2>5, <2>6, <2>7, Zenon DEF EndOfHistory
<1>11. WithinLimitOf(k)'
  <2> SUFFICES ASSUME NEW i \in 1 .. Len(new), i + Mutations <= Len(new)
               PROVE  new[i + Mutations] >= new[i] + Window
    BY <1>6 DEF WithinLimitOf
  <2> HIDE DEF new, old
  <2>1. i \in 1 .. Len(old)
    BY <1>4, <1>5
  <2>2. CASE i + Mutations <= Len(old)
    <3>1. i + Mutations \in 1 .. Len(old)
      BY <1>4, <1>5, <2>1, <2>2
    <3>2. QED
      BY <1>2, <1>5, <2>1, <2>2, <3>1 DEF WithinLimitOf, old
  <2>3. CASE i + Mutations = Len(old) + 1
    <3>1. \A j \in 1 .. Len(old) - Len(Left(k)) : old[j] + Window <= now
      BY <1>1, <1>2, LeftComplete DEF EndOfHistory, old
    <3>2. i \in 1 .. Len(old) - Len(Left(k))
      BY <1>3, <1>4, <1>5, <2>1, <2>3
    <3>3. QED
      BY <1>4, <1>5, <2>1, <2>3, <3>1, <3>2
  <2>4. i + Mutations <= Len(old) \/ i + Mutations = Len(old) + 1
    <3>1. i \in Nat /\ Mutations \in Nat /\ Len(old) \in Nat
      BY <1>4, <1>5
    <3>2. i + Mutations <= Len(old) + 1
      BY <1>5
    <3>3. QED
      BY <3>1, <3>2
  <2>5. QED
    BY <2>2, <2>3, <2>4
<1>12. ASSUME NEW j \in Keys \ {k}
       PROVE  (Ordered(j) /\ EndOfHistory(j, windows[j]) /\ WithinLimitOf(j))'
  <2>1. admitted'[j] = admitted[j] /\ windows'[j] = windows[j] /\ now' = now
    BY <1>3, <1>8
  <2>2. Ordered(j) /\ EndOfHistory(j, windows[j]) /\ WithinLimitOf(j)
    BY DEF Inv
  <2>3. QED
    BY <2>1, <2>2, Zenon DEF Ordered, EndOfHistory, WithinLimitOf
<1>13. QED
  BY <1>7, <1>9, <1>10, <1>11, <1>12 DEF Inv

LEMMA RefuseKeepsLimit ==
    ASSUME Inv, NEW h \in Hosts, Refuse(h)
    PROVE  Inv'
<1> DEFINE k == KeyOf(h)
<1>1. k \in Keys
  BY HostKey
<1>2. TypeOK /\ Ordered(k) /\ EndOfHistory(k, windows[k])
  BY <1>1 DEF Inv
<1>3. /\ windows' = [windows EXCEPT ![k] = Left(k)]
      /\ now' = now /\ admitted' = admitted
  BY DEF Refuse
<1>4. PICK n \in 0 .. Len(windows[k]) :
         Left(k) \in Seq(Nat) /\ Len(Left(k)) = Len(windows[k]) - n
  BY <1>1, <1>2, LeftFacts
<1>5. windows \in [Keys -> Seq(Nat)] /\ Len(windows[k]) \in Nat /\ Len(windows[k]) <= Mutations
  BY <1>1, <1>2 DEF TypeOK
<1>6. windows'[k] = Left(k) /\ \A j \in Keys \ {k} : windows'[j] = windows[j]
  BY <1>1, <1>3, <1>5
<1>7. refusal' \in [Hosts -> [until : Nat, holds : BOOLEAN]]
  BY <1>1, <1>2, AnnouncedEnough DEF Refuse, TypeOK
<1> HIDE DEF k
<1>8. TypeOK'
  <2>1. windows' \in [Keys -> Seq(Nat)]
    BY <1>1, <1>3, <1>4, <1>5
  <2>2. \A j \in Keys : Len(windows'[j]) <= Mutations
    <3>1. Len(Left(k)) <= Mutations
      BY <1>4, <1>5, LimiterOK
    <3>2. \A j \in Keys : Len(windows[j]) <= Mutations
      BY <1>2 DEF TypeOK
    <3>3. QED
      BY <1>6, <3>1, <3>2
  <2>3. QED
    BY <1>2, <1>3, <1>7, <2>1, <2>2 DEF TypeOK
<1>9. ASSUME NEW j \in Keys
      PROVE  (Ordered(j) /\ EndOfHistory(j, windows[j]) /\ WithinLimitOf(j))'
  <2>1. Ordered(j) /\ EndOfHistory(j, windows[j]) /\ WithinLimitOf(j)
    BY DEF Inv
  <2>2. EndOfHistory(j, windows'[j])
    BY <1>1, <1>2, <1>6, <2>1, LeftComplete
  <2>3. QED
    BY <1>3, <2>1, <2>2, Zenon DEF Ordered, EndOfHistory, WithinLimitOf
<1>10. QED
  BY <1>8, <1>9 DEF Inv

LEMMA TickKeepsLimit ==
    ASSUME Inv, Tick
    PROVE  Inv'
<1>1. TypeOK /\ now' = now + 1 /\ UNCHANGED <<windows, admitted, refusal>>
  BY DEF Inv, Tick
<1>2. TypeOK'
  BY <1>1 DEF TypeOK
<1>3. now \in Nat /\ Window \in Nat /\ \A k \in Keys : admitted[k] \in Seq(Nat) /\ windows[k] \in Seq(Nat)
  BY <1>1, LimiterOK DEF TypeOK
<1>4. ASSUME NEW k \in Keys
      PROVE  (Ordered(k) /\ EndOfHistory(k, windows[k]) /\ WithinLimitOf(k))'
  <2>1. Ordered(k) /\ EndOfHistory(k, windows[k]) /\ WithinLimitOf(k)
    BY DEF Inv
  <2>2. \A i \in 1 .. Len(admitted[k]) : admitted[k][i] \in Nat
    BY <1>3
  <2>3. Ordered(k)'
    BY <1>1, <1>3, <2>1, <2>2 DEF Ordered
  <2> DEFINE before == Len(admitted[k]) - Len(windows[k])
  <2>4. /\ before >= 0
        /\ \A i \in 1 .. Len(windows[k]) : windows[k][i] = admitted[k][before + i]
        /\ \A i \in 1 .. before : admitted[k][i] + Window <= now
    BY <2>1 DEF EndOfHistory
  <2>5. EndOfHistory(k, windows[k])'
    <3>1. Len(admitted[k]) \in Nat /\ Len(windows[k]) \in Nat
      BY <1>3
    <3>2. \A i \in 1 .. before : i \in 1 .. Len(admitted[k])
      BY <3>1
    <3> HIDE DEF before
    <3>3. \A i \in 1 .. before : admitted[k][i] + Window <= now + 1
      BY <1>3, <2>2, <2>4, <3>2
    <3>4. QED
      BY <1>1, <2>4, <3>3, Zenon DEF EndOfHistory, before
  <2>6. WithinLimitOf(k)'
    BY <1>1, <2>1 DEF WithinLimitOf
  <2>7. QED
    BY <2>3, <2>5, <2>6
<1>5. QED
  BY <1>2, <1>4 DEF Inv

-----------------------------------------------------------------------------
LEMMA InitInv ==
    ASSUME Init
    PROVE  Inv /\ Promised
<1>1. TypeOK
  BY LimiterOK DEF Init, TypeOK
<1>2. \A k \in Keys : windows[k] = <<>> /\ admitted[k] = <<>>
  BY DEF Init
<1>3. \A k \in Keys : Ordered(k) /\ EndOfHistory(k, windows[k]) /\ WithinLimitOf(k)
  <2>1. Len(<<>>) = 0 /\ 1 .. 0 = {} /\ 0 - 0 = 0 /\ 0 >= 0
    OBVIOUS
  <2>2. QED
    BY <1>2, <2>1, Zenon DEF Ordered, EndOfHistory, WithinLimitOf
<1>4. Promised
  BY DEF Init, Promised
<1>5. QED
  BY <1>1, <1>3, <1>4 DEF Inv

LEMMA NextKeepsLimit ==
    ASSUME Inv, [Next]_vars
    PROVE  Inv'
<1>1. CASE UNCHANGED vars
  BY <1>1 DEF vars, Inv, TypeOK, Ordered, EndOfHistory, WithinLimitOf
<1>2. CASE Tick
  BY <1>2, TickKeepsLimit
<1>3. ASSUME NEW h \in Hosts, Admit(h) \/ Refuse(h)
      PROVE  Inv'
  BY <1>3, AdmitKeepsLimit, RefuseKeepsLimit
<1>4. QED
  BY <1>1, <1>2, <1>3 DEF Next

\* A request that drops nothing leaves the oldest request of the window at its
\* head; one that drops something leaves the window short.
LEMMA NextKeepsPromise ==
    ASSUME Inv, Promised, [Next]_vars
    PROVE  Promised'
<1>1. CASE UNCHANGED vars
  BY <1>1 DEF vars, Promised
<1>2. CASE Tick
  BY <1>2 DEF Tick, Promised
<1>3. ASSUME NEW h \in Hosts, Admit(h)
      PROVE  Promised'
  <2> DEFINE k == KeyOf(h)
  <2>1. /\ k \in Keys /\ windows \in [Keys -> Seq(Nat)]
        /\ refusal \in [Hosts -> [until : Nat, holds : BOOLEAN]]
    BY HostKey DEF Inv, TypeOK
  <2>2. /\ windows' = [windows EXCEPT ![k] = Append(Left(k), now)]
        /\ refusal' = [g \in Hosts |-> [refusal[g] EXCEPT !.holds = @ /\ KeyOf(g) # k]]
    BY <1>3 DEF Admit
  <2>3. ASSUME NEW g \in Hosts, refusal'[g].holds
        PROVE  refusal[g].holds /\ KeyOf(g) # k /\ refusal'[g].until = refusal[g].until
    <3>1. refusal'[g] = [refusal[g] EXCEPT !.holds = @ /\ KeyOf(g) # k]
      BY <2>2
    <3>2. refusal[g] \in [until : Nat, holds : BOOLEAN]
      BY <2>1
    <3>3. QED
      BY <2>3, <3>1, <3>2, Zenon
  <2>4. ASSUME NEW g \in Hosts, refusal'[g].holds
        PROVE  windows'[KeyOf(g)] = windows[KeyOf(g)]
    BY <2>1, <2>2, <2>3, <2>4, HostKey
  <2>5. QED
    BY <2>3, <2>4 DEF Promised
<1>4. ASSUME NEW h \in Hosts, Refuse(h)
      PROVE  Promised'
  <2> DEFINE k == KeyOf(h)
  <2>1. /\ k \in Keys /\ TypeOK /\ windows \in [Keys -> Seq(Nat)]
        /\ refusal \in [Hosts -> [until : Nat, holds : BOOLEAN]]
        /\ Ordered(k) /\ EndOfHistory(k, windows[k]) /\ Len(windows[k]) <= Mutations
    BY HostKey DEF Inv, TypeOK
  <2>2. PICK n \in 0 .. Len(windows[k]) :
           /\ Left(k) \in Seq(Nat)
           /\ Len(Left(k)) = Len(windows[k]) - n
           /\ \A i \in 1 .. Len(Left(k)) : Left(k)[i] = windows[k][n + i]
    BY <2>1, LeftFacts
  <2>3. /\ windows' = [windows EXCEPT ![k] = Left(k)] /\ Len(Left(k)) >= Mutations
        /\ refusal' = [refusal EXCEPT ![h] = [until |-> now + Announced(k), holds |-> TRUE]]
    BY <1>4 DEF Refuse
  <2>4. windows'[k] = Left(k) /\ \A j \in Keys \ {k} : windows'[j] = windows[j]
    BY <2>1, <2>3
  <2>5. Left(k)[1] = windows[k][1] /\ Len(Left(k)) = Len(windows[k]) /\ Len(Left(k)) \in Nat
    BY <2>1, <2>2, <2>3, LimiterOK
  <2>6. Left(k)[1] + Window <= now + Announced(k)
    BY <2>1, <2>3, AnnouncedEnough
  <2>7. refusal'[h].until = now + Announced(k)
    BY <2>1, <2>3
  <2> HIDE DEF k
  <2>8. ASSUME NEW g \in Hosts, refusal'[g].holds
        PROVE  \/ Len(windows'[KeyOf(g)]) < Mutations
               \/ windows'[KeyOf(g)][1] + Window <= refusal'[g].until
    <3>1. CASE g = h
      BY <2>4, <2>6, <2>7, <3>1 DEF k
    <3>2. CASE g # h
      <4>1. refusal'[g] = refusal[g]
        BY <2>1, <2>3, <3>2
      <4>2. \/ Len(windows[KeyOf(g)]) < Mutations
            \/ windows[KeyOf(g)][1] + Window <= refusal[g].until
        BY <2>8, <4>1 DEF Promised
      <4>3. QED
        BY <2>4, <2>5, <4>1, <4>2, HostKey
    <3>3. QED
      BY <3>1, <3>2
  <2>9. QED
    BY <2>8 DEF Promised
<1>5. QED
  BY <1>1, <1>2, <1>3, <1>4 DEF Next

\* Who waited is refused only when the promise was taken back.
LEMMA PromiseKept ==
    ASSUME Inv, Promised, NEW h \in Hosts, refusal[h].holds, now >= refusal[h].until
    PROVE  ~Refuse(h)
<1> DEFINE k == KeyOf(h)
<1> SUFFICES ASSUME Refuse(h) PROVE FALSE
  OBVIOUS
<1>1. /\ k \in Keys /\ TypeOK /\ Ordered(k) /\ EndOfHistory(k, windows[k])
      /\ now \in Nat /\ refusal[h].until \in Nat /\ windows[k] \in Seq(Nat)
      /\ Len(windows[k]) <= Mutations /\ Len(windows[k]) \in Nat
  BY HostKey DEF Inv, TypeOK
<1>2. Len(Left(k)) >= Mutations
  BY DEF Refuse
<1>3. PICK n \in 0 .. Len(windows[k]) :
         /\ Len(Left(k)) = Len(windows[k]) - n
         /\ \A i \in 1 .. Len(Left(k)) : Left(k)[i] = windows[k][n + i]
         /\ \A i \in 1 .. Len(Left(k)) : Left(k)[i] + Window > now
  BY <1>1, LeftFacts
<1>4. /\ Len(windows[k]) = Mutations /\ 1 \in 1 .. Len(Left(k))
      /\ Left(k)[1] = windows[k][1]
  BY <1>1, <1>2, <1>3, LimiterOK
<1>5. windows[k][1] + Window <= refusal[h].until
  BY <1>1, <1>4, LimiterOK DEF Promised
<1>6. windows[k][1] + Window > now /\ windows[k][1] \in Nat /\ Window \in Nat
  BY <1>1, <1>3, <1>4, LimiterOK
<1>7. QED
  BY <1>1, <1>5, <1>6

\* core/auth.py: in no interval of the window's length does a client key get
\* more mutations than operator_mutation_requests, for any number of hosts.
THEOREM MutationsBounded == Spec => []WithinLimit
<1>1. Init => Inv
  BY InitInv
<1>2. Inv /\ [Next]_vars => Inv'
  BY NextKeepsLimit
<1>3. Inv => WithinLimit
  BY DEF Inv, WithinLimit, WithinLimitOf
<1>4. QED
  BY <1>1, <1>2, <1>3, PTL DEF Spec

\* core/auth.py: who waits for the Retry-After of a 429 is admitted, unless
\* another mutation of the same client key was admitted in between.
THEOREM RetryAfterIsEnough == Spec => RetryAfterSuffices
<1>1. Init => Inv /\ Promised
  BY InitInv
<1>2. Inv /\ Promised /\ [Next]_vars => (Inv /\ Promised)'
  BY NextKeepsLimit, NextKeepsPromise
<1>3. Inv /\ Promised =>
        \A h \in Hosts : refusal[h].holds /\ now >= refusal[h].until => ~Refuse(h)
  BY PromiseKept
<1>4. QED
  BY <1>1, <1>2, <1>3, PTL DEF Spec, RetryAfterSuffices

-----------------------------------------------------------------------------
(***************************************************************************)
(* The list of the ladder page, for any queries, any number of pages and   *)
(* of events, and any number of requests in flight.  Only the newest       *)
(* request may still change the list; when it was answered, the list is    *)
(* the one that was asked for last.  From the last list of a fetch on the  *)
(* stored ladder stays as it is, so that every request made since then     *)
(* reads the new one.                                                      *)
(***************************************************************************)
\* Nobody but the fetch changes the stored ladder: it has ended well and its
\* last list is asked for, or there was none.
Settled == fetch.pc = "last" \/ (fetch.pc = "off" /\ ~fetch.broken)

Superseded == \A l \in loads : ~l.newest

ListInv ==
    /\ \A l, m \in loads : l.newest /\ m.newest => l = m
    /\ \A l \in loads : l.newest => l.asked = last.asked
    /\ ~debounce => last.asked.offset = offset
    /\ Superseded /\ ~last.failed => shown.asked = last.asked
    /\ Settled =>
          /\ server.job # "active"
          /\ \A l \in loads : l.newest => l.version \subseteq {server.version}
          /\ Superseded /\ ~last.failed => shown.version = server.version

LoadRecords ==
    [newest : BOOLEAN, by : {"user", "fetch"}, version : SUBSET (0 .. server.version),
     asked : [query : Queries, offset : Nat]]

FetchRecords ==
    [pc : {"off", "post", "timer", "status", "list", "last"}, ticks : 0 .. 2,
     disabled : BOOLEAN, broken : BOOLEAN]

AskedRecords == [query : Queries, offset : Nat]

\* A new request: it is the newest one, and the others are not.
LEMMA NewLoad ==
    ASSUME Ladder!TypeOK, NEW q \in Queries, NEW o \in Nat, NEW by \in {"user", "fetch"},
           Ladder!Load(q, o, by), UNCHANGED server
    PROVE  /\ loads' \subseteq LoadRecords
           /\ last' = [asked |-> [query |-> q, offset |-> o], failed |-> FALSE]
           /\ \E new \in loads' :
                 /\ new.newest /\ new.asked = last'.asked /\ new.version = {}
                 /\ \A l \in loads' : l.newest => l = new
           /\ UNCHANGED shown
<1> DEFINE old == [l \in loads |-> [l EXCEPT !.newest = FALSE]]
           new == [newest |-> TRUE, by |-> by, asked |-> [query |-> q, offset |-> o],
                   version |-> {}]
<1>1. loads' = {old[l] : l \in loads} \cup {new}
  BY DEF Ladder!Load, Ladder!Asked
<1>3. ASSUME NEW l \in loads
      PROVE  old[l] \in LoadRecords /\ ~old[l].newest
  <2>1. old[l] = [l EXCEPT !.newest = FALSE]
    OBVIOUS
  <2>2. l \in LoadRecords
    BY DEF Ladder!TypeOK, LoadRecords
  <2> HIDE DEF old
  <2> QED
    BY <2>1, <2>2 DEF LoadRecords
<1>4. new \in LoadRecords /\ new.newest
  BY DEF LoadRecords
<1>5. last' = [asked |-> [query |-> q, offset |-> o], failed |-> FALSE]
  BY DEF Ladder!Load, Ladder!Asked, Ladder!TypeOK
<1>7. \A l \in loads' : l \in LoadRecords /\ (l.newest => l = new)
  <2> HIDE DEF old, new
  <2> QED
    BY <1>1, <1>3, <1>4
<1> QED
  BY <1>1, <1>5, <1>7 DEF Ladder!Load

\* What the steps of a fetch make of its record.
LEMMA FetchGoes ==
    ASSUME fetch \in FetchRecords,
           NEW p \in {"off", "post", "timer", "status", "list", "last"},
           fetch' = [fetch EXCEPT !.pc = p]
    PROVE  fetch' \in FetchRecords /\ fetch'.pc = p /\ fetch'.broken = fetch.broken
BY DEF FetchRecords

LEMMA FetchTicks ==
    ASSUME fetch \in FetchRecords, NEW ticks \in 0 .. 2, NEW p \in {"timer", "list"},
           fetch' = [fetch EXCEPT !.pc = p, !.ticks = ticks]
    PROVE  fetch' \in FetchRecords /\ fetch'.pc = p
BY DEF FetchRecords

LEMMA FetchEnds ==
    ASSUME fetch \in FetchRecords, fetch' = [fetch EXCEPT !.pc = "off", !.disabled = FALSE]
    PROVE  fetch' \in FetchRecords /\ fetch'.broken = fetch.broken
BY DEF FetchRecords

LEMMA FetchBreaks ==
    ASSUME fetch \in FetchRecords, Ladder!FetchStops
    PROVE  fetch' \in FetchRecords /\ fetch'.pc = "off" /\ fetch'.broken
<1> DEFINE stopped == [fetch EXCEPT !.pc = "off", !.disabled = FALSE, !.broken = TRUE]
<1>1. stopped \in FetchRecords
  BY DEF FetchRecords
<1>2. stopped.pc = "off" /\ stopped.broken
  BY DEF FetchRecords
<1> QED
  BY <1>1, <1>2 DEF Ladder!FetchStops

LEMMA FetchBegins ==
    ASSUME fetch' = [pc |-> "post", ticks |-> 0, disabled |-> TRUE, broken |-> FALSE]
    PROVE  fetch' \in FetchRecords /\ fetch'.pc = "post"
BY DEF FetchRecords

\* Every step keeps the types.
LEMMA ListTypes ==
    ASSUME LadderEvents \in Nat
    PROVE  Ladder!TypeOK /\ [Ladder!Next]_(Ladder!vars) => Ladder!TypeOK'
<1> SUFFICES ASSUME Ladder!TypeOK, [Ladder!Next]_(Ladder!vars)
             PROVE  Ladder!TypeOK'
  OBVIOUS
<1> USE DEF Ladder!controls, Ladder!list
<1>1. /\ query \in Queries /\ offset \in Nat /\ debounce \in BOOLEAN
      /\ loads \subseteq LoadRecords
      /\ shown \in [asked : AskedRecords, version : Nat]
      /\ fetch \in FetchRecords
      /\ server \in [job : {"none", "active", "succeeded", "failed"}, version : Nat]
      /\ acts \in 0 .. LadderEvents
      /\ last \in [asked : AskedRecords, failed : BOOLEAN]
  BY DEF Ladder!TypeOK, LoadRecords, FetchRecords, AskedRecords
<1>2. ASSUME query' \in Queries, offset' \in Nat, debounce' \in BOOLEAN,
             loads' \subseteq LoadRecords',
             shown' \in [asked : AskedRecords, version : Nat],
             fetch' \in FetchRecords,
             server' \in [job : {"none", "active", "succeeded", "failed"}, version : Nat],
             acts' \in 0 .. LadderEvents,
             last' \in [asked : AskedRecords, failed : BOOLEAN]
      PROVE  Ladder!TypeOK'
  BY <1>2 DEF Ladder!TypeOK, LoadRecords, FetchRecords, AskedRecords
<1>3. Ladder!Happens => acts' \in 0 .. LadderEvents
  BY <1>1 DEF Ladder!Happens
<1>4. UNCHANGED server => LoadRecords' = LoadRecords
  BY DEF LoadRecords
<1>5. ASSUME NEW l \in loads
      PROVE  loads \ {l} \subseteq LoadRecords
  BY <1>1
<1>6. ASSUME NEW l \in loads, Ladder!ServerLists(l)
      PROVE  Ladder!TypeOK'
  <2> DEFINE new == [l EXCEPT !.version = {server.version}]
  <2>1. new \in LoadRecords
    BY <1>1 DEF LoadRecords
  <2>2. loads' = (loads \ {l}) \cup {new}
    BY <1>6 DEF Ladder!ServerLists
  <2>3. loads' \subseteq LoadRecords
    <3> HIDE DEF new
    <3> QED
      BY <1>5, <2>1, <2>2
  <2> QED
    BY <1>1, <1>2, <1>4, <1>6, <2>3 DEF Ladder!ServerLists
<1>7. ASSUME NEW l \in loads, Ladder!ListAnswered(l)
      PROVE  Ladder!TypeOK'
  <2>1. shown' \in [asked : AskedRecords, version : Nat]
    <3>1. l.asked \in AskedRecords /\ l.version \subseteq Nat
      <4>1. l \in LoadRecords
        BY <1>1
      <4> QED
        BY <1>1, <4>1 DEF LoadRecords, AskedRecords
    <3>2. \/ UNCHANGED shown
          \/ \E version \in l.version : shown' = [asked |-> l.asked, version |-> version]
      BY <1>7 DEF Ladder!ListAnswered, Ladder!Show
    <3> QED
      BY <1>1, <3>1, <3>2
  <2>2. fetch' \in FetchRecords
    <3>1. \/ UNCHANGED fetch
          \/ fetch' = [fetch EXCEPT !.pc = "off", !.disabled = FALSE]
          \/ fetch' = [fetch EXCEPT !.pc = "timer"]
      BY <1>7 DEF Ladder!ListAnswered, Ladder!FetchGoesOn
    <3> QED
      BY <1>1, <3>1, FetchGoes, FetchEnds
  <2> QED
    BY <1>1, <1>2, <1>4, <1>5, <1>7, <2>1, <2>2 DEF Ladder!ListAnswered
<1>8. ASSUME NEW l \in loads, Ladder!ListFails(l)
      PROVE  Ladder!TypeOK'
  <2>1. last' \in [asked : AskedRecords, failed : BOOLEAN]
    BY <1>1, <1>8 DEF Ladder!ListFails
  <2>2. fetch' \in FetchRecords
    BY <1>1, <1>8, FetchBreaks DEF Ladder!ListFails
  <2> QED
    BY <1>1, <1>2, <1>3, <1>4, <1>5, <1>8, <2>1, <2>2 DEF Ladder!ListFails
<1>0. ASSUME NEW q \in Queries, NEW o \in Nat, NEW by \in {"user", "fetch"},
             Ladder!Load(q, o, by), UNCHANGED server
      PROVE  /\ loads' \subseteq LoadRecords' /\ UNCHANGED shown
             /\ last' \in [asked : AskedRecords, failed : BOOLEAN]
  <2>1. loads' \subseteq LoadRecords /\ UNCHANGED shown
        /\ last' = [asked |-> [query |-> q, offset |-> o], failed |-> FALSE]
    BY <1>0, NewLoad
  <2> QED
    BY <1>0, <1>4, <2>1 DEF AskedRecords
<1>9. ASSUME NEW o \in Nat, Ladder!LoadAt(o)
      PROVE  Ladder!TypeOK'
  <2>1. Ladder!Load(query, o, "user") /\ UNCHANGED <<query, debounce, fetch, server>>
        /\ offset' = o /\ acts' \in 0 .. LadderEvents
    BY <1>3, <1>9 DEF Ladder!LoadAt
  <2> QED
    BY <1>0, <1>1, <1>2, <2>1
<1>10. CASE Ladder!ClickLoad \/ Ladder!ClickNext \/ Ladder!ClickPrevious
  BY <1>1, <1>9, <1>10 DEF Ladder!ClickLoad, Ladder!ClickNext, Ladder!ClickPrevious
<1>11. ASSUME NEW q \in Queries, Ladder!Search(q)
       PROVE  Ladder!TypeOK'
  BY <1>1, <1>2, <1>3, <1>4, <1>11 DEF Ladder!Search
<1>12. CASE Ladder!SearchTimer
  <2>1. Ladder!Load(query, offset, "user") /\ UNCHANGED <<query, offset, fetch, server, acts>>
        /\ debounce' \in BOOLEAN
    BY <1>12 DEF Ladder!SearchTimer
  <2> QED
    BY <1>0, <1>1, <1>2, <2>1
<1>13. CASE Ladder!Status
  <2>1. fetch' \in FetchRecords
    <3>1. (fetch.ticks + 1) % 3 \in 0 .. 2
      BY <1>1 DEF FetchRecords
    <3>2. \/ fetch' = [fetch EXCEPT !.pc = "timer", !.ticks = (fetch.ticks + 1) % 3]
          \/ fetch' = [fetch EXCEPT !.pc = "list", !.ticks = 0]
          \/ fetch' = [fetch EXCEPT !.pc = "last"]
          \/ Ladder!FetchStops
      BY <1>13 DEF Ladder!Status, Ladder!FetchGoto
    <3>3. CASE fetch' = [fetch EXCEPT !.pc = "timer", !.ticks = (fetch.ticks + 1) % 3]
      BY <1>1, <3>1, <3>3, FetchTicks
    <3>4. CASE fetch' = [fetch EXCEPT !.pc = "list", !.ticks = 0]
      BY <1>1, <3>4, FetchTicks
    <3> QED
      BY <1>1, <3>2, <3>3, <3>4, FetchGoes, FetchBreaks
  <2>2. UNCHANGED <<query, offset, debounce, server, acts>>
    BY <1>13 DEF Ladder!Status
  <2>3. CASE Ladder!Load(query, offset, "fetch")
    BY <1>0, <1>1, <1>2, <2>1, <2>2, <2>3
  <2>4. CASE UNCHANGED <<loads, shown, last>>
    BY <1>1, <1>2, <1>4, <2>1, <2>2, <2>4
  <2> QED
    BY <1>13, <2>3, <2>4 DEF Ladder!Status
<1>14. CASE Ladder!JobEnds
  <2>1. server' \in [job : {"none", "active", "succeeded", "failed"}, version : Nat]
        /\ server'.version >= server.version
    BY <1>1, <1>14 DEF Ladder!JobEnds
  <2>2. LoadRecords \subseteq LoadRecords'
    BY <1>1, <2>1 DEF LoadRecords
  <2> QED
    BY <1>1, <1>2, <1>14, <2>1, <2>2 DEF Ladder!JobEnds
<1>15. CASE Ladder!ClickFetch \/ Ladder!Post \/ Ladder!MonitorTimer \/ Ladder!FetchFails
  <2>1. UNCHANGED <<query, offset, debounce, loads, shown, last>> /\ server'.version = server.version
    BY <1>1, <1>15 DEF Ladder!ClickFetch, Ladder!Post, Ladder!MonitorTimer, Ladder!FetchFails
  <2>2. server' \in [job : {"none", "active", "succeeded", "failed"}, version : Nat]
        /\ acts' \in 0 .. LadderEvents
    BY <1>1, <1>3, <1>15
       DEF Ladder!ClickFetch, Ladder!Post, Ladder!MonitorTimer, Ladder!FetchFails
  <2>3. fetch' \in FetchRecords
    <3>1. \/ fetch' = [pc |-> "post", ticks |-> 0, disabled |-> TRUE, broken |-> FALSE]
          \/ fetch' = [fetch EXCEPT !.pc = "timer"]
          \/ fetch' = [fetch EXCEPT !.pc = "status"]
          \/ Ladder!FetchStops
      BY <1>15
         DEF Ladder!ClickFetch, Ladder!Post, Ladder!MonitorTimer, Ladder!FetchFails,
             Ladder!FetchGoto
    <3> QED
      BY <1>1, <3>1, FetchGoes, FetchBreaks, FetchBegins
  <2>4. LoadRecords' = LoadRecords
    BY <2>1 DEF LoadRecords
  <2> QED
    BY <1>1, <1>2, <2>1, <2>2, <2>3, <2>4
<1>16. CASE UNCHANGED Ladder!vars
  BY <1>1, <1>2, <1>4, <1>16 DEF Ladder!vars
<1> QED
  BY <1>6, <1>7, <1>8, <1>10, <1>11, <1>12, <1>13, <1>14, <1>15, <1>16
     DEF Ladder!Next, Ladder!Step, Ladder!User

\* After a new request only its answer can be shown.
LEMMA LoadKeepsList ==
    ASSUME Ladder!TypeOK, ListInv, NEW q \in Queries, NEW o \in Nat, NEW by \in {"user", "fetch"},
           Ladder!Load(q, o, by), UNCHANGED server, ~debounce' => offset' = o,
           Settled' => server.job # "active"
    PROVE  ListInv'
<1>1. PICK new \in loads' :
         /\ new.newest /\ new.asked = last'.asked /\ new.version = {}
         /\ \A l \in loads' : l.newest => l = new
  BY NewLoad
<1>2. last'.asked.offset = o
  BY NewLoad
<1> QED
  BY <1>1, <1>2 DEF ListInv, Superseded

LEMMA ListKept == Ladder!TypeOK /\ ListInv /\ [Ladder!Next]_(Ladder!vars) => ListInv'
<1> SUFFICES ASSUME Ladder!TypeOK, ListInv, [Ladder!Next]_(Ladder!vars)
             PROVE  ListInv'
  OBVIOUS
<1> USE DEF Ladder!controls, Ladder!list
<1>1. /\ query \in Queries /\ offset \in Nat /\ debounce \in BOOLEAN
      /\ loads \subseteq LoadRecords
      /\ shown \in [asked : AskedRecords, version : Nat]
      /\ fetch \in FetchRecords
      /\ server \in [job : {"none", "active", "succeeded", "failed"}, version : Nat]
      /\ last \in [asked : AskedRecords, failed : BOOLEAN]
  BY DEF Ladder!TypeOK, LoadRecords, FetchRecords, AskedRecords
<1>2. ASSUME NEW l \in loads, Ladder!ServerLists(l)
      PROVE  ListInv'
  <2> DEFINE new == [l EXCEPT !.version = {server.version}]
  <2>1. /\ loads' = (loads \ {l}) \cup {new}
        /\ UNCHANGED <<query, offset, debounce, shown, fetch, server, acts, last>>
    BY <1>2 DEF Ladder!ServerLists
  <2>2. new.newest = l.newest /\ new.asked = l.asked /\ new.version = {server.version}
    BY <1>1 DEF LoadRecords
  <2> HIDE DEF new
  <2>3. Superseded' <=> Superseded
    BY <2>1, <2>2 DEF Superseded
  <2> QED
    BY <2>1, <2>2, <2>3 DEF ListInv, Settled
<1>3. ASSUME NEW l \in loads, Ladder!ListAnswered(l)
      PROVE  ListInv'
  <2>1. /\ loads' = loads \ {l}
        /\ UNCHANGED <<query, offset, debounce, server, last>>
    BY <1>3 DEF Ladder!ListAnswered
  <2>2. Settled' => Settled
    BY <1>1, <1>3 DEF Ladder!ListAnswered, Ladder!FetchGoesOn, Settled
  <2>3. CASE l.newest
    <3>1. PICK version \in l.version : shown' = [asked |-> l.asked, version |-> version]
      BY <1>3, <2>3 DEF Ladder!ListAnswered, Ladder!Show
    <3>2. shown'.asked = last'.asked /\ (Settled => shown'.version = server.version)
      BY <2>1, <2>3, <3>1 DEF ListInv
    <3> QED
      BY <2>1, <2>2, <3>2 DEF ListInv
  <2>4. CASE ~l.newest
    <3>1. UNCHANGED shown /\ (Superseded' => Superseded)
      BY <1>3, <2>1, <2>4 DEF Ladder!ListAnswered, Superseded
    <3> QED
      BY <2>1, <2>2, <3>1 DEF ListInv
  <2> QED
    BY <2>3, <2>4
<1>4. ASSUME NEW l \in loads, Ladder!ListFails(l)
      PROVE  ListInv'
  <2>1. /\ loads' = loads \ {l}
        /\ UNCHANGED <<query, offset, debounce, server, shown>>
        /\ last'.asked = last.asked /\ (last'.failed <=> last.failed \/ l.newest)
    BY <1>1, <1>4 DEF Ladder!ListFails, LoadRecords
  <2>2. Settled' => Settled
    BY <1>1, <1>4, FetchBreaks DEF Ladder!ListFails, Settled
  <2>3. Superseded' /\ ~last'.failed => Superseded /\ ~last.failed
    BY <2>1 DEF Superseded
  <2> QED
    BY <2>1, <2>2, <2>3 DEF ListInv
<1>5. ASSUME NEW o \in Nat, Ladder!LoadAt(o)
      PROVE  ListInv'
  <2>1. Ladder!Load(query, o, "user") /\ offset' = o /\ UNCHANGED <<fetch, server>>
    BY <1>5 DEF Ladder!LoadAt
  <2>2. Settled' => server.job # "active"
    BY <2>1 DEF ListInv, Settled
  <2> QED
    BY <1>1, <2>1, <2>2, LoadKeepsList
<1>6. CASE Ladder!ClickLoad \/ Ladder!ClickNext \/ Ladder!ClickPrevious
  BY <1>1, <1>5, <1>6 DEF Ladder!ClickLoad, Ladder!ClickNext, Ladder!ClickPrevious
<1>7. ASSUME NEW q \in Queries, Ladder!Search(q)
      PROVE  ListInv'
  BY <1>7 DEF Ladder!Search, ListInv, Settled, Superseded
<1>8. CASE Ladder!SearchTimer
  <2>1. Ladder!Load(query, offset, "user") /\ UNCHANGED <<offset, fetch, server>>
    BY <1>8 DEF Ladder!SearchTimer
  <2>2. Settled' => server.job # "active"
    BY <2>1 DEF ListInv, Settled
  <2> QED
    BY <1>1, <2>1, <2>2, LoadKeepsList
<1>9. CASE Ladder!Status
  <2>1. UNCHANGED <<query, offset, debounce, server>>
    BY <1>9 DEF Ladder!Status
  <2>2. ASSUME Ladder!Load(query, offset, "fetch"), Settled' => server.job # "active"
        PROVE  ListInv'
    BY <1>1, <2>1, <2>2, LoadKeepsList
  <2>3. ASSUME UNCHANGED <<loads, shown, last>>, ~Settled'
        PROVE  ListInv'
    BY <2>1, <2>3 DEF ListInv, Superseded
  <2>4. CASE fetch' = [fetch EXCEPT !.pc = "timer", !.ticks = (@ + 1) % 3]
             /\ UNCHANGED <<loads, shown, last>>
    <3>1. (fetch.ticks + 1) % 3 \in 0 .. 2
      BY <1>1 DEF FetchRecords
    <3>2. ~Settled'
      BY <1>1, <2>4, <3>1, FetchTicks DEF Settled
    <3> QED
      BY <2>3, <2>4, <3>2
  <2>5. CASE fetch' = [fetch EXCEPT !.pc = "list", !.ticks = 0]
             /\ Ladder!Load(query, offset, "fetch")
    <3>1. ~Settled'
      BY <1>1, <2>5, FetchTicks DEF Settled
    <3> QED
      BY <2>2, <2>5, <3>1
  <2>6. CASE server.job = "succeeded" /\ Ladder!Load(query, offset, "fetch")
    BY <2>2, <2>6
  <2>7. CASE Ladder!FetchStops /\ UNCHANGED <<loads, shown, last>>
    <3>1. ~Settled'
      BY <1>1, <2>7, FetchBreaks DEF Settled
    <3> QED
      BY <2>3, <2>7, <3>1
  <2> QED
    BY <1>9, <2>4, <2>5, <2>6, <2>7 DEF Ladder!Status
<1>10. CASE Ladder!JobEnds
  BY <1>10 DEF Ladder!JobEnds, ListInv, Settled, Superseded
<1>11. CASE Ladder!ClickFetch \/ Ladder!Post \/ Ladder!MonitorTimer \/ Ladder!FetchFails
  <2>1. UNCHANGED <<query, offset, debounce, loads, shown, last>>
    BY <1>11 DEF Ladder!ClickFetch, Ladder!Post, Ladder!MonitorTimer, Ladder!FetchFails
  <2>2. ~Settled'
    <3>1. \/ fetch' = [pc |-> "post", ticks |-> 0, disabled |-> TRUE, broken |-> FALSE]
          \/ fetch' = [fetch EXCEPT !.pc = "timer"]
          \/ fetch' = [fetch EXCEPT !.pc = "status"]
          \/ Ladder!FetchStops
      BY <1>11
         DEF Ladder!ClickFetch, Ladder!Post, Ladder!MonitorTimer, Ladder!FetchFails,
             Ladder!FetchGoto
    <3> QED
      BY <1>1, <3>1, FetchGoes, FetchBreaks, FetchBegins DEF Settled
  <2> QED
    BY <2>1, <2>2 DEF ListInv, Superseded
<1>12. CASE UNCHANGED Ladder!vars
  BY <1>12 DEF Ladder!vars, ListInv, Settled, Superseded
<1> QED
  BY <1>2, <1>3, <1>4, <1>6, <1>7, <1>8, <1>9, <1>10, <1>11, <1>12
     DEF Ladder!Next, Ladder!Step, Ladder!User

LEMMA ListBegins ==
    ASSUME LadderEvents \in Nat
    PROVE  Ladder!Init => Ladder!TypeOK /\ ListInv
<1> SUFFICES ASSUME Ladder!Init
             PROVE  Ladder!TypeOK /\ ListInv
  OBVIOUS
<1>1. Ladder!TypeOK
  <2>1. [query |-> query, offset |-> 0] \in [query : Queries, offset : Nat]
    BY DEF Ladder!Init
  <2>2. /\ offset = 0 /\ debounce = FALSE /\ loads = {} /\ acts = 0
        /\ shown = [asked |-> [query |-> query, offset |-> 0], version |-> 0]
        /\ fetch = [pc |-> "off", ticks |-> 0, disabled |-> FALSE, broken |-> FALSE]
        /\ server = [job |-> "none", version |-> 0]
        /\ last = [asked |-> [query |-> query, offset |-> 0], failed |-> FALSE]
        /\ query \in Queries
    BY DEF Ladder!Init, Ladder!Asked
  <2>3. fetch \in FetchRecords
    BY <2>2 DEF FetchRecords
  <2>4. shown \in [asked : AskedRecords, version : Nat]
        /\ last \in [asked : AskedRecords, failed : BOOLEAN]
    BY <2>1, <2>2 DEF AskedRecords
  <2>5. server \in [job : {"none", "active", "succeeded", "failed"}, version : Nat]
    BY <2>2
  <2> QED
    <3>1. query \in Queries /\ offset \in Nat
      BY <2>2
    <3>2. debounce \in BOOLEAN
      BY <2>2
    <3>3. loads \subseteq LoadRecords
      BY <2>2
    <3>4. acts \in 0 .. LadderEvents
      BY <2>2
    <3> QED
      BY <2>3, <2>4, <2>5, <3>1, <3>2, <3>3, <3>4 DEF Ladder!TypeOK, LoadRecords, FetchRecords, AskedRecords
<1>2. ListInv
  BY DEF Ladder!Init, Ladder!Asked, ListInv, Settled
<1> QED
  BY <1>1, <1>2

\* The script of the ladder page shows what was asked for last, in whatever
\* order the answers come, and after a fetch that ended well the new ladder.
THEOREM LastAskedIsShown ==
    ASSUME LadderEvents \in Nat
    PROVE  Ladder!Spec => []ListCurrent
<1>1. Ladder!Init => Ladder!TypeOK /\ ListInv
  BY ListBegins
<1>2. Ladder!TypeOK /\ ListInv /\ [Ladder!Next]_(Ladder!vars) => (Ladder!TypeOK /\ ListInv)'
  BY ListTypes, ListKept
<1>3. Ladder!TypeOK /\ ListInv => ListCurrent
  <2> SUFFICES ASSUME Ladder!TypeOK, ListInv, loads = {}, ~last.failed
               PROVE  /\ shown.asked = last.asked
                      /\ ~debounce => shown.asked.offset = offset
                      /\ fetch.pc = "off" /\ ~fetch.broken => shown.version = server.version
    BY DEF ListCurrent, Ladder!ListCurrent
  <2>1. Superseded
    BY DEF Superseded
  <2> QED
    BY <2>1 DEF ListInv, Settled
<1> QED
  BY <1>1, <1>2, <1>3, PTL DEF Ladder!Spec

-----------------------------------------------------------------------------
(***************************************************************************)
(* The profile page, for any number of buttons with requests under way and *)
(* of events: a lifecycle that is shown as busy is followed by a loop, or  *)
(* adrift.  This is the safety part of PageSettles.  Only loops post and   *)
(* poll, and only requests in flight have a view, so that no loop ends     *)
(* unnoticed.                                                              *)
(***************************************************************************)
ThreadRecords ==
    [pc : {"off", "load", "tick", "show", "timer", "manage", "check", "insert", "posted"},
     view : [at : {"none", "asked", "seen", "answered"}, active : BOOLEAN,
             state : Page!Lifecycles \cup {"none"}, due : BOOLEAN]]

PageRecords == [life : Page!Lifecycles \cup {"none"}, timer : SUBSET Page!Loops, adrift : BOOLEAN]

Roles ==
    /\ \A t \in Page!Threads : thread[t].view.at # "none" => thread[t].pc \in {"load", "tick", "show"}
    /\ \A t \in Buttons : thread[t].pc \in {"off", "show", "manage"}

Polling(t) == thread[t].pc \in {"tick", "timer"}

BusyIsFollowed == page.life \in Page!Busy /\ ~page.adrift => \E t \in Page!Loops : Polling(t)

PageShape ==
    /\ active \in BOOLEAN /\ ended \subseteq Page!Terminal /\ answers \in {"hit", "stale", "none"}
    /\ thread \in [Page!Threads -> ThreadRecords]
    /\ page \in PageRecords
    /\ locked \in BOOLEAN
    /\ events \in 0 .. PageEvents

PageInv == PageShape /\ Roles /\ BusyIsFollowed

LEMMA PageTypes == PageShape <=> Page!TypeOK
BY DEF PageShape, Page!TypeOK, ThreadRecords, PageRecords

LEMMA ThreadRecordsMade ==
    /\ Page!Off \in ThreadRecords
    /\ \A place \in {"off", "load", "tick", "show", "timer", "manage", "check", "insert", "posted"} :
          /\ Page!Asking(place) \in ThreadRecords /\ Page!Asking(place).pc = place
          /\ [Page!Off EXCEPT !.pc = place] \in ThreadRecords
          /\ [Page!Off EXCEPT !.pc = place].pc = place /\ [Page!Off EXCEPT !.pc = place].view.at = "none"
BY DEF Page!Off, Page!Asking, Page!NoView, ThreadRecords

\* Page!Goto and Page!Ask change one thread.
LEMMA OneThread ==
    ASSUME PageInv, NEW t \in Page!Threads,
           NEW place \in {"off", "load", "tick", "show", "timer", "manage", "check", "insert", "posted"},
           Page!Goto(t, place) \/ Page!Ask(t, place)
    PROVE  /\ thread' \in [Page!Threads -> ThreadRecords]
           /\ thread'[t].pc = place
           /\ Page!Goto(t, place) => thread'[t].view.at = "none"
           /\ \A s \in Page!Threads \ {t} : thread'[s] = thread[s]
<1>1. thread \in [Page!Threads -> ThreadRecords]
  BY DEF PageInv, PageShape
<1>2. ASSUME NEW r \in ThreadRecords, thread' = [thread EXCEPT ![t] = r]
      PROVE  /\ thread' \in [Page!Threads -> ThreadRecords] /\ thread'[t] = r
             /\ \A s \in Page!Threads \ {t} : thread'[s] = thread[s]
  BY <1>1, <1>2
<1>3. ASSUME Page!Goto(t, place)
      PROVE  thread'[t].view.at = "none"
  BY <1>2, <1>3, ThreadRecordsMade DEF Page!Goto
<1>4. CASE Page!Goto(t, place)
  <2> DEFINE r == [Page!Off EXCEPT !.pc = place]
  <2>1. r \in ThreadRecords /\ r.pc = place /\ thread' = [thread EXCEPT ![t] = r]
    BY <1>4, ThreadRecordsMade DEF Page!Goto
  <2> HIDE DEF r
  <2> QED
    BY <1>2, <1>3, <2>1
<1>5. CASE Page!Ask(t, place)
  <2>1. /\ Page!Asking(place) \in ThreadRecords /\ Page!Asking(place).pc = place
        /\ thread' = [thread EXCEPT ![t] = Page!Asking(place)]
    BY <1>5, ThreadRecordsMade DEF Page!Ask
  <2> QED
    BY <1>2, <1>3, <2>1
<1> QED
  BY <1>4, <1>5

\* Page!Poll asks for a tick and takes the timer from the other loop.
LEMMA PollAsks ==
    ASSUME PageInv, NEW t \in Page!Threads, Page!Poll(t)
    PROVE  /\ thread' \in [Page!Threads -> ThreadRecords]
           /\ thread'[t].pc = "tick"
           /\ \A s \in Page!Threads \ {t} : thread'[s] \in {thread[s], Page!Off}
<1>1. thread \in [Page!Threads -> ThreadRecords]
  BY DEF PageInv, PageShape
<1> QED
  BY <1>1, ThreadRecordsMade DEF Page!Poll

\* The state of an answer is a lifecycle.
LEMMA StatesAreLifecycles ==
    ASSUME NEW isActive \in BOOLEAN, NEW state \in Page!StatesOf(isActive, ended)
    PROVE  state \in Page!Lifecycles
<1>1. PICK account \in Page!AccountsOf(isActive, ended) :
         state = Page!ProfileStatus(isActive, ended, account)
  BY DEF Page!StatesOf
<1>2. account \in BOOLEAN
  BY <1>1 DEF Page!AccountsOf
<1> QED
  BY <1>1, <1>2 DEF Page!ProfileStatus, Page!Lifecycles, Page!Busy

LEMMA ViewsKeepPage ==
    ASSUME PageInv, NEW t \in Page!Threads, Page!ReadActive(t) \/ Page!ReadRest(t)
    PROVE  PageInv'
<1> DEFINE views == [at : {"none", "asked", "seen", "answered"}, active : BOOLEAN,
                     state : Page!Lifecycles \cup {"none"}, due : BOOLEAN]
<1>1. thread \in [Page!Threads -> ThreadRecords] /\ thread[t].view \in views
  BY DEF PageInv, PageShape, ThreadRecords
<1>2. \E v \in views : thread' = [thread EXCEPT ![t].view = v]
  <2>1. CASE Page!ReadActive(t)
    <3>1. [[thread[t].view EXCEPT !.at = "seen"] EXCEPT !.active = active] \in views
      BY <1>1 DEF PageInv, PageShape
    <3>2. thread' = [thread EXCEPT ![t].view =
                        [[thread[t].view EXCEPT !.at = "seen"] EXCEPT !.active = active]]
      BY <1>1, <2>1 DEF Page!ReadActive, ThreadRecords
    <3> QED
      BY <3>1, <3>2
  <2>2. CASE Page!ReadRest(t)
    <3>1. PICK state \in Page!StatesOf(thread[t].view.active, ended) :
             thread' = [thread EXCEPT ![t].view =
                           [Page!NoView EXCEPT !.at = "answered", !.state = state,
                                !.due = thread[t].pc = "load" /\ answers = "stale"]]
      BY <2>2 DEF Page!ReadRest
    <3>2. state \in Page!Lifecycles
      BY <1>1, <3>1, StatesAreLifecycles DEF PageInv
    <3>3. (thread[t].pc = "load" /\ answers = "stale") \in BOOLEAN
      OBVIOUS
    <3>4. [Page!NoView EXCEPT !.at = "answered", !.state = state,
              !.due = thread[t].pc = "load" /\ answers = "stale"] \in views
      BY <3>2, <3>3 DEF Page!NoView
    <3> QED
      BY <3>1, <3>4
  <2> QED
    BY <2>1, <2>2
<1>3. /\ thread' \in [Page!Threads -> ThreadRecords]
      /\ \A s \in Page!Threads : thread'[s].pc = thread[s].pc
      /\ \A s \in Page!Threads \ {t} : thread'[s] = thread[s]
  BY <1>1, <1>2 DEF ThreadRecords
<1>4. UNCHANGED <<active, ended, answers, page, locked, events>>
  BY DEF Page!ReadActive, Page!ReadRest, Page!serverVars
<1>5. PageShape'
  BY <1>3, <1>4 DEF PageInv, PageShape, ThreadRecords, PageRecords
<1>6. thread[t].pc \in {"load", "tick", "show"}
  BY <1>1 DEF Page!ReadActive, Page!ReadRest, PageInv, Roles
<1>7. Roles' /\ BusyIsFollowed'
  BY <1>3, <1>4, <1>6 DEF PageInv, Roles, BusyIsFollowed, Polling, Page!Threads
<1> QED
  BY <1>5, <1>7 DEF PageInv

\* The server moves: the page stays as it is.
LEMMA ServerKeepsPage ==
    ASSUME PageInv, Page!Create \/ Page!JobEnds \/ Page!FillCache \/ Page!CacheAges,
           UNCHANGED <<thread, page, locked>>, events' \in 0 .. PageEvents
    PROVE  PageInv'
<1>1. /\ active' \in BOOLEAN /\ ended' \subseteq Page!Terminal
      /\ answers' \in {"hit", "stale", "none"}
  BY DEF PageInv, PageShape, Page!Create, Page!JobEnds, Page!End, Page!FillCache, Page!CacheAges
<1> QED
  BY <1>1 DEF PageInv, PageShape, Roles, BusyIsFollowed, Polling, ThreadRecords, PageRecords

\* One thread moves on, to where its role takes it, and a loop that does not
\* poll any more leaves a page that is not busy, adrift or followed by another.
LEMMA ThreadMoves ==
    ASSUME PageInv, NEW t \in Page!Threads,
           NEW place \in {"off", "load", "tick", "show", "timer", "manage", "check", "insert", "posted"},
           Page!Goto(t, place) \/ (Page!Ask(t, place) /\ place \in {"load", "tick", "show"}),
           t \in Buttons => place \in {"off", "show", "manage"},
           UNCHANGED <<active, ended, answers>>, page' \in PageRecords, locked' \in BOOLEAN,
           events' \in 0 .. PageEvents,
           page'.life \in Page!Busy /\ ~page'.adrift =>
               \/ t \in Page!Loops /\ place \in {"tick", "timer"}
               \/ Page!Followed(t)
    PROVE  PageInv'
<1>1. /\ thread' \in [Page!Threads -> ThreadRecords]
      /\ thread'[t].pc = place
      /\ Page!Goto(t, place) => thread'[t].view.at = "none"
      /\ \A s \in Page!Threads \ {t} : thread'[s] = thread[s]
  BY OneThread
<1>2. PageShape'
  BY <1>1 DEF PageInv, PageShape, ThreadRecords, PageRecords
<1>3. thread'[t].view.at # "none" => place \in {"load", "tick", "show"}
  BY <1>1
<1>4. Roles'
  BY <1>1, <1>3 DEF PageInv, Roles, Page!Threads
<1>5. BusyIsFollowed'
  BY <1>1 DEF BusyIsFollowed, Polling, Page!Followed, Page!Threads
<1> QED
  BY <1>2, <1>4, <1>5 DEF PageInv

\* A thread that is no button polls, and takes the timer from the other loop.
LEMMA PollKeepsPage ==
    ASSUME PageInv, NEW t \in Page!Loops, Page!Poll(t), Buttons \cap Page!Loops = {},
           UNCHANGED <<active, ended, answers>>, page' \in PageRecords, locked' \in BOOLEAN,
           events' \in 0 .. PageEvents
    PROVE  PageInv'
<1>1. t \in Page!Threads
  BY DEF Page!Threads
<1>2. /\ thread' \in [Page!Threads -> ThreadRecords] /\ thread'[t].pc = "tick"
      /\ \A s \in Page!Threads \ {t} : thread'[s] \in {thread[s], Page!Off}
  BY <1>1, PollAsks
<1>3. PageShape'
  BY <1>2 DEF PageInv, PageShape, ThreadRecords, PageRecords
<1>4. Page!Off.pc = "off" /\ Page!Off.view.at = "none"
  BY DEF Page!Off, Page!NoView
<1>5. Roles'
  BY <1>2, <1>4 DEF PageInv, Roles, Page!Threads
<1>6. BusyIsFollowed'
  BY <1>2 DEF BusyIsFollowed, Polling
<1> QED
  BY <1>3, <1>5, <1>6 DEF PageInv

\* What Page!Render shows.
LEMMA RenderShows ==
    ASSUME PageInv, NEW t \in Page!Threads, NEW timer \in SUBSET Page!Loops, Page!Render(t, timer)
    PROVE  /\ page' \in PageRecords
           /\ page'.life = thread[t].view.state
           /\ page'.adrift <=> t \in Buttons /\ ~Page!Followed(t)
<1>1. thread[t].view.state \in Page!Lifecycles \cup {"none"}
  BY DEF PageInv, PageShape, ThreadRecords
<1>2. page' = [life |-> thread[t].view.state, timer |-> timer,
               adrift |-> t \in Buttons /\ ~Page!Followed(t)]
  BY DEF Page!Render
<1>3. (t \in Buttons /\ ~Page!Followed(t)) \in BOOLEAN
  OBVIOUS
<1> QED
  BY <1>1, <1>2, <1>3 DEF PageRecords

LEMMA EventsBounded ==
    ASSUME PageInv, PageEvents \in Nat, Page!Happens
    PROVE  events' \in 0 .. PageEvents
BY DEF Page!Happens, PageInv, PageShape

LEMMA LoadedKeepsPage ==
    ASSUME PageInv, Page!Loaded, Buttons \cap Page!Loops = {}
    PROVE  PageInv'
<1> DEFINE life == thread["boot"].view.state
<1>1. "boot" \in Page!Threads /\ "boot" \in Page!Loops /\ "boot" \notin Buttons
  BY DEF Page!Threads, Page!Loops
<1>2. /\ page' \in PageRecords /\ page'.life = life
      /\ UNCHANGED <<active, ended, answers, events>>
  <2>1. page.timer \in SUBSET Page!Loops
    BY DEF PageInv, PageShape, PageRecords
  <2> QED
    BY <1>1, <2>1, RenderShows DEF Page!Loaded, Page!serverVars
<1>3. CASE life \in Page!Busy
  <2>1. Page!Poll("boot") /\ UNCHANGED locked
    BY <1>3 DEF Page!Loaded
  <2> QED
    BY <1>1, <1>2, <2>1, PollKeepsPage DEF PageInv, PageShape
<1>4. CASE life \notin Page!Busy
  <2>1. /\ Page!Goto("boot", "check") \/ Page!Goto("boot", "off")
        /\ locked' \in BOOLEAN
    BY <1>4 DEF Page!Loaded, PageInv, PageShape
  <2> QED
    BY <1>1, <1>2, <1>4, <2>1, ThreadMoves DEF PageInv, PageShape
<1> QED
  BY <1>3, <1>4

LEMMA TickedKeepsPage ==
    ASSUME PageInv, NEW t \in Page!Loops, Page!Ticked(t), Buttons \cap Page!Loops = {}
    PROVE  PageInv'
<1>1. t \in Page!Threads /\ t \notin Buttons
  BY DEF Page!Threads
<1>2. UNCHANGED <<active, ended, answers, locked, events>>
  BY DEF Page!Ticked, Page!serverVars
<1>3. CASE Page!Render(t, {t}) /\ Page!Goto(t, "timer")
  <2>1. page' \in PageRecords
    BY <1>1, <1>3, RenderShows
  <2> QED
    BY <1>1, <1>2, <1>3, <2>1, ThreadMoves DEF PageInv, PageShape
<1>4. CASE thread[t].view.state \notin Page!Polled /\ Page!Render(t, page.timer) /\ Page!Goto(t, "off")
  <2>1. page.timer \in SUBSET Page!Loops
    BY DEF PageInv, PageShape, PageRecords
  <2>2. page' \in PageRecords /\ page'.life \notin Page!Busy
    BY <1>1, <1>4, <2>1, RenderShows DEF Page!Polled, Page!Busy
  <2> QED
    BY <1>1, <1>2, <1>4, <2>2, ThreadMoves DEF PageInv, PageShape
<1> QED
  BY <1>3, <1>4 DEF Page!Ticked

LEMMA ShownKeepsPage ==
    ASSUME PageInv, NEW t \in Buttons, Page!Shown(t), Buttons \cap Page!Loops = {}
    PROVE  PageInv'
<1>1. t \in Page!Threads /\ page.timer \in SUBSET Page!Loops
  BY DEF Page!Threads, PageInv, PageShape, PageRecords
<1>2. Page!Render(t, page.timer) /\ Page!Goto(t, "off")
  BY DEF Page!Shown
<1>3. UNCHANGED <<active, ended, answers, locked, events>>
  BY DEF Page!Shown, Page!serverVars
<1>4. page' \in PageRecords /\ (page'.adrift \/ Page!Followed(t))
  BY <1>1, <1>2, RenderShows
<1> QED
  BY <1>1, <1>2, <1>3, <1>4, ThreadMoves DEF PageInv, PageShape

LEMMA ViewFailsKeepsPage ==
    ASSUME PageInv, NEW t \in Page!Threads, Page!ViewFails(t), Buttons \cap Page!Loops = {},
           PageEvents \in Nat
    PROVE  PageInv'
<1>1. Page!Goto(t, "off") /\ UNCHANGED <<active, ended, answers, locked>>
  BY DEF Page!ViewFails, Page!serverVars
<1>2. events' \in 0 .. PageEvents
  BY EventsBounded DEF Page!ViewFails
<1>3. /\ page' \in PageRecords /\ page'.life = page.life
      /\ page'.adrift <=> page.adrift \/ (thread[t].pc = "tick" /\ ~Page!Followed(t))
  <2> DEFINE lost == page.adrift \/ (thread[t].pc = "tick" /\ ~Page!Followed(t))
  <2>1. page' = [page EXCEPT !.adrift = lost]
    BY DEF Page!ViewFails
  <2>2. page \in PageRecords /\ lost \in BOOLEAN
    BY DEF PageInv, PageShape, PageRecords
  <2> QED
    BY <2>1, <2>2 DEF PageRecords
<1>4. thread[t].pc # "timer"
  BY DEF Page!ViewFails, Page!InFlight, PageInv, Roles
<1>5. page.life \in Page!Busy /\ ~page'.adrift => Page!Followed(t)
  BY <1>3, <1>4 DEF PageInv, BusyIsFollowed, Polling, Page!Followed
<1> QED
  BY <1>1, <1>2, <1>3, <1>5, ThreadMoves DEF PageInv, PageShape

\* The other steps of a thread neither show a view nor stop a loop.
LEMMA OtherStepsKeepPage ==
    ASSUME PageInv, NEW t \in Page!Threads, Buttons \cap Page!Loops = {}, PageEvents \in Nat,
           \/ Page!PostCheck(t) \/ Page!PostInsert(t) \/ Page!Posted(t) \/ Page!TimerFires(t)
           \/ t \in Buttons /\ Page!Managed(t)
           \/ Page!RequestFails(t)
    PROVE  PageInv'
<1> USE DEF Page!serverVars
<1>1. t \in Page!Loops \/ t \in Buttons
  BY DEF Page!Threads
<1>2. page.life \in Page!Busy /\ ~page.adrift /\ ~Polling(t) => Page!Followed(t)
  BY DEF PageInv, BusyIsFollowed, Polling, Page!Followed
<1>3. thread[t].pc \in {"check", "insert", "posted", "timer"} => t \in Page!Loops /\ t \notin Buttons
  BY <1>1 DEF PageInv, Roles
<1>4. page \in PageRecords /\ locked \in BOOLEAN /\ events \in 0 .. PageEvents
  BY DEF PageInv, PageShape
<1>5. CASE Page!PostCheck(t)
  <2>1. Page!Goto(t, "posted") \/ Page!Goto(t, "insert")
    BY <1>5 DEF Page!PostCheck
  <2> QED
    BY <1>2, <1>3, <1>4, <1>5, <2>1, ThreadMoves DEF Page!PostCheck, Polling
<1>6. CASE Page!PostInsert(t)
  <2>1. active' \in BOOLEAN /\ UNCHANGED <<ended, answers>>
    BY <1>6 DEF Page!PostInsert, Page!Create
  <2>2. /\ thread' \in [Page!Threads -> ThreadRecords]
        /\ thread'[t].pc = "posted" /\ thread'[t].view.at = "none"
        /\ \A s \in Page!Threads \ {t} : thread'[s] = thread[s]
    BY <1>6, OneThread DEF Page!PostInsert
  <2>3. PageShape'
    BY <1>4, <1>6, <2>1, <2>2 DEF Page!PostInsert, PageInv, PageShape, ThreadRecords, PageRecords
  <2>4. Roles'
    BY <1>3, <1>6, <2>2 DEF Page!PostInsert, PageInv, Roles, Page!Threads
  <2>5. BusyIsFollowed'
    BY <1>2, <1>6, <2>2 DEF Page!PostInsert, BusyIsFollowed, Polling, Page!Followed, Page!Threads
  <2> QED
    BY <2>3, <2>4, <2>5 DEF PageInv
<1>7. CASE Page!Posted(t)
  <2> DEFINE busy == IF page.life = "missing" THEN "populating" ELSE "refreshing"
  <2>1. page' = [page EXCEPT !.life = busy, !.timer = {}, !.adrift = FALSE]
    BY <1>7 DEF Page!Posted
  <2>2. busy \in Page!Lifecycles
    BY DEF Page!Lifecycles, Page!Busy
  <2>3. page' \in PageRecords
    <3> HIDE DEF busy
    <3> QED
      BY <1>4, <2>1, <2>2 DEF PageRecords
  <2> QED
    BY <1>3, <1>4, <1>7, <2>3, PollKeepsPage DEF Page!Posted
<1>8. CASE Page!TimerFires(t)
  BY <1>3, <1>4, <1>8, ThreadMoves DEF Page!TimerFires
<1>9. CASE t \in Buttons /\ Page!Managed(t)
  BY <1>2, <1>4, <1>9, ThreadMoves DEF Page!Managed, Polling
<1>10. CASE Page!RequestFails(t)
  <2>1. events' \in 0 .. PageEvents
    BY <1>10, EventsBounded DEF Page!RequestFails
  <2> QED
    BY <1>2, <1>4, <1>10, <2>1, ThreadMoves DEF Page!RequestFails, Polling
<1> QED
  BY <1>5, <1>6, <1>7, <1>8, <1>9, <1>10

\* The user, the clock of the lockout and other clients.
LEMMA UserKeepsPage ==
    ASSUME PageInv, Buttons \cap Page!Loops = {}, PageEvents \in Nat,
           \/ \E t \in Buttons : Page!ClickMore(t) \/ Page!ClickMatch(t)
           \/ Page!Click \/ Page!LockExpires \/ Page!OthersCreate
    PROVE  PageInv'
<1> USE DEF Page!serverVars
<1>1. page \in PageRecords /\ locked \in BOOLEAN /\ events \in 0 .. PageEvents
  BY DEF PageInv, PageShape
<1>2. CASE \E t \in Buttons : Page!ClickMore(t) \/ Page!ClickMatch(t)
  <2>1. PICK t \in Buttons : Page!ClickMore(t) \/ Page!ClickMatch(t)
    BY <1>2
  <2>2. t \in Page!Threads /\ t \notin Page!Loops
    BY DEF Page!Threads
  <2>3. page.life \in Page!Busy /\ ~page.adrift => Page!Followed(t)
    BY <2>2 DEF PageInv, BusyIsFollowed, Polling, Page!Followed
  <2>4. events' \in 0 .. PageEvents
    BY <2>1, EventsBounded DEF Page!ClickMore, Page!ClickMatch
  <2>5. Page!Ask(t, "show") \/ Page!Goto(t, "manage")
    BY <2>1 DEF Page!ClickMore, Page!ClickMatch
  <2>6. UNCHANGED <<active, ended, answers, page, locked>>
    BY <2>1 DEF Page!ClickMore, Page!ClickMatch
  <2> QED
    BY <1>1, <2>2, <2>3, <2>4, <2>5, <2>6, ThreadMoves
<1>3. CASE Page!Click
  <2>1. "click" \in Page!Threads /\ "click" \notin Buttons
    BY DEF Page!Threads, Page!Loops
  <2> QED
    BY <1>1, <1>3, <2>1, ThreadMoves DEF Page!Click
<1>4. CASE Page!LockExpires
  <2>1. events' \in 0 .. PageEvents
    BY <1>4, EventsBounded DEF Page!LockExpires
  <2> QED
    BY <1>4, <2>1 DEF Page!LockExpires, PageInv, PageShape, Roles, BusyIsFollowed, Polling,
                      ThreadRecords, PageRecords
<1>5. CASE Page!OthersCreate
  <2>1. events' \in 0 .. PageEvents
    BY <1>5, EventsBounded DEF Page!OthersCreate
  <2> QED
    BY <1>5, <2>1, ServerKeepsPage DEF Page!OthersCreate
<1> QED
  BY <1>2, <1>3, <1>4, <1>5

LEMMA PageStep ==
    ASSUME Buttons \cap Page!Loops = {}, PageEvents \in Nat, PageInv, [Page!Next]_(Page!vars)
    PROVE  PageInv'
<1>1. CASE UNCHANGED Page!vars
  BY <1>1 DEF Page!vars, Page!serverVars, Page!pageVars, PageInv, PageShape, Roles,
              BusyIsFollowed, Polling, ThreadRecords, PageRecords
<1>2. ASSUME NEW t \in Page!Threads, Page!ThreadStep(t)
      PROVE  PageInv'
  BY <1>2, ViewsKeepPage, LoadedKeepsPage, TickedKeepsPage, ShownKeepsPage, OtherStepsKeepPage
     DEF Page!ThreadStep
<1>3. ASSUME NEW t \in Page!Threads, Page!ViewFails(t) \/ Page!RequestFails(t)
      PROVE  PageInv'
  BY <1>3, ViewFailsKeepsPage, OtherStepsKeepPage
<1>4. CASE (Page!JobEnds \/ Page!FillCache \/ Page!CacheAges) /\ UNCHANGED Page!pageVars
  <2>1. UNCHANGED <<thread, page, locked, events>> /\ events \in 0 .. PageEvents
    BY <1>4 DEF Page!pageVars, PageInv, PageShape
  <2> QED
    BY <1>4, <2>1, ServerKeepsPage
<1> QED
  BY <1>1, <1>2, <1>3, <1>4, UserKeepsPage DEF Page!Next

LEMMA PageBegins ==
    ASSUME Buttons \cap Page!Loops = {}, PageEvents \in Nat, Page!Init
    PROVE  PageInv
<1>1. PageShape
  <2>1. thread \in [Page!Threads -> ThreadRecords]
    <3>1. Page!Off \in ThreadRecords /\ Page!Asking("load") \in ThreadRecords
      BY ThreadRecordsMade
    <3> QED
      BY <3>1 DEF Page!Init
  <2>2. page \in PageRecords
    BY DEF Page!Init, PageRecords
  <2>3. active \in BOOLEAN /\ ended \subseteq Page!Terminal /\ answers \in {"hit", "stale", "none"}
    BY DEF Page!Init, Page!ServerInit
  <2>4. locked = FALSE /\ events = 0
    BY DEF Page!Init
  <2>5. locked \in BOOLEAN
    BY <2>4
  <2>6. events \in 0 .. PageEvents
    BY <2>4
  <2> QED
    BY <2>1, <2>2, <2>3, <2>5, <2>6 DEF PageShape
<1>2. Roles
  <2>1. /\ Page!Off.pc = "off" /\ Page!Off.view.at = "none" /\ Page!Asking("load").pc = "load"
        /\ "boot" \notin Buttons
    BY DEF Page!Off, Page!Asking, Page!NoView, Page!Loops
  <2> QED
    BY <2>1 DEF Page!Init, Roles, Page!Threads
<1>3. BusyIsFollowed
  BY DEF Page!Init, BusyIsFollowed, Page!Busy
<1> QED
  BY <1>1, <1>2, <1>3 DEF PageInv

\* A profile page that says that a refresh is in progress polls for its end,
\* whatever buttons were used and however answers and failures interleave,
\* except where a button showed the activity, or polling failed, with no loop
\* to follow it.
THEOREM BusyPagePolls ==
    ASSUME Buttons \cap Page!Loops = {}, PageEvents \in Nat
    PROVE  Page!Spec => [](Page!TypeOK /\ BusyIsFollowed)
<1>1. Page!Init => PageInv
  BY PageBegins
<1>2. PageInv /\ [Page!Next]_(Page!vars) => PageInv'
  BY PageStep
<1>3. PageInv => Page!TypeOK /\ BusyIsFollowed
  BY PageTypes DEF PageInv
<1> QED
  BY <1>1, <1>2, <1>3, PTL DEF Page!Spec

=============================================================================
