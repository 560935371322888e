----------------------- MODULE RedisRateLimiterProofs -----------------------
(***************************************************************************)
(* What the limiter in Redis keeps for any number of processes, limits and *)
(* lifetimes of the lock, although callers die, outlive the lock and prune *)
(* windows by old readings of the clock.                                   *)
(*                                                                         *)
(* The argument follows the holder of the lock.  A caller that is in the   *)
(* section either still holds the lock, which then expires where it said,  *)
(* or has been there for the lifetime of the lock.  Reservations become    *)
(* grants only while their caller holds the lock, so nobody else's become  *)
(* grants between the moment a holder found room in a window and its own.  *)
(* Sorted sets lose only members that left the window by the clock of the  *)
(* one who prunes, hence all grants that count are members of their own.   *)
(***************************************************************************)
EXTENDS RedisRateLimiter, CountingLemmas

CallType == [pc : Places, reading : Nat, until : Nat, window : Windows,
             due : Nat, since : Nat, seen : Nat,
             attempts : 0 .. MaxRetries, counts : BOOLEAN]

InLock == {"locking"} \cup Section

\* The grants that are still in a window, and their entries in its sorted set.
LiveGrants(i) == {g \in grants : g.reading + Limits[i].window > now}
Entry(g) == [score |-> g.reading, automatic |-> g.automatic]

\* The caller has found room in the window.
Checked(c, i) ==
    \/ call[c].pc = "scanning" /\ i < call[c].window /\ call[c].until <= call[c].reading
    \/ call[c].pc \in {"reserving", "granted"}

\* The caller has taken a place in the window.
Written(c, i) ==
    \/ call[c].pc = "reserving" /\ i < call[c].window
    \/ call[c].pc = "granted"

LockKept(c) ==
    /\ call[c].since <= now
    /\ Holds(c) => lock.expires = call[c].since + LockTTL
    /\ Holds(c) \/ now >= call[c].since + LockTTL

RoomKept(c, i) ==
    /\ Checked(c, i) => Cardinality(LiveGrants(i)) < Limits[i].count
    /\ Written(c, i) /\ call[c].counts =>
          /\ call[c].reading + Limits[i].window > now => Member(c) \in windows[i].members
          /\ \A g \in LiveGrants(i) : Entry(g) # Member(c)

CallInv(c) ==
    /\ call[c].pc \in InLock => call[c].reading <= now
    /\ call[c].pc = "locking" => call[c].window = 1
    /\ call[c].pc \in {"refused", "paused"} => call[c].reading <= call[c].until
    /\ call[c].pc \in Section => LockKept(c)
    /\ call[c].pc \in Section /\ Holds(c) => \A i \in Windows : RoomKept(c, i)

GrantsPast == IsFiniteSet(grants) /\ \A g \in grants : g.reading <= g.at /\ g.at <= now

MembersKept(i) ==
    /\ IsFiniteSet(windows[i].members)
    /\ \A m \in windows[i].members : m.score <= now /\ m.score + Limits[i].window <= windows[i].expires

EntriesKept(i) ==
    \A g \in LiveGrants(i) :
        /\ Entry(g) \in windows[i].members
        /\ \A h \in grants : Entry(g) = Entry(h) => g = h

RedisInv ==
    /\ TypeOK
    /\ GrantsPast
    /\ \A i \in Windows : MembersKept(i) /\ EntriesKept(i)
    /\ \A c \in Callers : CallInv(c)

-----------------------------------------------------------------------------
(* Types of what the section computes.                                     *)

LEMMA SeqElement ==
    ASSUME NEW S, NEW q \in Seq(S), NEW k \in 1 .. Len(q)
    PROVE  q[k] \in S
OBVIOUS

LEMMA LimitType ==
    /\ Windows = 1 .. Len(Limits) /\ Len(Limits) \in Nat /\ 1 \in Windows
    /\ Unlock \in Nat /\ LockTTL \in Nat \ {0} /\ MaxRetries \in Nat /\ RetryAfter \subseteq Nat
    /\ Nobody \notin Callers
    /\ \A i \in Windows : Limits[i].count \in Nat \ {0} /\ Limits[i].window \in Nat \ {0}
<1>1. Limits \in Seq([count : Nat \ {0}, window : Nat \ {0}]) /\ Limits # <<>>
  BY LimitsOK
<1>2. Windows = 1 .. Len(Limits) /\ Len(Limits) \in Nat /\ Len(Limits) # 0
  BY <1>1 DEF Windows
<1>3. \A i \in Windows : Limits[i] \in [count : Nat \ {0}, window : Nat \ {0}]
  BY <1>1, <1>2, SeqElement
<1>4. QED
  BY <1>2, <1>3, LimitsOK

LEMMA StateTypes ==
    ASSUME TypeOK
    PROVE  /\ {now, delays, crashes} \subseteq Nat
           /\ lock \in [holder : Callers \cup {Nobody}, expires : Nat]
           /\ blocked \in [until : Nat, expires : Nat]
           /\ windows \in [Windows -> [members : SUBSET Members, expires : Nat]]
           /\ call \in [Callers -> CallType]
           /\ grants \subseteq [reading : Nat, at : Nat, automatic : BOOLEAN]
           /\ raced \subseteq Callers
BY DEF TypeOK, CallType

LEMMA CallTypes ==
    ASSUME TypeOK, NEW c \in Callers
    PROVE  /\ call[c] \in CallType
           /\ call[c].pc \in Places /\ call[c].reading \in Nat /\ call[c].until \in Nat
           /\ call[c].window \in Windows /\ call[c].since \in Nat /\ call[c].seen \in Nat
           /\ call[c].attempts \in 0 .. MaxRetries /\ call[c].counts \in BOOLEAN
BY StateTypes DEF CallType

LEMMA MemberTypes ==
    ASSUME TypeOK, NEW i \in Windows
    PROVE  /\ windows[i].members \subseteq Members /\ windows[i].expires \in Nat
           /\ \A m \in windows[i].members : m.score \in Nat
BY StateTypes DEF Members

\* A set of numbers that is not empty and has a bound has a least one.
LEMMA MinInSet ==
    ASSUME NEW n \in Nat, NEW S \in SUBSET (0 .. n), S # {}
    PROVE  Min(S) \in S
<1> DEFINE T == {j \in 1 .. n + 1 : j - 1 \in S}
<1>1. T \in SUBSET (1 .. n + 1)
  OBVIOUS
<1>2. \A x \in S : x + 1 \in T
  OBVIOUS
<1>3. \A j \in T : j \in Nat /\ j - 1 \in S
  OBVIOUS
<1> HIDE DEF T
<1>4. T # {}
  <2>1. PICK x \in S : TRUE
    OBVIOUS
  <2>2. QED
    BY <1>2, <2>1
<1>5. PICK k \in T : \A j \in T : k <= j
  <2>1. n + 1 \in Nat
    OBVIOUS
  <2>2. QED
    BY <1>1, <1>4, <2>1, Least
<1>6. k \in Nat /\ k - 1 \in S
  BY <1>3
<1>7. ASSUME NEW x \in S PROVE k - 1 <= x
  <2>1. x \in Nat /\ k <= x + 1
    BY <1>2, <1>5
  <2>2. QED
    BY <1>6, <2>1
<1>8. QED
  BY <1>6, <1>7 DEF Min

LEMMA OpensFacts ==
    ASSUME RedisInv, NEW c \in Callers, NEW i \in Windows, ~Hopeless(c, i)
    PROVE  OpensAt(c, i) \in Nat /\ (Full(c, i) => OpensAt(c, i) > call[c].reading)
<1>1. /\ TypeOK /\ MembersKept(i) /\ now \in Nat /\ call[c].reading \in Nat
      /\ Limits[i].window \in Nat \ {0} /\ Limits[i].count \in Nat \ {0} /\ Unlock \in Nat
  BY StateTypes, CallTypes, LimitType DEF RedisInv
<1>2. ASSUME Pruned(c, i) # {}
      PROVE  Oldest(c, i) \in Nat /\ Oldest(c, i) + Limits[i].window > call[c].reading
  <2> DEFINE S == {m.score : m \in Pruned(c, i)}
  <2>1. S \in SUBSET (0 .. now) /\ S # {}
    BY <1>1, <1>2, MemberTypes DEF Pruned, MembersKept
  <2>2. Min(S) \in S
    BY <1>1, <2>1, MinInSet
  <2>3. \A s \in S : s \in Nat /\ s + Limits[i].window > call[c].reading
    BY <1>1, MemberTypes DEF Pruned
  <2>4. QED
    BY <2>2, <2>3 DEF Oldest
<1>3. CASE Full(c, i)
  <2>1. Pruned(c, i) # {}
    BY <1>1, <1>3, FS_EmptySet DEF Full
  <2>2. OpensAt(c, i) = Oldest(c, i) + Limits[i].window
    BY <1>3 DEF OpensAt, Reached
  <2>3. QED
    BY <1>1, <1>2, <2>1, <2>2
<1>4. CASE Reached(c, i) /\ ~Unlocked(c, i)
  <2>1. Pruned(c, i) # {} /\ ~Full(c, i)
    BY <1>4 DEF Hopeless, Reached
  <2>2. OpensAt(c, i) = Oldest(c, i) + Limits[i].window - Unlock
    BY <1>4, <2>1 DEF OpensAt
  <2>3. ~(Oldest(c, i) + Limits[i].window <= call[c].reading + Unlock)
    BY <1>4, <2>1 DEF Unlocked
  <2>4. QED
    BY <1>1, <1>2, <2>1, <2>2, <2>3
<1>5. CASE ~Full(c, i) /\ ~(Reached(c, i) /\ ~Unlocked(c, i))
  BY <1>1, <1>5 DEF OpensAt
<1>6. QED
  BY <1>3, <1>4, <1>5

\* Grants that count are members of their own, so a window with room for a
\* member has room for a grant.
LEMMA RoomForGrant ==
    ASSUME RedisInv, NEW c \in Callers, NEW i \in Windows, call[c].reading <= now, ~Full(c, i)
    PROVE  Cardinality(LiveGrants(i)) < Limits[i].count
<1> DEFINE L == LiveGrants(i)
           P == Pruned(c, i)
           f == [g \in L |-> Entry(g)]
<1>1. /\ TypeOK /\ MembersKept(i) /\ EntriesKept(i) /\ now \in Nat /\ call[c].reading \in Nat
      /\ Limits[i].window \in Nat \ {0} /\ Limits[i].count \in Nat \ {0}
      /\ grants \subseteq [reading : Nat, at : Nat, automatic : BOOLEAN]
  BY StateTypes, CallTypes, LimitType DEF RedisInv
<1>2. IsFiniteSet(P)
  <2>1. P \in SUBSET windows[i].members
    BY DEF Pruned
  <2>2. QED
    BY <1>1, <2>1, FS_Subset DEF MembersKept
<1>3. ASSUME NEW g \in L PROVE Entry(g) \in P
  <2>1. /\ Entry(g) \in windows[i].members /\ g.reading + Limits[i].window > now
        /\ g.reading \in Nat /\ Entry(g).score = g.reading
    BY <1>1 DEF LiveGrants, EntriesKept, Entry
  <2>2. QED
    BY <1>1, <2>1 DEF Pruned
<1>4. ASSUME NEW g \in L, NEW h \in L, Entry(g) = Entry(h) PROVE g = h
  BY <1>1, <1>4 DEF EntriesKept, LiveGrants
<1> HIDE DEF L, P
<1>5. f \in Injection(L, P)
  BY <1>3, <1>4 DEF Injection, IsInjective
<1>6. Cardinality(L) <= Cardinality(P)
  BY <1>2, <1>5, FS_Injection
<1>7. IsFiniteSet(L)
  BY <1>2, <1>5, FS_Injection
<1>8. Cardinality(L) \in Nat /\ Cardinality(P) \in Nat
  BY <1>2, <1>7, FS_CardinalityType
<1>9. ~(Cardinality(P) >= Limits[i].count)
  BY DEF Full, P
<1>10. QED
  BY <1>1, <1>6, <1>8, <1>9 DEF L

-----------------------------------------------------------------------------
(* What a step leaves alone.                                               *)

LEMMA InvInit == Init => RedisInv
<1> SUFFICES ASSUME Init PROVE RedisInv
  OBVIOUS
<1>1. /\ now = 0 /\ lock = NoLock /\ blocked = NoPause /\ delays = 0 /\ crashes = 0
      /\ windows = [i \in Windows |-> NoMembers] /\ call = [c \in Callers |-> Idle]
      /\ grants = {} /\ raced = {}
  BY DEF Init
<1>2. Idle \in CallType /\ Idle.pc = "idle"
  BY LimitType DEF Idle, CallType, Places
<1>3. TypeOK
  BY <1>1, <1>2, LimitType DEF TypeOK, CallType, NoLock, NoPause, NoMembers
<1>4. GrantsPast
  BY <1>1, FS_EmptySet DEF GrantsPast
<1>5. ASSUME NEW i \in Windows PROVE MembersKept(i) /\ EntriesKept(i)
  BY <1>1, FS_EmptySet DEF MembersKept, EntriesKept, NoMembers, LiveGrants
<1>6. ASSUME NEW c \in Callers PROVE CallInv(c)
  BY <1>1, <1>2 DEF CallInv, InLock, Section
<1>7. QED
  BY <1>3, <1>4, <1>5, <1>6 DEF RedisInv

\* The types, when c takes a step to r and the rest has its types.
LEMMA TypeStep ==
    ASSUME RedisInv, NEW c \in Callers, NEW r \in CallType, call' = [call EXCEPT ![c] = r],
           now' = now, delays' = delays, crashes' \in Nat,
           lock' \in [holder : Callers \cup {Nobody}, expires : Nat],
           blocked' \in [until : Nat, expires : Nat],
           windows' \in [Windows -> [members : SUBSET Members, expires : Nat]],
           grants' \subseteq [reading : Nat, at : Nat, automatic : BOOLEAN],
           raced' \subseteq Callers
    PROVE  /\ TypeOK'
           /\ call'[c] = r
           /\ \A d \in Callers \ {c} : call'[d] = call[d]
<1>1. call \in [Callers -> CallType] /\ {now, delays, crashes} \subseteq Nat
  BY StateTypes DEF RedisInv
<1>2. call' \in [Callers -> CallType]
  BY <1>1
<1>3. QED
  BY <1>1, <1>2 DEF TypeOK, CallType

\* A caller that takes no step, while nobody takes what it relies on.
LEMMA OthersKeep ==
    ASSUME RedisInv, NEW d \in Callers, call'[d] = call[d], now' = now,
           lock' = lock \/ (~Holds(d) /\ lock'.holder # d),
           Holds(d) => grants' = grants,
           \A i \in Windows : \A m \in windows[i].members :
               m.score + Limits[i].window > now => m \in windows'[i].members
    PROVE  CallInv(d)'
<1>1. CallInv(d) /\ (Holds(d)' <=> Holds(d)) /\ (Holds(d) => lock' = lock)
  BY DEF RedisInv, Holds
<1>2. call[d].pc \in Section => LockKept(d)'
  BY <1>1 DEF CallInv, LockKept, Holds
<1>3. ASSUME call[d].pc \in Section, Holds(d), NEW i \in Windows
      PROVE  RoomKept(d, i)'
  <2>1. RoomKept(d, i) /\ grants' = grants /\ LiveGrants(i)' = LiveGrants(i)
    BY <1>1, <1>3 DEF CallInv, LiveGrants
  <2>2. Member(d)' = Member(d) /\ Member(d).score = call[d].reading
    BY DEF Member
  <2>3. call[d].reading + Limits[i].window > now /\ Member(d) \in windows[i].members
        => Member(d) \in windows'[i].members
    BY <2>2
  <2>4. (Checked(d, i)' <=> Checked(d, i)) /\ (Written(d, i)' <=> Written(d, i))
    BY DEF Checked, Written
  <2>5. \A g : Entry(g)' = Entry(g)
    BY DEF Entry
  <2>6. QED
    BY <2>1, <2>2, <2>3, <2>4 DEF RoomKept, Entry
<1>4. QED
  BY <1>1, <1>2, <1>3 DEF CallInv

\* The windows and the grants, when both are left alone.
LEMMA TablesKeep ==
    ASSUME RedisInv, UNCHANGED <<now, windows, grants>>
    PROVE  GrantsPast' /\ \A i \in Windows : (MembersKept(i) /\ EntriesKept(i))'
BY DEF RedisInv, GrantsPast, MembersKept, EntriesKept, LiveGrants, Entry

\* A step that leaves the windows and the grants alone, and the lock, unless c
\* takes it while it is free or gives it up.
LEMMA CallerStep ==
    ASSUME RedisInv, NEW c \in Callers, NEW r \in CallType, call' = [call EXCEPT ![c] = r],
           UNCHANGED <<now, windows, grants, delays>>, crashes' \in Nat,
           lock' = lock \/ (lock.holder \in {c, Nobody} /\ lock'.holder \in {c, Nobody}),
           lock' \in [holder : Callers \cup {Nobody}, expires : Nat],
           blocked' \in [until : Nat, expires : Nat],
           raced' \subseteq Callers,
           CallInv(c)'
    PROVE  RedisInv'
<1>1. windows \in [Windows -> [members : SUBSET Members, expires : Nat]]
      /\ grants \subseteq [reading : Nat, at : Nat, automatic : BOOLEAN]
  BY StateTypes DEF RedisInv
<1>2. TypeOK' /\ call'[c] = r /\ \A d \in Callers \ {c} : call'[d] = call[d]
  BY <1>1, TypeStep
<1>3. ASSUME NEW d \in Callers PROVE CallInv(d)'
  <2>1. CASE d = c
    BY <2>1
  <2>2. CASE d # c
    <3>1. lock' = lock \/ (~Holds(d) /\ lock'.holder # d)
      BY <2>2, LimitType DEF Holds
    <3>2. QED
      BY <1>2, <2>2, <3>1, OthersKeep
  <2>3. QED
    BY <2>1, <2>2
<1>4. QED
  BY <1>2, <1>3, TablesKeep DEF RedisInv

\* Outside the section nothing is promised of a caller.
LEMMA OutsideStep ==
    ASSUME RedisInv, NEW c \in Callers, NEW r \in CallType, call' = [call EXCEPT ![c] = r],
           r.pc \notin InLock, r.pc = "paused" => r.reading <= r.until,
           UNCHANGED <<now, windows, grants, delays>>, crashes' \in Nat,
           lock' = lock,
           blocked' \in [until : Nat, expires : Nat],
           raced' \subseteq Callers
    PROVE  RedisInv'
<1>1. call'[c] = r
  BY StateTypes DEF RedisInv
<1>2. CallInv(c)'
  BY <1>1 DEF CallInv, InLock, Section
<1>3. lock \in [holder : Callers \cup {Nobody}, expires : Nat]
  BY StateTypes DEF RedisInv
<1>4. QED
  BY <1>2, <1>3, CallerStep

-----------------------------------------------------------------------------
(* The steps outside the windows.                                          *)

LEMMA StepTypes ==
    ASSUME TypeOK, NEW c \in Callers, NEW place \in Places
    PROVE  /\ Step(c, place) \in CallType /\ Step(c, place).pc = place
           /\ \A time \in Nat : /\ Fresh(c, place, time) \in CallType
                                /\ Fresh(c, place, time).pc = place
                                /\ Fresh(c, place, time).window = 1
<1>1. Step(c, place) \in CallType /\ Step(c, place).pc = place
  BY CallTypes DEF Step, CallType
<1>2. Idle \in CallType
  BY LimitType DEF Idle, CallType, Places
<1>3. ASSUME NEW time \in Nat
      PROVE  /\ Fresh(c, place, time) \in CallType
             /\ Fresh(c, place, time).pc = place
             /\ Fresh(c, place, time).window = 1
  <2>1. Idle.window = 1
    BY DEF Idle
  <2>2. QED
    BY <1>2, <2>1, CallTypes DEF Fresh, CallType
<1>4. QED
  BY <1>1, <1>3

LEMMA EndStep ==
    ASSUME RedisInv, NEW c \in Callers, End(c),
           UNCHANGED <<now, windows, grants, delays, lock, blocked>>, crashes' \in Nat,
           raced' \subseteq Callers
    PROVE  RedisInv'
<1>1. call' = [call EXCEPT ![c] = Idle] /\ Idle \in CallType /\ Idle.pc = "idle"
  BY LimitType DEF End, Idle, CallType, Places
<1>2. Idle.pc \notin InLock /\ blocked \in [until : Nat, expires : Nat]
  BY <1>1, StateTypes DEF InLock, Section, RedisInv
<1> HIDE DEF End
<1>3. QED
  BY <1>1, <1>2, OutsideStep

LEMMA AskStep ==
    ASSUME RedisInv, NEW c \in Callers, Ask(c)
    PROVE  RedisInv'
<1> DEFINE r == [Fresh(c, "locking", 0) EXCEPT !.reading = now]
<1>1. /\ call' = [call EXCEPT ![c] = r] /\ raced' = raced \ {c}
      /\ UNCHANGED <<now, redis, grants, delays, crashes>>
  BY DEF Ask
<1>2. TypeOK /\ now \in Nat /\ crashes \in Nat /\ raced \subseteq Callers
  BY StateTypes DEF RedisInv
<1>3. r \in CallType /\ r.pc = "locking" /\ r.reading = now /\ r.window = 1
  <2>1. "locking" \in Places /\ 0 \in Nat
    BY DEF Places
  <2>2. /\ Fresh(c, "locking", 0) \in CallType /\ Fresh(c, "locking", 0).pc = "locking"
        /\ Fresh(c, "locking", 0).window = 1
    BY <1>2, <2>1, StepTypes
  <2>3. QED
    BY <1>2, <2>2 DEF CallType
<1> HIDE DEF r
<1>4. call'[c] = r
  BY <1>1, <1>2, StateTypes
<1>5. CallInv(c)'
  <2>1. call'[c].pc = "locking" /\ call'[c].reading = now /\ call'[c].window = 1 /\ now' = now
    BY <1>1, <1>3, <1>4
  <2>2. "locking" \notin Section \cup {"refused", "paused"}
    BY DEF Section
  <2>3. QED
    BY <1>2, <2>1, <2>2 DEF CallInv
<1>6. /\ lock \in [holder : Callers \cup {Nobody}, expires : Nat]
      /\ blocked \in [until : Nat, expires : Nat]
  BY <1>2, StateTypes
<1>7. QED
  BY <1>1, <1>2, <1>3, <1>5, <1>6, CallerStep DEF redis

LEMMA LockStep ==
    ASSUME RedisInv, NEW c \in Callers, Lock(c)
    PROVE  RedisInv'
<1> DEFINE r == [call[c] EXCEPT !.pc = "scanning", !.since = now, !.until = call[c].reading]
<1>1. /\ call[c].pc = "locking" /\ lock.holder = Nobody
      /\ lock' = [holder |-> c, expires |-> now + LockTTL]
      /\ call' = [call EXCEPT ![c] = r]
      /\ UNCHANGED <<now, blocked, windows, history>>
  BY DEF Lock, Free
<1>2. TypeOK /\ now \in Nat /\ crashes \in Nat /\ raced \subseteq Callers
  BY StateTypes DEF RedisInv
<1>3. /\ r \in CallType /\ r.pc = "scanning" /\ r.since = now /\ r.window = call[c].window
      /\ r.reading = call[c].reading
  BY <1>2, CallTypes DEF CallType, Places, Section
<1>4. call[c].window = 1 /\ call[c].reading <= now
  BY <1>1 DEF RedisInv, CallInv, InLock
<1> HIDE DEF r
<1>5. call'[c] = r
  BY <1>1, <1>2, StateTypes
<1>6. lock'.holder = c /\ lock'.expires = now + LockTTL
  BY <1>1
<1>7. LockKept(c)'
  <2>1. call'[c].since = now /\ now' = now
    BY <1>1, <1>3, <1>5
  <2>2. QED
    BY <1>2, <1>6, <2>1 DEF LockKept, Holds
<1>8. ASSUME NEW i \in Windows PROVE RoomKept(c, i)'
  <2>1. ~(i < call[c].window)
    BY <1>4, LimitType
  <2>2. QED
    BY <1>3, <1>5, <2>1 DEF RoomKept, Checked, Written
<1>9. CallInv(c)'
  BY <1>1, <1>3, <1>4, <1>5, <1>7, <1>8 DEF CallInv
<1>10. /\ lock' \in [holder : Callers \cup {Nobody}, expires : Nat]
       /\ blocked \in [until : Nat, expires : Nat]
  BY <1>1, <1>2, StateTypes, LimitType
<1>11. QED
  BY <1>1, <1>2, <1>3, <1>6, <1>9, <1>10, CallerStep DEF history

LEMMA CheckBlockedStep ==
    ASSUME RedisInv, NEW c \in Callers, CheckBlocked(c)
    PROVE  RedisInv'
<1> DEFINE r == [Step(c, "refused") EXCEPT !.until = blocked.until]
<1>1. /\ call[c].pc = "scanning" /\ call' = [call EXCEPT ![c] = r]
      /\ blocked.until > call[c].reading
      /\ UNCHANGED <<now, redis, history>>
  BY DEF CheckBlocked
<1>2. /\ TypeOK /\ now \in Nat /\ crashes \in Nat /\ raced \subseteq Callers
      /\ blocked \in [until : Nat, expires : Nat]
      /\ lock \in [holder : Callers \cup {Nobody}, expires : Nat]
  BY StateTypes DEF RedisInv
<1>3. /\ r \in CallType /\ r.pc = "refused" /\ r.since = call[c].since
      /\ r.reading = call[c].reading /\ r.reading <= r.until
  <2>1. /\ Step(c, "refused") \in CallType /\ Step(c, "refused").pc = "refused"
        /\ Step(c, "refused").since = call[c].since
        /\ Step(c, "refused").reading = call[c].reading
    BY <1>2, StepTypes, CallTypes DEF Places, Section, Step, CallType
  <2>2. r \in CallType
    BY <1>2, <2>1 DEF CallType
  <2>3. /\ r.pc = "refused" /\ r.since = call[c].since /\ r.reading = call[c].reading
        /\ r.until = blocked.until
    BY <2>1 DEF CallType
  <2>4. QED
    BY <1>1, <1>2, <2>2, <2>3, CallTypes
<1> HIDE DEF r
<1>4. call'[c] = r
  BY <1>1, <1>2, StateTypes
<1>5. CallInv(c) /\ call[c].pc \in Section /\ call[c].pc \in InLock
  BY <1>1 DEF RedisInv, Section, InLock
<1>6. LockKept(c)'
  BY <1>1, <1>3, <1>4, <1>5 DEF CallInv, LockKept, Holds, redis
<1>7. \A i \in Windows : RoomKept(c, i)'
  BY <1>3, <1>4 DEF RoomKept, Checked, Written
<1>8. CallInv(c)'
  BY <1>1, <1>3, <1>4, <1>5, <1>6, <1>7 DEF CallInv
<1>9. QED
  BY <1>1, <1>2, <1>3, <1>8, CallerStep DEF history, redis

LEMMA ThrottledStep ==
    ASSUME RedisInv, NEW c \in Callers, NEW d \in RetryAfter, Throttled(c, d)
    PROVE  RedisInv'
<1> DEFINE r == [Step(c, "paused") EXCEPT !.reading = now, !.until = now + d,
                   !.seen = blocked.until, !.attempts = @ + 1]
<1>1. /\ call[c].attempts < MaxRetries /\ call' = [call EXCEPT ![c] = r]
      /\ UNCHANGED <<now, redis, history>>
  BY DEF Throttled
<1>2. /\ TypeOK /\ now \in Nat /\ crashes \in Nat /\ raced \subseteq Callers
      /\ blocked \in [until : Nat, expires : Nat] /\ d \in Nat
  BY StateTypes, LimitType DEF RedisInv
<1>3. r \in CallType /\ r.pc = "paused" /\ r.reading <= r.until
  <2>1. /\ Step(c, "paused") \in CallType /\ Step(c, "paused").pc = "paused"
        /\ Step(c, "paused").attempts = call[c].attempts
    BY <1>2, StepTypes, CallTypes DEF Places, Step, CallType
  <2>2. call[c].attempts + 1 \in 0 .. MaxRetries
    BY <1>1, <1>2, CallTypes, LimitType
  <2>3. r \in CallType
    <3> DEFINE s == Step(c, "paused")
    <3>1. s \in CallType /\ s.attempts + 1 \in 0 .. MaxRetries
      BY <2>1, <2>2
    <3>2. now + d \in Nat /\ blocked.until \in Nat
      BY <1>2
    <3> HIDE DEF s
    <3>3. [s EXCEPT !.reading = now, !.until = now + d, !.seen = blocked.until] \in CallType
      BY <1>2, <3>1, <3>2 DEF CallType
    <3>4. [s EXCEPT !.reading = now, !.until = now + d,
                    !.seen = blocked.until, !.attempts = @ + 1] \in CallType
      BY <3>1, <3>3, LimitType DEF CallType
    <3>5. QED
      BY <3>4 DEF s
  <2>4. r.pc = "paused" /\ r.reading = now /\ r.until = now + d
    BY <1>2, <2>1 DEF CallType
  <2>5. QED
    BY <1>2, <2>3, <2>4
<1> HIDE DEF r
<1>4. r.pc \notin InLock
  BY <1>3 DEF InLock, Section
<1>5. QED
  BY <1>1, <1>2, <1>3, <1>4, OutsideStep DEF history, redis

LEMMA SetPauseStep ==
    ASSUME RedisInv, NEW c \in Callers, SetPause(c)
    PROVE  RedisInv'
<1> DEFINE r == [Fresh(c, "throttled", now + Delay(c)) EXCEPT !.until = call[c].until]
<1>1. /\ call[c].pc = "paused" /\ Set(c) /\ call' = [call EXCEPT ![c] = r]
      /\ UNCHANGED <<now, lock, windows, grants, delays, crashes>>
  BY DEF SetPause
<1>2. /\ TypeOK /\ now \in Nat /\ crashes \in Nat /\ raced \subseteq Callers
      /\ blocked \in [until : Nat, expires : Nat]
  BY StateTypes DEF RedisInv
<1>3. call[c].reading \in Nat /\ call[c].until \in Nat /\ now + Delay(c) \in Nat
  <2>1. call[c].reading <= call[c].until
    BY <1>1 DEF RedisInv, CallInv
  <2>2. QED
    BY <1>2, <2>1, CallTypes DEF Delay
<1>4. blocked' \in [until : Nat, expires : Nat] /\ raced' \subseteq Callers
  BY <1>1, <1>2, <1>3 DEF Set, Overwritten
<1>5. r \in CallType /\ r.pc = "throttled"
  <2>1. /\ Fresh(c, "throttled", now + Delay(c)) \in CallType
        /\ Fresh(c, "throttled", now + Delay(c)).pc = "throttled"
    BY <1>2, <1>3, StepTypes DEF Places, Sleeping
  <2>2. QED
    BY <1>3, <2>1 DEF CallType
<1> HIDE DEF r
<1>6. r.pc \notin InLock
  BY <1>5 DEF InLock, Section
<1>7. QED
  BY <1>1, <1>2, <1>4, <1>5, <1>6, OutsideStep

-----------------------------------------------------------------------------
(* The steps in the windows.                                               *)

\* A step that changes sorted sets and loses no member that is in its window.
LEMMA WindowStep ==
    ASSUME RedisInv, NEW c \in Callers, NEW r \in CallType, call' = [call EXCEPT ![c] = r],
           UNCHANGED <<now, lock, blocked, history>>,
           windows' \in [Windows -> [members : SUBSET Members, expires : Nat]],
           \A i \in Windows : MembersKept(i)',
           \A i \in Windows : \A m \in windows[i].members :
               m.score + Limits[i].window > now => m \in windows'[i].members,
           CallInv(c)'
    PROVE  RedisInv'
<1>1. /\ UNCHANGED <<now, lock, blocked, grants, raced, delays, crashes>>
      /\ crashes \in Nat /\ raced \subseteq Callers
      /\ lock \in [holder : Callers \cup {Nobody}, expires : Nat]
      /\ blocked \in [until : Nat, expires : Nat]
      /\ grants \subseteq [reading : Nat, at : Nat, automatic : BOOLEAN]
  BY StateTypes DEF RedisInv, history
<1>2. TypeOK' /\ \A d \in Callers \ {c} : call'[d] = call[d]
  BY <1>1, TypeStep
<1>3. ASSUME NEW d \in Callers PROVE CallInv(d)'
  <2>1. CASE d = c
    BY <2>1
  <2>2. CASE d # c
    BY <1>1, <1>2, <2>2, OthersKeep
  <2>3. QED
    BY <2>1, <2>2
<1>4. GrantsPast'
  BY <1>1 DEF RedisInv, GrantsPast
<1>5. ASSUME NEW i \in Windows PROVE EntriesKept(i)'
  <2>1. LiveGrants(i)' = LiveGrants(i) /\ grants' = grants /\ EntriesKept(i)
    BY <1>1 DEF LiveGrants, RedisInv
  <2>2. \A g \in LiveGrants(i) : Entry(g).score + Limits[i].window > now
    BY DEF LiveGrants, Entry
  <2>3. \A g : Entry(g)' = Entry(g)
    BY DEF Entry
  <2>4. ASSUME NEW g \in LiveGrants(i) PROVE Entry(g) \in windows'[i].members
    BY <2>1, <2>2, <2>4 DEF EntriesKept
  <2>5. QED
    BY <2>1, <2>4 DEF EntriesKept, Entry
<1>6. QED
  BY <1>2, <1>3, <1>4, <1>5 DEF RedisInv

LEMMA ScanStep ==
    ASSUME RedisInv, NEW c \in Callers, Scan(c)
    PROVE  RedisInv'
<1> DEFINE i == call[c].window
           u == IF OpensAt(c, i) > call[c].until THEN OpensAt(c, i) ELSE call[c].until
           place == IF u > call[c].reading THEN "refused" ELSE "reserving"
           onward == [call[c] EXCEPT !.window = i + 1, !.until = u]
           done == [Step(c, place) EXCEPT !.window = 1, !.until = u]
           never == [call[c] EXCEPT !.pc = "hopeless"]
<1>1. /\ call[c].pc = "scanning" /\ windows' = [windows EXCEPT ![i].members = Pruned(c, i)]
      /\ UNCHANGED <<now, lock, blocked, history>>
      /\ \/ Hopeless(c, i) /\ call' = [call EXCEPT ![c] = never]
         \/ ~Hopeless(c, i) /\ i + 1 \in Windows /\ call' = [call EXCEPT ![c] = onward]
         \/ ~Hopeless(c, i) /\ i + 1 \notin Windows /\ call' = [call EXCEPT ![c] = done]
  BY DEF Scan
<1>2. /\ TypeOK /\ i \in Windows /\ now \in Nat /\ call[c].reading \in Nat /\ call[c].until \in Nat
      /\ Limits[i].window \in Nat
      /\ windows \in [Windows -> [members : SUBSET Members, expires : Nat]]
      /\ call \in [Callers -> CallType] /\ call[c] \in CallType
  BY StateTypes, CallTypes, LimitType DEF RedisInv
<1>3. /\ call[c].reading <= now /\ LockKept(c)
      /\ Holds(c) => \A k \in Windows : RoomKept(c, k)
  BY <1>1 DEF RedisInv, CallInv, InLock, Section
<1>4. Pruned(c, i) \subseteq windows[i].members
  BY DEF Pruned
<1> HIDE DEF i
<1>5. windows' \in [Windows -> [members : SUBSET Members, expires : Nat]]
  BY <1>1, <1>2, <1>4
<1>6. /\ windows'[i].members = Pruned(c, i) /\ windows'[i].expires = windows[i].expires
      /\ \A k \in Windows \ {i} : windows'[k] = windows[k]
  BY <1>1, <1>2
<1>7. ASSUME NEW k \in Windows PROVE MembersKept(k)'
  <2>1. windows'[k].members \in SUBSET windows[k].members /\ windows'[k].expires = windows[k].expires
    BY <1>4, <1>6
  <2>2. MembersKept(k) /\ now' = now
    BY <1>1 DEF RedisInv
  <2>3. IsFiniteSet(windows'[k].members)
    BY <2>1, <2>2, FS_Subset DEF MembersKept
  <2>4. QED
    BY <2>1, <2>2, <2>3 DEF MembersKept
<1>8. ASSUME NEW k \in Windows, NEW m \in windows[k].members, m.score + Limits[k].window > now
      PROVE  m \in windows'[k].members
  <2>1. CASE k = i
    <3>1. m.score \in Nat
      BY <1>2, MemberTypes
    <3>2. m.score + Limits[i].window > call[c].reading
      BY <1>2, <1>3, <1>8, <2>1, <3>1
    <3>3. QED
      BY <1>6, <1>8, <2>1, <3>2 DEF Pruned
  <2>2. CASE k # i
    BY <1>6, <1>8, <2>2
  <2>3. QED
    BY <2>1, <2>2
<1>9. \A k \in Windows : LiveGrants(k)' = LiveGrants(k)
  BY <1>1 DEF LiveGrants, history
<1>10. ASSUME ~Hopeless(c, i)
       PROVE  /\ u \in Nat /\ call[c].until <= u
              /\ u <= call[c].reading => Cardinality(LiveGrants(i)) < Limits[i].count
  <2>1. OpensAt(c, i) \in Nat /\ (Full(c, i) => OpensAt(c, i) > call[c].reading)
    BY <1>2, <1>10, OpensFacts
  <2>2. u \in Nat /\ call[c].until <= u /\ OpensAt(c, i) <= u
    BY <1>2, <2>1
  <2>3. u <= call[c].reading => ~Full(c, i)
    <3> HIDE DEF u
    <3>1. QED
      BY <1>2, <2>1, <2>2
  <2>4. QED
    BY <1>2, <1>3, <2>2, <2>3, RoomForGrant
<1> HIDE DEF u
<1>11. CASE Hopeless(c, i) /\ call' = [call EXCEPT ![c] = never]
  <2>1. never \in CallType /\ never.pc = "hopeless" /\ never.reading = call[c].reading
        /\ never.since = call[c].since
    BY <1>2 DEF CallType, Places, Section
  <2> HIDE DEF never
  <2>2. call'[c] = never
    BY <1>2, <1>11
  <2>3. LockKept(c)'
    BY <1>1, <1>3, <2>1, <2>2 DEF LockKept, Holds
  <2>4. \A k \in Windows : RoomKept(c, k)'
    BY <2>1, <2>2 DEF RoomKept, Checked, Written
  <2>5. CallInv(c)'
    BY <1>1, <1>3, <2>1, <2>2, <2>3, <2>4 DEF CallInv
  <2>6. QED
    BY <1>1, <1>5, <1>7, <1>8, <1>11, <2>1, <2>5, WindowStep
<1>12. CASE ~Hopeless(c, i) /\ i + 1 \in Windows /\ call' = [call EXCEPT ![c] = onward]
  <2>1. /\ onward \in CallType /\ onward.pc = "scanning" /\ onward.reading = call[c].reading
        /\ onward.since = call[c].since /\ onward.window = i + 1 /\ onward.until = u
    BY <1>1, <1>2, <1>10, <1>12 DEF CallType
  <2> HIDE DEF onward
  <2>2. call'[c] = onward
    BY <1>2, <1>12
  <2>3. LockKept(c)'
    BY <1>1, <1>3, <2>1, <2>2 DEF LockKept, Holds
  <2>4. ASSUME Holds(c), NEW k \in Windows PROVE RoomKept(c, k)'
    <3>1. ~Written(c, k)'
      BY <2>1, <2>2 DEF Written
    <3>2. ASSUME Checked(c, k)' PROVE Cardinality(LiveGrants(k)) < Limits[k].count
      <4>1. k < i + 1 /\ u <= call[c].reading
        BY <2>1, <2>2, <3>2 DEF Checked
      <4>2. CASE k = i
        BY <1>10, <1>12, <4>1, <4>2
      <4>3. CASE k # i
        <5>1. k < i /\ call[c].until <= call[c].reading
          BY <1>2, <1>10, <1>12, <4>1, <4>3, LimitType
        <5>2. Checked(c, k)
          BY <1>1, <5>1 DEF Checked, i
        <5>3. QED
          BY <1>3, <2>4, <5>2 DEF RoomKept
      <4>4. QED
        BY <4>2, <4>3
    <3>3. QED
      BY <1>9, <3>1, <3>2 DEF RoomKept
  <2>5. CallInv(c)'
    BY <1>1, <1>3, <2>1, <2>2, <2>3, <2>4 DEF CallInv, Holds
  <2>6. QED
    BY <1>1, <1>5, <1>7, <1>8, <1>12, <2>1, <2>5, WindowStep
<1>13. CASE ~Hopeless(c, i) /\ i + 1 \notin Windows /\ call' = [call EXCEPT ![c] = done]
  <2>1. /\ done \in CallType /\ done.pc = place /\ done.reading = call[c].reading
        /\ done.since = call[c].since /\ done.window = 1 /\ done.until = u
    <3>1. place \in Places
      BY DEF Places, Section
    <3>2. /\ Step(c, place) \in CallType /\ Step(c, place).pc = place
          /\ Step(c, place).reading = call[c].reading /\ Step(c, place).since = call[c].since
      BY <1>2, <3>1, StepTypes DEF Step, CallType
    <3> HIDE DEF place
    <3>3. QED
      BY <1>10, <1>13, <3>1, <3>2, LimitType DEF CallType
  <2> HIDE DEF done
  <2>2. call'[c] = done
    BY <1>2, <1>13
  <2>3. LockKept(c)'
    BY <1>1, <1>3, <2>1, <2>2 DEF LockKept, Holds
  <2>4. ASSUME Holds(c), NEW k \in Windows PROVE RoomKept(c, k)'
    <3>1. ~Written(c, k)'
      BY <2>1, <2>2, LimitType DEF Written
    <3>2. ASSUME Checked(c, k)' PROVE Cardinality(LiveGrants(k)) < Limits[k].count
      <4>1. u <= call[c].reading
        BY <1>2, <1>10, <1>13, <2>1, <2>2, <3>2 DEF Checked
      <4>2. CASE k = i
        BY <1>10, <1>13, <4>1, <4>2
      <4>3. CASE k # i
        <5>1. k < i /\ call[c].until <= call[c].reading
          BY <1>2, <1>10, <1>13, <4>1, <4>3, LimitType
        <5>2. Checked(c, k)
          BY <1>1, <5>1 DEF Checked, i
        <5>3. QED
          BY <1>3, <2>4, <5>2 DEF RoomKept
      <4>4. QED
        BY <4>2, <4>3
    <3>3. QED
      BY <1>9, <3>1, <3>2 DEF RoomKept
  <2>5. done.pc \in {"refused", "reserving"} /\ (done.pc = "refused" => call[c].reading <= u)
    BY <1>2, <1>10, <1>13, <2>1
  <2>6. CallInv(c)'
    BY <1>1, <1>3, <2>1, <2>2, <2>3, <2>4, <2>5 DEF CallInv, Holds
  <2>7. QED
    BY <1>1, <1>5, <1>7, <1>8, <1>13, <2>1, <2>6, WindowStep
<1>14. QED
  BY <1>1, <1>11, <1>12, <1>13

LEMMA ReserveStep ==
    ASSUME RedisInv, NEW c \in Callers, Reserve(c)
    PROVE  RedisInv'
<1> DEFINE i == call[c].window
           more == i + 1 \in Windows
           own == call[c].counts /\ Holds(c) /\ Member(c) \notin windows[i].members
           place == IF more THEN "reserving" ELSE "granted"
           next == IF more THEN i + 1 ELSE 1
           r == [Step(c, place) EXCEPT
                    !.window = next,
                    !.counts = @ /\ Holds(c) /\ Member(c) \notin windows[i].members]
           W == [members |-> windows[i].members \cup {Member(c)}, expires |-> now + Limits[i].window]
<1>1. /\ call[c].pc = "reserving" /\ windows' = [windows EXCEPT ![i] = W]
      /\ call' = [call EXCEPT ![c] = r]
      /\ UNCHANGED <<now, lock, blocked, history>>
  BY DEF Reserve
<1>2. /\ TypeOK /\ i \in Windows /\ now \in Nat /\ call[c].reading \in Nat
      /\ Limits[i].window \in Nat /\ Limits[i].count \in Nat
      /\ windows \in [Windows -> [members : SUBSET Members, expires : Nat]]
      /\ call \in [Callers -> CallType] /\ call[c] \in CallType /\ call[c].counts \in BOOLEAN
  BY StateTypes, CallTypes, LimitType DEF RedisInv
<1>3. /\ call[c].reading <= now /\ LockKept(c)
      /\ Holds(c) => \A k \in Windows : RoomKept(c, k)
  BY <1>1 DEF RedisInv, CallInv, InLock, Section
<1>4. Member(c) \in Members /\ Member(c).score = call[c].reading
  BY <1>2 DEF Member, Members
<1>5. W \in [members : SUBSET Members, expires : Nat]
  BY <1>2, <1>4
<1>6. next \in Windows /\ place \in Places
  BY <1>2, LimitType DEF Places, Section
<1>7. /\ r \in CallType /\ r.pc = place /\ r.window = next /\ r.counts = own
      /\ r.reading = call[c].reading /\ r.since = call[c].since
  <2>1. /\ Step(c, place) \in CallType /\ Step(c, place).pc = place
        /\ Step(c, place).reading = call[c].reading /\ Step(c, place).since = call[c].since
        /\ Step(c, place).counts = call[c].counts
    BY <1>2, <1>6, StepTypes DEF Step, CallType
  <2>2. own \in BOOLEAN
    OBVIOUS
  <2> HIDE DEF place, next
  <2>3. QED
    BY <1>6, <2>1, <2>2 DEF CallType
<1> HIDE DEF r
<1>8. call'[c] = r
  BY <1>1, <1>2
<1>9. /\ windows' \in [Windows -> [members : SUBSET Members, expires : Nat]]
      /\ windows'[i] = W /\ \A k \in Windows \ {i} : windows'[k] = windows[k]
  <2> HIDE DEF i, W
  <2>1. QED
    BY <1>1, <1>2, <1>5
<1>10. W.members = windows[i].members \cup {Member(c)} /\ W.expires = now + Limits[i].window
  OBVIOUS
<1>11. ASSUME NEW k \in Windows PROVE MembersKept(k)'
  <2>1. MembersKept(k) /\ now' = now
    BY <1>1 DEF RedisInv
  <2>2. CASE k # i
    BY <1>9, <2>1, <2>2 DEF MembersKept
  <2>3. CASE k = i
    <3>1. IsFiniteSet(windows'[i].members)
      BY <1>9, <1>10, <2>1, <2>3, FS_AddElement DEF MembersKept
    <3>2. ASSUME NEW m \in windows'[i].members
          PROVE  m.score <= now /\ m.score + Limits[i].window <= windows'[i].expires
      <4>1. m \in windows[i].members \/ m = Member(c)
        BY <1>9, <1>10
      <4>2. m.score \in Nat /\ m.score <= now
        BY <1>2, <1>3, <1>4, <2>1, <2>3, <4>1, MemberTypes DEF MembersKept
      <4>3. QED
        BY <1>2, <1>9, <1>10, <4>2
    <3>3. QED
      BY <2>1, <2>3, <3>1, <3>2 DEF MembersKept
  <2>4. QED
    BY <2>2, <2>3
<1>12. \A k \in Windows : windows[k].members \subseteq windows'[k].members
  BY <1>9, <1>10
<1>13. \A k \in Windows : LiveGrants(k)' = LiveGrants(k)
  BY <1>1 DEF LiveGrants, history
<1>14. Member(c)' = Member(c)
  BY <1>7, <1>8 DEF Member
<1> HIDE DEF W
<1>15. ASSUME Holds(c), NEW k \in Windows PROVE RoomKept(c, k)'
  <2>1. RoomKept(c, k) /\ Checked(c, k)
    BY <1>1, <1>3, <1>15 DEF Checked
  <2>2. ASSUME Written(c, k)', call'[c].counts
        PROVE  /\ call[c].reading + Limits[k].window > now => Member(c) \in windows'[k].members
               /\ \A g \in LiveGrants(k) : Entry(g) # Member(c)
    <3>1. own
      BY <1>7, <1>8, <2>2
    <3>2. CASE k = i
      <4>1. EntriesKept(i)
        BY <1>2 DEF RedisInv
      <4>2. QED
        BY <1>9, <1>10, <3>1, <3>2, <4>1 DEF EntriesKept
    <3>3. CASE k # i
      <4>1. k < i
        BY <1>2, <1>6, <1>7, <1>8, <2>2, <3>3, LimitType DEF Written
      <4>2. Written(c, k) /\ call[c].counts
        BY <1>1, <3>1, <4>1 DEF Written
      <4>3. QED
        BY <1>12, <2>1, <4>2 DEF RoomKept
    <3>4. QED
      BY <3>2, <3>3
  <2>3. Cardinality(LiveGrants(k)) < Limits[k].count
    BY <2>1 DEF RoomKept
  <2>4. \A g : Entry(g)' = Entry(g)
    BY DEF Entry
  <2>5. call'[c].reading = call[c].reading /\ now' = now
    BY <1>1, <1>7, <1>8
  <2>6. QED
    BY <1>13, <1>14, <2>2, <2>3, <2>5 DEF RoomKept, Entry
<1>16. LockKept(c)'
  BY <1>1, <1>3, <1>7, <1>8 DEF LockKept, Holds
<1>17. CallInv(c)'
  <2>1. call'[c].pc \in {"reserving", "granted"} /\ call'[c].reading <= now'
    BY <1>1, <1>3, <1>7, <1>8
  <2>2. QED
    BY <1>1, <1>15, <1>16, <2>1 DEF CallInv, Holds
<1>18. QED
  BY <1>1, <1>7, <1>9, <1>11, <1>12, <1>17, WindowStep

\* The grants of a release: the new one is a member of its own, and it found
\* room in every window when nobody else could be granted anything.
LEMMA ReleaseGrants ==
    ASSUME RedisInv, WithinLimits, NEW c \in Callers, Holds(c),
           call[c].pc = "granted", call[c].counts, UNCHANGED <<now, windows>>,
           grants' = grants \cup {[reading |-> call[c].reading, at |-> now,
                                   automatic |-> c \in Automatic]}
    PROVE  /\ GrantsPast'
           /\ grants' \subseteq [reading : Nat, at : Nat, automatic : BOOLEAN]
           /\ \A i \in Windows : EntriesKept(i)'
           /\ WithinLimits'
<1> DEFINE new == [reading |-> call[c].reading, at |-> now, automatic |-> c \in Automatic]
<1>1. /\ TypeOK /\ now \in Nat /\ call[c].reading \in Nat
      /\ grants \subseteq [reading : Nat, at : Nat, automatic : BOOLEAN]
      /\ GrantsPast /\ call[c].reading <= now
      /\ \A i \in Windows : RoomKept(c, i) /\ Checked(c, i) /\ Written(c, i) /\ EntriesKept(i)
  BY StateTypes, CallTypes DEF RedisInv, CallInv, Section, InLock, Checked, Written
<1>2. /\ new \in [reading : Nat, at : Nat, automatic : BOOLEAN]
      /\ new.reading = call[c].reading /\ new.at = now /\ Entry(new) = Member(c)
  BY <1>1 DEF Entry, Member
<1> HIDE DEF new
<1>3. grants' = grants \cup {new}
  BY DEF new
<1>4. GrantsPast'
  BY <1>1, <1>2, <1>3, FS_AddElement DEF GrantsPast
<1>5. ASSUME NEW i \in Windows PROVE EntriesKept(i)'
  <2>1. /\ new.reading + Limits[i].window > now => Member(c) \in windows[i].members
        /\ \A g \in LiveGrants(i) : Entry(g) # Member(c)
    BY <1>1, <1>2 DEF RoomKept
  <2>2. \A g, h : Entry(g) = Entry(h) => g.reading = h.reading
    BY DEF Entry
  <2>3. LiveGrants(i)' = {g \in grants \cup {new} : g.reading + Limits[i].window > now}
    BY <1>3 DEF LiveGrants
  <2>4. \A g : Entry(g)' = Entry(g)
    BY DEF Entry
  <2>5. ASSUME NEW g \in LiveGrants(i)'
        PROVE  /\ Entry(g) \in windows[i].members
               /\ \A h \in grants \cup {new} : Entry(g) = Entry(h) => g = h
    <3>1. CASE g = new
      <4>1. \A h \in grants : Entry(h) # Entry(new)
        BY <1>2, <2>1, <2>2, <2>3, <3>1 DEF LiveGrants
      <4>2. QED
        BY <1>2, <2>1, <2>3, <3>1, <4>1
    <3>2. CASE g # new
      <4>1. g \in LiveGrants(i)
        BY <2>3, <3>2 DEF LiveGrants
      <4>2. QED
        BY <1>1, <1>2, <2>1, <4>1 DEF EntriesKept
    <3>3. QED
      BY <3>1, <3>2
  <2>6. QED
    BY <1>3, <2>5 DEF EntriesKept, Entry
<1>6. ASSUME NEW i \in Windows, NEW g \in grants'
      PROVE  Cardinality({h \in grants' : h.reading + Limits[i].window > g.at /\ h.at <= g.at})
                 <= Limits[i].count
  <2> DEFINE L == LiveGrants(i)
             S == {h \in grants' : h.reading + Limits[i].window > g.at /\ h.at <= g.at}
  <2>1. IsFiniteSet(L) /\ Cardinality(L) \in Nat /\ Cardinality(L) < Limits[i].count
    <3>1. L \in SUBSET grants
      BY DEF LiveGrants
    <3>2. IsFiniteSet(L)
      BY <1>1, <3>1, FS_Subset DEF GrantsPast
    <3> HIDE DEF L
    <3>3. Cardinality(L) \in Nat
      BY <3>2, FS_CardinalityType
    <3>4. QED
      BY <1>1, <3>2, <3>3 DEF RoomKept, L
  <2>2. CASE g.at = now
    <3>1. S \in SUBSET (L \cup {new})
      BY <1>3, <2>2 DEF LiveGrants
    <3> HIDE DEF L, S
    <3>2. IsFiniteSet(L \cup {new}) /\ Cardinality(L \cup {new}) <= Cardinality(L) + 1
      <4>1. /\ IsFiniteSet(L \cup {new})
            /\ \/ Cardinality(L \cup {new}) = Cardinality(L)
               \/ Cardinality(L \cup {new}) = Cardinality(L) + 1
        BY <2>1, FS_AddElement, Zenon
      <4>2. QED
        BY <2>1, <4>1
    <3>3. Cardinality(S) <= Cardinality(L \cup {new})
      BY <3>1, <3>2, FS_Subset
    <3>4. IsFiniteSet(S)
      BY <3>1, <3>2, FS_Subset
    <3>5. Cardinality(S) \in Nat /\ Cardinality(L \cup {new}) \in Nat
      BY <3>2, <3>4, FS_CardinalityType
    <3>6. QED
      BY <2>1, <3>2, <3>3, <3>5, LimitType DEF S
  <2>3. CASE g.at # now
    <3>1. g \in grants /\ g.at \in Nat /\ g.at <= now
      BY <1>1, <1>2, <1>3, <2>3 DEF GrantsPast
    <3>2. S = {h \in grants : h.reading + Limits[i].window > g.at /\ h.at <= g.at}
      BY <1>1, <1>2, <1>3, <2>3, <3>1
    <3>3. QED
      BY <3>1, <3>2 DEF WithinLimits
  <2>4. QED
    BY <2>2, <2>3
<1>7. grants' \subseteq [reading : Nat, at : Nat, automatic : BOOLEAN]
  BY <1>1, <1>2, <1>3
<1>8. QED
  BY <1>4, <1>5, <1>6, <1>7 DEF WithinLimits

LEMMA ReleaseStep ==
    ASSUME RedisInv, WithinLimits, NEW c \in Callers, Release(c)
    PROVE  RedisInv' /\ WithinLimits'
<1> DEFINE r == AfterSection(c)
           new == [reading |-> call[c].reading, at |-> now, automatic |-> c \in Automatic]
<1>1. /\ Holds(c) /\ lock' = NoLock /\ call' = [call EXCEPT ![c] = r]
      /\ UNCHANGED <<now, blocked, windows, raced, delays, crashes>>
      /\ \/ grants' = grants
         \/ call[c].pc = "granted" /\ call[c].counts /\ grants' = grants \cup {new}
      /\ call[c].pc \in {"granted", "refused", "hopeless"}
  BY DEF Release, Releasing
<1>2. /\ TypeOK /\ now \in Nat /\ crashes \in Nat /\ raced \subseteq Callers
      /\ blocked \in [until : Nat, expires : Nat]
      /\ windows \in [Windows -> [members : SUBSET Members, expires : Nat]]
      /\ grants \subseteq [reading : Nat, at : Nat, automatic : BOOLEAN]
  BY StateTypes DEF RedisInv
<1>3. r \in CallType /\ r.pc \in {"sent", "waiting", "idle"}
  <2>1. Idle \in CallType /\ Idle.pc = "idle"
    BY LimitType DEF Idle, CallType, Places
  <2>2. CASE call[c].pc = "granted"
    BY <1>2, <2>2, StepTypes DEF AfterSection, Places
  <2>3. CASE call[c].pc = "refused"
    <3>1. call[c].reading <= call[c].until
      BY <2>3 DEF RedisInv, CallInv
    <3>2. now + Delay(c) \in Nat
      BY <1>2, <3>1, CallTypes DEF Delay
    <3>3. QED
      BY <1>2, <2>3, <3>2, StepTypes DEF AfterSection, Places, Sleeping
  <2>4. CASE call[c].pc = "hopeless"
    BY <2>1, <2>4 DEF AfterSection
  <2>5. QED
    BY <1>1, <2>2, <2>3, <2>4
<1> HIDE DEF r
<1>4. /\ GrantsPast' /\ WithinLimits'
      /\ grants' \subseteq [reading : Nat, at : Nat, automatic : BOOLEAN]
      /\ \A i \in Windows : EntriesKept(i)'
  <2>1. CASE grants' = grants
    BY <1>1, <1>2, <2>1, TablesKeep DEF WithinLimits
  <2>2. CASE call[c].pc = "granted" /\ call[c].counts /\ grants' = grants \cup {new}
    BY <1>1, <2>2, ReleaseGrants
  <2>3. QED
    BY <1>1, <2>1, <2>2
<1>5. \A i \in Windows : MembersKept(i)'
  BY <1>1 DEF RedisInv, MembersKept
<1>6. lock' \in [holder : Callers \cup {Nobody}, expires : Nat] /\ lock'.holder = Nobody
  BY <1>1 DEF NoLock
<1>7. TypeOK' /\ call'[c] = r /\ \A d \in Callers \ {c} : call'[d] = call[d]
  BY <1>1, <1>2, <1>3, <1>4, <1>6, TypeStep
<1>8. ASSUME NEW d \in Callers PROVE CallInv(d)'
  <2>1. CASE d = c
    BY <1>3, <1>7, <2>1 DEF CallInv, InLock, Section
  <2>2. CASE d # c
    <3>1. ~Holds(d) /\ lock'.holder # d
      BY <1>1, <1>6, <2>2, LimitType DEF Holds
    <3>2. QED
      BY <1>1, <1>7, <2>2, <3>1, OthersKeep
  <2>3. QED
    BY <2>1, <2>2
<1>9. QED
  BY <1>4, <1>5, <1>7, <1>8 DEF RedisInv

LEMMA TickStep ==
    ASSUME RedisInv, WithinLimits, Tick
    PROVE  RedisInv' /\ WithinLimits'
<1>1. /\ now' = now + 1 /\ Expire /\ UNCHANGED <<call, raced, crashes>>
      /\ grants' = {g \in grants : \E i \in Windows : g.reading + Limits[i].window > now'}
      /\ delays' \in {delays, delays + 1}
  BY DEF Tick
<1>2. /\ TypeOK /\ GrantsPast /\ {now, delays, crashes} \subseteq Nat
      /\ lock \in [holder : Callers \cup {Nobody}, expires : Nat]
      /\ blocked \in [until : Nat, expires : Nat]
      /\ windows \in [Windows -> [members : SUBSET Members, expires : Nat]]
      /\ call \in [Callers -> CallType]
      /\ grants \subseteq [reading : Nat, at : Nat, automatic : BOOLEAN]
      /\ raced \subseteq Callers
  BY StateTypes DEF RedisInv
<1>3. grants' \in SUBSET grants
  BY <1>1
<1>4. IsFiniteSet(grants) /\ IsFiniteSet(grants')
  BY <1>2, <1>3, FS_Subset DEF GrantsPast
<1>5. lock' \in {lock, NoLock} /\ (lock' # lock => lock.expires <= now')
  BY <1>1 DEF Expire
<1>6. /\ windows' \in [Windows -> [members : SUBSET Members, expires : Nat]]
      /\ \A i \in Windows : \/ windows'[i] = windows[i]
                            \/ windows'[i] = NoMembers /\ windows[i].expires <= now'
  <2>1. NoMembers \in [members : SUBSET Members, expires : Nat]
    BY DEF NoMembers
  <2>2. windows' = [i \in Windows |-> IF windows[i].expires <= now' THEN NoMembers ELSE windows[i]]
    BY <1>1 DEF Expire
  <2> HIDE DEF NoMembers
  <2>3. QED
    BY <1>2, <2>1, <2>2
<1>7. TypeOK'
  <2>1. lock' \in [holder : Callers \cup {Nobody}, expires : Nat]
    BY <1>2, <1>5 DEF NoLock
  <2>2. blocked' \in [until : Nat, expires : Nat]
    BY <1>1, <1>2 DEF Expire, NoPause
  <2>3. {now', delays', crashes'} \subseteq Nat
    BY <1>1, <1>2
  <2>4. QED
    BY <1>1, <1>2, <1>3, <1>6, <2>1, <2>2, <2>3 DEF TypeOK, CallType
<1>8. GrantsPast'
  <2>1. \A g \in grants' : g.reading <= g.at /\ g.at <= now /\ g.at \in Nat
    BY <1>2, <1>3 DEF GrantsPast
  <2>2. QED
    BY <1>1, <1>2, <1>4, <2>1 DEF GrantsPast
<1>9. ASSUME NEW i \in Windows
      PROVE  /\ LiveGrants(i)' \in SUBSET LiveGrants(i)
             /\ IsFiniteSet(LiveGrants(i)) /\ LiveGrants(i) \subseteq grants
  <2>1. LiveGrants(i) \in SUBSET grants
    BY DEF LiveGrants
  <2>2. IsFiniteSet(LiveGrants(i))
    BY <1>4, <2>1, FS_Subset
  <2>3. ASSUME NEW g \in LiveGrants(i)' PROVE g \in LiveGrants(i)
    <3>1. g \in grants' /\ g.reading + Limits[i].window > now + 1
      BY <1>1, <2>3 DEF LiveGrants
    <3>2. g \in grants /\ g.reading \in Nat
      BY <1>2, <1>3, <3>1
    <3>3. QED
      BY <1>2, <3>1, <3>2, LimitType DEF LiveGrants
  <2>4. QED
    BY <2>1, <2>2, <2>3
<1>10. ASSUME NEW i \in Windows, NEW m \in windows[i].members,
              m.score + Limits[i].window > now'
       PROVE  m \in windows'[i].members
  <2>1. MembersKept(i) /\ m.score \in Nat /\ windows[i].expires \in Nat
    BY <1>2, MemberTypes DEF RedisInv
  <2>2. ~(windows[i].expires <= now')
    BY <1>1, <1>2, <1>10, <2>1, LimitType DEF MembersKept
  <2>3. QED
    BY <1>6, <1>10, <2>2
<1>11. ASSUME NEW i \in Windows PROVE MembersKept(i)'
  <2>1. MembersKept(i)
    BY DEF RedisInv
  <2>2. CASE windows'[i] = windows[i]
    <3>1. \A m \in windows[i].members : m.score \in Nat /\ m.score <= now + 1
      BY <1>2, <2>1, MemberTypes DEF MembersKept
    <3>2. QED
      BY <1>1, <2>1, <2>2, <3>1 DEF MembersKept
  <2>3. CASE windows'[i] = NoMembers
    BY <2>3, FS_EmptySet DEF MembersKept, NoMembers
  <2>4. QED
    BY <1>6, <2>2, <2>3
<1>12. ASSUME NEW i \in Windows PROVE EntriesKept(i)'
  <2>1. EntriesKept(i) /\ \A g : Entry(g)' = Entry(g)
    BY DEF RedisInv, Entry
  <2>2. ASSUME NEW g \in LiveGrants(i)' PROVE Entry(g) \in windows'[i].members
    <3>1. g.reading + Limits[i].window > now' /\ Entry(g).score = g.reading
      BY <2>2 DEF LiveGrants, Entry
    <3>2. Entry(g) \in windows[i].members
      BY <1>9, <2>1, <2>2 DEF EntriesKept
    <3>3. QED
      BY <1>10, <3>1, <3>2
  <2>3. ASSUME NEW g \in LiveGrants(i)', NEW h \in grants', Entry(g) = Entry(h) PROVE g = h
    BY <1>3, <1>9, <2>1, <2>3 DEF EntriesKept
  <2>4. QED
    BY <2>2, <2>3 DEF EntriesKept, Entry
<1>13. ASSUME NEW c \in Callers PROVE CallInv(c)'
  <2>1. /\ CallInv(c) /\ call'[c] = call[c] /\ call[c].reading \in Nat /\ call[c].since \in Nat
    BY <1>1, <1>2, CallTypes DEF RedisInv
  <2>2. ASSUME call[c].pc \in Section PROVE LockKept(c)'
    <3>1. LockKept(c)
      BY <2>1, <2>2 DEF CallInv
    <3>2. CASE lock' = lock
      BY <1>1, <1>2, <2>1, <3>1, <3>2, LimitType DEF LockKept, Holds
    <3>3. CASE lock' # lock
      <4>1. lock'.holder # c /\ lock.expires <= now' /\ lock.expires \in Nat
        BY <1>2, <1>5, <3>3, LimitType DEF NoLock
      <4>2. now' >= call[c].since + LockTTL
        BY <1>1, <1>2, <2>1, <3>1, <4>1, LimitType DEF LockKept
      <4>3. call[c].since <= now'
        BY <1>1, <1>2, <2>1, <3>1 DEF LockKept
      <4>4. QED
        BY <2>1, <4>1, <4>2, <4>3 DEF LockKept, Holds
    <3>4. QED
      BY <3>2, <3>3
  <2>3. ASSUME call[c].pc \in Section, Holds(c)', NEW i \in Windows PROVE RoomKept(c, i)'
    <3>1. Holds(c)
      BY <1>5, <2>3, LimitType DEF Holds, NoLock
    <3>2. RoomKept(c, i) /\ (Checked(c, i)' <=> Checked(c, i)) /\ (Written(c, i)' <=> Written(c, i))
      BY <2>1, <2>3, <3>1 DEF CallInv, Checked, Written
    <3>3. ASSUME Checked(c, i) PROVE Cardinality(LiveGrants(i)') < Limits[i].count
      <4>1. IsFiniteSet(LiveGrants(i)') /\ Cardinality(LiveGrants(i)') <= Cardinality(LiveGrants(i))
        BY <1>9, FS_Subset
      <4>2. Cardinality(LiveGrants(i)) < Limits[i].count
        BY <3>2, <3>3 DEF RoomKept
      <4>3. Cardinality(LiveGrants(i)) \in Nat /\ Cardinality(LiveGrants(i)') \in Nat
        BY <1>9, <4>1, FS_CardinalityType
      <4>4. QED
        BY <4>1, <4>2, <4>3, LimitType
    <3>4. ASSUME Written(c, i), call[c].counts, call[c].reading + Limits[i].window > now'
          PROVE  Member(c) \in windows'[i].members
      <4>1. call[c].reading + Limits[i].window > now /\ Member(c).score = call[c].reading
        BY <1>1, <1>2, <2>1, <3>4, LimitType DEF Member
      <4>2. Member(c) \in windows[i].members
        BY <3>2, <3>4, <4>1 DEF RoomKept
      <4>3. QED
        BY <1>10, <3>4, <4>1, <4>2
    <3>5. ASSUME Written(c, i), call[c].counts, NEW g \in LiveGrants(i)'
          PROVE  Entry(g) # Member(c)
      BY <1>9, <3>2, <3>5 DEF RoomKept
    <3>6. Member(c)' = Member(c) /\ \A g : Entry(g)' = Entry(g)
      BY <2>1 DEF Member, Entry
    <3>7. QED
      BY <2>1, <3>2, <3>3, <3>4, <3>5, <3>6 DEF RoomKept, Entry
  <2>4. call[c].reading <= now => call[c].reading <= now'
    BY <1>1, <1>2, <2>1
  <2>5. QED
    BY <2>1, <2>2, <2>3, <2>4 DEF CallInv
<1>14. WithinLimits'
  <2> SUFFICES ASSUME NEW i \in Windows, NEW g \in grants'
               PROVE  Cardinality({h \in grants' : h.reading + Limits[i].window > g.at
                                                   /\ h.at <= g.at}) <= Limits[i].count
    BY DEF WithinLimits
  <2> DEFINE S == {h \in grants : h.reading + Limits[i].window > g.at /\ h.at <= g.at}
             T == {h \in grants' : h.reading + Limits[i].window > g.at /\ h.at <= g.at}
  <2>1. T \in SUBSET S /\ S \in SUBSET grants
    BY <1>3
  <2>2. Cardinality(S) <= Limits[i].count
    BY <1>3 DEF WithinLimits
  <2> HIDE DEF S, T
  <2>3. IsFiniteSet(S)
    BY <1>4, <2>1, FS_Subset
  <2>4. IsFiniteSet(T) /\ Cardinality(T) <= Cardinality(S)
    BY <2>1, <2>3, FS_Subset
  <2>5. Cardinality(S) \in Nat /\ Cardinality(T) \in Nat
    BY <2>3, <2>4, FS_CardinalityType
  <2>6. QED
    BY <2>2, <2>4, <2>5, LimitType DEF T
<1>15. QED
  BY <1>7, <1>8, <1>11, <1>12, <1>13, <1>14 DEF RedisInv

-----------------------------------------------------------------------------
(* The invariant and what follows from it.                                 *)

LEMMA InvStep == RedisInv /\ WithinLimits /\ [Next]_vars => RedisInv' /\ WithinLimits'
<1> SUFFICES ASSUME RedisInv, WithinLimits, [Next]_vars
             PROVE  RedisInv' /\ WithinLimits'
  OBVIOUS
<1>1. /\ {delays, crashes} \subseteq Nat /\ crashes + 1 \in Nat /\ raced \subseteq Callers
  BY StateTypes DEF RedisInv
<1>2. ASSUME grants' = grants PROVE WithinLimits'
  BY <1>2 DEF WithinLimits
<1>3. CASE Tick
  BY <1>3, TickStep
<1>4. ASSUME NEW c \in Callers, Advance(c) PROVE RedisInv' /\ WithinLimits'
  <2>1. CASE Ask(c)
    <3>1. grants' = grants
      BY <2>1 DEF Ask
    <3>2. QED
      BY <1>2, <2>1, <3>1, AskStep
  <2>2. CASE Lock(c)
    <3>1. grants' = grants
      BY <2>2 DEF Lock, history
    <3>2. QED
      BY <1>2, <2>2, <3>1, LockStep
  <2>3. CASE CheckBlocked(c)
    <3>1. grants' = grants
      BY <2>3 DEF CheckBlocked, history
    <3>2. QED
      BY <1>2, <2>3, <3>1, CheckBlockedStep
  <2>4. CASE Scan(c)
    <3>1. grants' = grants
      BY <2>4 DEF Scan, history
    <3>2. QED
      BY <1>2, <2>4, <3>1, ScanStep
  <2>5. CASE Reserve(c)
    <3>1. grants' = grants
      BY <2>5 DEF Reserve, history
    <3>2. QED
      BY <1>2, <2>5, <3>1, ReserveStep
  <2>6. CASE Release(c)
    BY <2>6, ReleaseStep
  <2>7. CASE ReleaseLost(c) \/ Answer(c) \/ Exceeded(c)
    <3>1. End(c) /\ UNCHANGED <<now, redis, history>>
      BY <2>7 DEF ReleaseLost, Answer, Exceeded
    <3>2. UNCHANGED <<now, windows, grants, delays, lock, blocked, crashes, raced>>
      BY <3>1 DEF redis, history
    <3>3. RedisInv'
      BY <1>1, <3>1, <3>2, EndStep
    <3>4. QED
      BY <1>2, <3>2, <3>3
  <2>8. ASSUME NEW d \in RetryAfter, Throttled(c, d) PROVE RedisInv' /\ WithinLimits'
    <3>1. grants' = grants
      BY <2>8 DEF Throttled, history
    <3>2. QED
      BY <1>2, <2>8, <3>1, ThrottledStep
  <2>9. CASE SetPause(c)
    <3>1. grants' = grants
      BY <2>9 DEF SetPause
    <3>2. QED
      BY <1>2, <2>9, <3>1, SetPauseStep
  <2>10. QED
    BY <1>4, <2>1, <2>2, <2>3, <2>4, <2>5, <2>6, <2>7, <2>8, <2>9 DEF Advance, Locked, Answered
<1>5. ASSUME NEW c \in Callers, Crash(c) PROVE RedisInv' /\ WithinLimits'
  <2>1. /\ End(c) /\ raced' = raced \ {c} /\ crashes' = crashes + 1
        /\ UNCHANGED <<now, windows, grants, delays, lock, blocked>>
    BY <1>5 DEF Crash, redis
  <2>2. raced' \subseteq Callers /\ crashes' \in Nat
    BY <1>1, <2>1
  <2>3. RedisInv'
    BY <2>1, <2>2, EndStep
  <2>4. QED
    BY <1>2, <2>1, <2>3
<1>6. CASE UNCHANGED vars
  <2>1. UNCHANGED <<now, lock, blocked, windows, call, grants, raced, delays, crashes>>
    BY <1>6 DEF vars
  <2>2. TypeOK'
    BY <2>1 DEF TypeOK, RedisInv
  <2>3. ASSUME NEW c \in Callers PROVE CallInv(c)'
    BY <2>1, OthersKeep
  <2>4. QED
    BY <1>2, <2>1, <2>2, <2>3, TablesKeep DEF RedisInv
<1>7. QED
  BY <1>3, <1>4, <1>5, <1>6 DEF Next

LEMMA InvAlways == Spec => [](RedisInv /\ WithinLimits)
<1>1. Init => WithinLimits
  BY DEF Init, WithinLimits
<1>2. QED
  BY <1>1, InvInit, InvStep, PTL DEF Spec

\* Types of the state, for any number of callers and limits.
THEOREM RedisTypes == Spec => []TypeOK
<1>1. RedisInv => TypeOK
  BY DEF RedisInv
<1>2. QED
  BY <1>1, InvAlways, PTL

\* From the reading of a grant to a later grant there is room for at most
\* count of them in the window of a limit, in all processes together,
\* whatever order they were given the lock in and whoever died or lost it.
THEOREM SharedBudget == Spec => []WithinLimits
BY InvAlways, PTL

\* Two processes are in the section of _reserve_or_delay only when the lock of
\* one of them has expired.
THEOREM OneInSection == Spec => []SectionExclusive
<1>1. RedisInv => SectionExclusive
  <2> SUFFICES ASSUME RedisInv, NEW c \in Callers, NEW d \in Callers, c # d,
                      call[c].pc \in Section, call[d].pc \in Section
               PROVE  \E e \in {c, d} : now >= call[e].since + LockTTL
    BY DEF SectionExclusive
  <2>1. LockKept(c) /\ LockKept(d)
    BY DEF RedisInv, CallInv
  <2>2. ~Holds(c) \/ ~Holds(d)
    BY DEF Holds
  <2>3. QED
    BY <2>1, <2>2 DEF LockKept
<1>2. QED
  BY <1>1, InvAlways, PTL

-----------------------------------------------------------------------------
(* The pause of a 429.                                                     *)

\* A caller whose pause nobody overwrote finds it, or a longer one, stored
\* until it is over; the stored pause lives as long as it lasts.
Stored(c) ==
    c \notin raced /\ Relies(c) /\ now < call[c].until => call[c].until <= blocked.until

PauseInv ==
    /\ blocked.until <= blocked.expires
    /\ \A c \in Callers : call[c].pc = "paused" => call[c].reading <= now
    /\ \A c \in Callers : Stored(c)

\* A step of c after which it neither stores a pause nor relies on one.
LEMMA PauseAside ==
    ASSUME PauseInv, NEW c \in Callers,
           \A d \in Callers \ {c} : call'[d] = call[d],
           call'[c].pc \notin {"paused", "throttled"},
           now' = now, blocked' = blocked, raced \ {c} \subseteq raced'
    PROVE  PauseInv'
<1>1. ~Relies(c)'
  BY DEF Relies
<1>2. \A d \in Callers \ {c} : Relies(d)' <=> Relies(d)
  BY DEF Relies
<1>3. QED
  BY <1>1, <1>2 DEF PauseInv, Stored

LEMMA ThrottledKeepsPause ==
    ASSUME RedisInv, PauseInv, NEW c \in Callers, NEW d \in RetryAfter, Throttled(c, d)
    PROVE  PauseInv'
<1> DEFINE r == [Step(c, "paused") EXCEPT !.reading = now, !.until = now + d,
                   !.seen = blocked.until, !.attempts = @ + 1]
<1>1. call' = [call EXCEPT ![c] = r] /\ UNCHANGED <<now, blocked, raced>>
  BY DEF Throttled, redis, history
<1>2. TypeOK /\ now \in Nat /\ call \in [Callers -> CallType]
  BY StateTypes DEF RedisInv
<1>3. r.pc = "paused" /\ r.reading = now /\ r.until = now + d /\ r.seen = blocked.until
  <2>1. call[c] \in CallType
    BY <1>2
  <2>2. QED
    BY <2>1 DEF Step, CallType
<1> HIDE DEF r
<1>4. call'[c] = r /\ \A e \in Callers \ {c} : call'[e] = call[e]
  BY <1>1, <1>2
<1>5. Stored(c)'
  BY <1>1, <1>3, <1>4 DEF Stored, Relies
<1>6. ASSUME NEW e \in Callers \ {c} PROVE Stored(e)'
  BY <1>1, <1>4 DEF Stored, Relies, PauseInv
<1>7. \A e \in Callers : call'[e].pc = "paused" => call'[e].reading <= now'
  BY <1>1, <1>2, <1>3, <1>4 DEF PauseInv
<1>8. QED
  BY <1>1, <1>5, <1>6, <1>7 DEF PauseInv

LEMMA SetPauseKeepsPause ==
    ASSUME RedisInv, PauseInv, NEW c \in Callers, SetPause(c)
    PROVE  PauseInv'
<1> DEFINE r == [Fresh(c, "throttled", now + Delay(c)) EXCEPT !.until = call[c].until]
           writes == call[c].until > call[c].seen
<1>1. /\ call[c].pc = "paused" /\ Set(c) /\ call' = [call EXCEPT ![c] = r] /\ now' = now
  BY DEF SetPause
<1>2. /\ TypeOK /\ now \in Nat /\ call \in [Callers -> CallType]
      /\ blocked.until \in Nat /\ blocked.expires \in Nat
      /\ call[c].reading \in Nat /\ call[c].until \in Nat /\ call[c].seen \in Nat
  BY StateTypes, CallTypes DEF RedisInv
<1>3. call[c].reading <= now /\ call[c].reading <= call[c].until
  BY <1>1 DEF PauseInv, RedisInv, CallInv
<1>4. r.pc = "throttled" /\ r.until = call[c].until
  BY <1>2, LimitType DEF Fresh, Idle
<1> HIDE DEF r
<1>5. call'[c] = r /\ \A e \in Callers \ {c} : call'[e] = call[e]
  BY <1>1, <1>2
<1>6. \A e \in Callers : call'[e].pc = "paused" => call'[e].reading <= now'
  BY <1>1, <1>4, <1>5 DEF PauseInv
<1>7. \A e \in Callers \ {c} : Relies(e)' <=> Relies(e)
  BY <1>5 DEF Relies
<1>8. CASE writes
  <2>1. /\ blocked' = [until |-> call[c].until, expires |-> now + Delay(c)]
        /\ raced' = raced \cup Overwritten(c)
    BY <1>1, <1>8 DEF Set
  <2>2. blocked'.until = call[c].until /\ blocked'.until <= blocked'.expires
    BY <1>2, <1>3, <2>1 DEF Delay
  <2>3. Stored(c)'
    BY <1>2, <1>4, <1>5, <2>2 DEF Stored
  <2>4. ASSUME NEW e \in Callers \ {c} PROVE Stored(e)'
    <3> SUFFICES ASSUME e \notin raced', Relies(e), now < call[e].until
                 PROVE  call[e].until <= call[c].until
      BY <1>1, <1>5, <1>7, <2>2 DEF Stored
    <3>1. e \notin raced /\ e \notin Overwritten(c) /\ call[e].until \in Nat
      BY <1>2, <2>1, CallTypes
    <3>2. call[e].until <= blocked.until
      BY <3>1 DEF PauseInv, Stored
    <3>3. blocked.until = call[c].seen \/ ~(call[e].until > call[c].until)
      BY <3>1 DEF Overwritten
    <3>4. QED
      BY <1>2, <1>8, <3>1, <3>2, <3>3
  <2>5. QED
    BY <1>6, <2>2, <2>3, <2>4 DEF PauseInv
<1>9. CASE ~writes
  <2>1. blocked' = blocked /\ raced' = raced
    BY <1>1, <1>9 DEF Set
  <2>2. Relies(c)
    BY <1>1, <1>2, <1>9 DEF Relies
  <2>3. Stored(c)'
    BY <1>1, <1>4, <1>5, <2>1, <2>2 DEF Stored, PauseInv
  <2>4. ASSUME NEW e \in Callers \ {c} PROVE Stored(e)'
    BY <1>1, <1>5, <1>7, <2>1 DEF Stored, PauseInv
  <2>5. QED
    BY <1>6, <2>1, <2>3, <2>4 DEF PauseInv
<1>10. QED
  BY <1>8, <1>9

LEMMA TickKeepsPause ==
    ASSUME RedisInv, PauseInv, Tick
    PROVE  PauseInv'
<1>1. /\ now' = now + 1 /\ UNCHANGED <<call, raced>>
      /\ blocked' = IF blocked.expires <= now' THEN NoPause ELSE blocked
  BY DEF Tick, Expire
<1>2. TypeOK /\ now \in Nat /\ blocked.until \in Nat /\ blocked.expires \in Nat
  BY StateTypes DEF RedisInv
<1>3. blocked'.until <= blocked'.expires
  BY <1>1 DEF PauseInv, NoPause
<1>4. \A c \in Callers : call'[c].pc = "paused" => call'[c].reading <= now'
  BY <1>1, <1>2, CallTypes DEF PauseInv
<1>5. ASSUME NEW c \in Callers PROVE Stored(c)'
  <2> SUFFICES ASSUME c \notin raced, Relies(c), now + 1 < call[c].until
               PROVE  call[c].until <= blocked'.until
    BY <1>1 DEF Stored, Relies
  <2>1. call[c].until \in Nat /\ call[c].until <= blocked.until
    BY <1>2, CallTypes DEF PauseInv, Stored
  <2>2. ~(blocked.expires <= now')
    BY <1>1, <1>2, <2>1 DEF PauseInv
  <2>3. QED
    BY <1>1, <2>1, <2>2
<1>6. QED
  BY <1>3, <1>4, <1>5 DEF PauseInv

LEMMA PauseStep == RedisInv /\ PauseInv /\ [Next]_vars => PauseInv'
<1> SUFFICES ASSUME RedisInv, PauseInv, [Next]_vars PROVE PauseInv'
  OBVIOUS
<1>1. TypeOK /\ call \in [Callers -> CallType]
  BY StateTypes DEF RedisInv
<1>2. \A time : \A place \in Places :
          \A c \in Callers : Fresh(c, place, time).pc = place /\ Step(c, place).pc = place
  <2>1. \A c \in Callers : call[c] \in CallType
    BY <1>1
  <2>2. QED
    BY <2>1 DEF Fresh, Idle, Step, CallType
<1>3. ASSUME NEW c \in Callers, NEW r \in CallType, call' = [call EXCEPT ![c] = r],
             r.pc \in Places \ {"paused", "throttled"}, UNCHANGED <<now, blocked>>,
             raced \ {c} \subseteq raced'
      PROVE  PauseInv'
  <2>1. call'[c] = r /\ \A d \in Callers \ {c} : call'[d] = call[d]
    BY <1>1, <1>3
  <2>2. QED
    BY <1>3, <2>1, PauseAside
<1>4. {"idle", "locking", "sent", "waiting"} \cup Section \subseteq Places \ {"paused", "throttled"}
  BY DEF Places, Section, Sleeping
<1>5. Idle \in CallType /\ Idle.pc = "idle"
  BY LimitType DEF Idle, CallType, Places
<1>6. ASSUME NEW c \in Callers, Advance(c) PROVE PauseInv'
  <2>1. call[c] \in CallType
    BY <1>1
  <2>2. CASE Ask(c)
    <3> DEFINE r == [Fresh(c, "locking", 0) EXCEPT !.reading = now]
    <3>1. call' = [call EXCEPT ![c] = r] /\ UNCHANGED <<now, blocked>> /\ raced \ {c} \subseteq raced'
      BY <2>2 DEF Ask, redis
    <3>2. r \in CallType /\ r.pc = "locking"
      <4>1. "locking" \in Places /\ 0 \in Nat /\ now \in Nat
        BY <1>1, StateTypes DEF Places
      <4>2. Fresh(c, "locking", 0) \in CallType /\ Fresh(c, "locking", 0).pc = "locking"
        BY <1>1, <4>1, StepTypes
      <4>3. QED
        BY <4>1, <4>2 DEF CallType
    <3> HIDE DEF r
    <3>3. QED
      BY <1>3, <1>4, <3>1, <3>2
  <2>3. CASE Lock(c)
    <3> DEFINE r == [call[c] EXCEPT !.pc = "scanning", !.since = now, !.until = call[c].reading]
    <3>1. call' = [call EXCEPT ![c] = r] /\ UNCHANGED <<now, blocked>> /\ raced \ {c} \subseteq raced'
      BY <2>3 DEF Lock, history
    <3>2. r \in CallType /\ r.pc \in Section
      <4>1. now \in Nat /\ call[c].reading \in Nat /\ "scanning" \in Section /\ "scanning" \in Places
        BY <1>1, StateTypes DEF Section, Places, CallType
      <4>2. QED
        BY <2>1, <4>1 DEF CallType
    <3> HIDE DEF r
    <3>3. QED
      BY <1>3, <1>4, <3>1, <3>2
  <2>4. CASE CheckBlocked(c)
    <3> DEFINE r == [Step(c, "refused") EXCEPT !.until = blocked.until]
    <3>1. call' = [call EXCEPT ![c] = r] /\ UNCHANGED <<now, blocked>> /\ raced \ {c} \subseteq raced'
      BY <2>4 DEF CheckBlocked, redis, history
    <3>2. r \in CallType /\ r.pc \in Section
      <4>1. "refused" \in Section /\ "refused" \in Places
        BY DEF Section, Places
      <4>2. Step(c, "refused") \in CallType /\ Step(c, "refused").pc = "refused"
        BY <1>1, <4>1, StepTypes
      <4>3. QED
        BY <1>1, <4>1, <4>2, StateTypes DEF CallType
    <3> HIDE DEF r
    <3>3. QED
      BY <1>3, <1>4, <3>1, <3>2
  <2>5. CASE Scan(c) \/ Reserve(c)
    <3>1. UNCHANGED <<now, blocked, raced>> /\ \A d \in Callers \ {c} : call'[d] = call[d]
      BY <1>1, <2>5 DEF Scan, Reserve, history
    <3>2. call'[c].pc \in Section
      <4>1. \A k : [call EXCEPT ![c] = k][c] = k
        BY <1>1
      <4>2. {"scanning", "hopeless", "refused", "reserving", "granted"} = Section
        BY DEF Section
      <4>3. CASE Scan(c)
        <5> DEFINE i == call[c].window
                   u == IF OpensAt(c, i) > call[c].until THEN OpensAt(c, i) ELSE call[c].until
                   place == IF u > call[c].reading THEN "refused" ELSE "reserving"
                   never == [call[c] EXCEPT !.pc = "hopeless"]
                   onward == [call[c] EXCEPT !.window = i + 1, !.until = u]
                   done == [Step(c, place) EXCEPT !.window = 1, !.until = u]
        <5>1. /\ call[c].pc = "scanning"
              /\ \/ call' = [call EXCEPT ![c] = never]
                 \/ call' = [call EXCEPT ![c] = onward]
                 \/ call' = [call EXCEPT ![c] = done]
          BY <4>3 DEF Scan
        <5>2. place \in {"refused", "reserving"}
          OBVIOUS
        <5> HIDE DEF u, place
        <5>3. never.pc = "hopeless" /\ onward.pc = "scanning" /\ done.pc = place
          BY <2>1, <5>1 DEF Step, CallType
        <5> HIDE DEF never, onward, done
        <5>4. call'[c] \in {never, onward, done}
          BY <4>1, <5>1
        <5>5. QED
          BY <4>2, <5>2, <5>3, <5>4
      <4>4. CASE Reserve(c)
        BY <2>1, <4>1, <4>2, <4>4 DEF Reserve, CallType, Step
      <4>5. QED
        BY <2>5, <4>3, <4>4
    <3>3. QED
      BY <1>4, <3>1, <3>2, PauseAside
  <2>6. CASE Release(c)
    <3>1. UNCHANGED <<now, blocked, raced>> /\ call' = [call EXCEPT ![c] = AfterSection(c)]
      BY <2>6 DEF Release
    <3>2. AfterSection(c).pc \in {"sent", "waiting", "idle"}
      BY <1>2, <1>4 DEF AfterSection, Idle, Places, Sleeping
    <3>3. call'[c] = AfterSection(c) /\ \A d \in Callers \ {c} : call'[d] = call[d]
      BY <1>1, <3>1
    <3>4. QED
      BY <1>4, <3>1, <3>2, <3>3, PauseAside
  <2>7. CASE ReleaseLost(c) \/ Answer(c) \/ Exceeded(c)
    <3>1. UNCHANGED <<now, blocked, raced>> /\ call' = [call EXCEPT ![c] = Idle]
      BY <2>7 DEF ReleaseLost, Answer, Exceeded, End, redis, history
    <3>2. QED
      BY <1>3, <1>4, <1>5, <3>1
  <2>8. ASSUME NEW d \in RetryAfter, Throttled(c, d) PROVE PauseInv'
    BY <2>8, ThrottledKeepsPause
  <2>9. CASE SetPause(c)
    BY <2>9, SetPauseKeepsPause
  <2>10. QED
    BY <1>6, <2>2, <2>3, <2>4, <2>5, <2>6, <2>7, <2>8, <2>9 DEF Advance, Locked, Answered
<1>7. ASSUME NEW c \in Callers, Crash(c) PROVE PauseInv'
  <2>1. call' = [call EXCEPT ![c] = Idle] /\ raced' = raced \ {c} /\ UNCHANGED <<now, blocked>>
    BY <1>7 DEF Crash, End, redis
  <2>2. QED
    BY <1>3, <1>4, <1>5, <2>1
<1>8. CASE UNCHANGED vars
  BY <1>8 DEF vars, PauseInv, Stored, Relies
<1>9. CASE Tick
  BY <1>9, TickKeepsPause
<1>10. QED
  BY <1>6, <1>7, <1>8, <1>9 DEF Next

\* A pause that one process sleeps binds the calls of all, unless a shorter
\* one overwrote it between the read and the write of blocked-until.
THEOREM PauseBindsAll == Spec => PauseShared
<1> DEFINE Bound == \A c, d \in Callers :
              Passes(c) /\ call[d].pc = "throttled" /\ d \notin raced /\ now < call[d].until
              => call[d].until <= call[c].reading
<1>1. Init => PauseInv
  BY DEF Init, PauseInv, Stored, Relies, NoPause, Idle
<1>2. RedisInv /\ PauseInv => [Bound]_vars
  <2> SUFFICES ASSUME RedisInv, PauseInv, NEW c \in Callers, NEW d \in Callers,
                      Passes(c), call[d].pc = "throttled", d \notin raced, now < call[d].until
               PROVE  call[d].until <= call[c].reading
    OBVIOUS
  <2>1. call[d].until <= blocked.until
    BY DEF PauseInv, Stored, Relies
  <2>2. blocked.until <= call[c].reading
    BY DEF Passes, Scan
  <2>3. /\ call[d].until \in Nat /\ call[c].reading \in Nat /\ blocked.until \in Nat
    BY StateTypes, CallTypes DEF RedisInv
  <2>4. QED
    BY <2>1, <2>2, <2>3
<1>3. QED
  BY <1>1, <1>2, InvAlways, PauseStep, PTL DEF Spec, PauseShared

=============================================================================
