--------------------------- MODULE CountingLemmas ---------------------------
(***************************************************************************)
(* Facts about finite sets of numbers that the proofs of several modules   *)
(* rest on: what a set without holes counts, that a set has a least and a  *)
(* greatest element, and what a page of its elements in descending order   *)
(* holds.                                                                  *)
(***************************************************************************)
EXTENDS Naturals, FiniteSets, FiniteSetTheorems, TLAPS

\* A set of numbers that begins at 1 and has no holes is counted by its last.
LEMMA Prefix ==
    ASSUME NEW n \in Nat, NEW S \in SUBSET (1 .. n),
           \A k \in S : \A j \in 1 .. k : j \in S
    PROVE  Cardinality(S) \in 0 .. n /\ S = 1 .. Cardinality(S)
<1>1. IsFiniteSet(1 .. n) /\ Cardinality(1 .. n) = n
  BY FS_Interval
<1>2. IsFiniteSet(S) /\ Cardinality(S) <= n
  BY <1>1, FS_Subset
<1>3. Cardinality(S) \in Nat
  BY <1>2, FS_CardinalityType
<1>4. ASSUME NEW k \in S
      PROVE  k <= Cardinality(S)
  <2>1. k \in Nat /\ k >= 1
    OBVIOUS
  <2>2. IsFiniteSet(1 .. k) /\ Cardinality(1 .. k) = k
    BY <2>1, FS_Interval
  <2>3. (1 .. k) \in SUBSET S
    OBVIOUS
  <2>4. QED
    BY <1>2, <2>2, <2>3, FS_Subset
<1>5. S \in SUBSET (1 .. Cardinality(S))
  BY <1>3, <1>4
<1>6. IsFiniteSet(1 .. Cardinality(S)) /\ Cardinality(1 .. Cardinality(S)) = Cardinality(S)
  BY <1>3, FS_Interval
<1>7. S = 1 .. Cardinality(S)
  BY <1>5, <1>6, FS_Subset
<1>8. QED
  BY <1>2, <1>3, <1>7

\* A non-empty set of numbers up to n has a greatest element.
LEMMA Greatest ==
    ASSUME NEW n \in Nat, NEW S \in SUBSET (1 .. n), S # {}
    PROVE  \E k \in S : \A i \in S : i <= k
<1> DEFINE D == {i \in 1 .. n : \E s \in S : i <= s}
           c == Cardinality(D)
<1>1. S \subseteq D
  OBVIOUS
<1>2. c \in 0 .. n /\ D = 1 .. c
  <2>1. D \in SUBSET (1 .. n)
    OBVIOUS
  <2>2. \A k \in D : \A j \in 1 .. k : j \in D
    OBVIOUS
  <2> HIDE DEF D
  <2> QED
    BY <2>1, <2>2, Prefix
<1>3. c \in D
  <2>1. D # {}
    BY <1>1
  <2> HIDE DEF D, c
  <2> QED
    BY <1>2, <2>1
<1>4. PICK s \in S : c <= s
  BY <1>3
<1>5. \A i \in S : i <= c
  BY <1>1, <1>2
<1> HIDE DEF D, c
<1> QED
  BY <1>2, <1>4, <1>5

\* A non-empty set of numbers up to n has a least element.
LEMMA Least ==
    ASSUME NEW n \in Nat, NEW S \in SUBSET (1 .. n), S # {}
    PROVE  \E k \in S : \A i \in S : k <= i
<1> DEFINE D == {i \in 1 .. n : \A s \in S : i < s}
           c == Cardinality(D)
<1>1. c \in 0 .. n /\ D = 1 .. c
  <2>1. D \in SUBSET (1 .. n)
    OBVIOUS
  <2>2. \A k \in D : \A j \in 1 .. k : j \in D
    OBVIOUS
  <2> HIDE DEF D
  <2> QED
    BY <2>1, <2>2, Prefix
<1>2. \A s \in S : c < s
  <2>1. CASE c = 0
    BY <2>1
  <2>2. CASE c # 0
    <3>1. c \in D
      BY <1>1, <2>2
    <3> QED
      BY <3>1
  <2> QED
    BY <2>1, <2>2
<1>3. c \in Nat /\ c + 1 \notin D
  <2> HIDE DEF D, c
  <2> QED
    BY <1>1
<1>4. c + 1 \in 1 .. n
  <2>1. PICK s \in S : s \in 1 .. n
    OBVIOUS
  <2> HIDE DEF D, c
  <2> QED
    BY <1>2, <1>3, <2>1
<1>5. PICK s \in S : ~(c + 1 < s)
  BY <1>3, <1>4
<1> HIDE DEF D, c
<1> QED
  BY <1>2, <1>3, <1>5

-----------------------------------------------------------------------------
(* The elements of a set in descending order: how many lie above one, and  *)
(* a slice of so many of them.                                            *)

Above(m, S) == {k \in S : k > m}

CountAbove(m, S) == Cardinality(Above(m, S))

\* The elements of S with so many elements above them.
Slice(S, start, count) ==
    {k \in S : start <= CountAbove(k, S) /\ CountAbove(k, S) < start + count}

LEMMA AboveFinite ==
    ASSUME NEW n \in Nat, NEW S \in SUBSET (1 .. n), NEW m
    PROVE  IsFiniteSet(Above(m, S)) /\ Cardinality(Above(m, S)) = CountAbove(m, S)
           /\ CountAbove(m, S) \in Nat
<1>1. IsFiniteSet(1 .. n)
  BY FS_Interval
<1>2. Above(m, S) \in SUBSET (1 .. n)
  BY DEF Above
<1>3. IsFiniteSet(Above(m, S))
  BY <1>1, <1>2, FS_Subset
<1> QED
  BY <1>3, FS_CardinalityType DEF CountAbove

\* Fewer elements are above a greater one.
LEMMA AboveFewer ==
    ASSUME NEW n \in Nat, NEW S \in SUBSET (1 .. n), NEW k \in S, NEW m \in S, k > m
    PROVE  CountAbove(k, S) < CountAbove(m, S)
<1>0. S \subseteq Nat
  OBVIOUS
<1>1. Above(k, S) \in SUBSET Above(m, S) /\ k \in Above(m, S) /\ k \notin Above(k, S)
  <2>1. \A x \in S : x > k => x > m
    BY <1>0
  <2>2. ~(k > k)
    BY <1>0
  <2> QED
    BY <2>1, <2>2 DEF Above
<1>2. /\ Cardinality(Above(k, S)) <= Cardinality(Above(m, S))
      /\ Cardinality(Above(k, S)) # Cardinality(Above(m, S))
  BY <1>1, AboveFinite, FS_Subset
<1> QED
  BY <1>2, AboveFinite DEF CountAbove

\* More elements, more of them above any number.
LEMMA AboveGrows ==
    ASSUME NEW n \in Nat, NEW T \in SUBSET (1 .. n), NEW S \in SUBSET T, NEW m
    PROVE  CountAbove(m, S) <= CountAbove(m, T)
<1>1. Above(m, S) \in SUBSET Above(m, T)
  BY DEF Above
<1>2. Cardinality(Above(m, S)) <= Cardinality(Above(m, T))
  BY <1>1, AboveFinite, FS_Subset
<1>3. S \in SUBSET (1 .. n)
  OBVIOUS
<1> QED
  BY <1>2, <1>3, AboveFinite

\* Where so many are above an element, any smaller number of them is above another.
LEMMA AboveFilled ==
    ASSUME NEW n \in Nat, NEW S \in SUBSET (1 .. n), NEW m \in S,
           NEW j \in Nat, j <= CountAbove(m, S)
    PROVE  \E k \in S : CountAbove(k, S) = j
<1>1. CASE j = CountAbove(m, S)
  BY <1>1
<1>2. CASE j < CountAbove(m, S)
  <2> DEFINE A == {k \in S : j < CountAbove(k, S)}
  <2>1. A \in SUBSET (1 .. n) /\ A # {}
    BY <1>2
  <2>2. PICK a \in A : \A k \in A : k <= a
    <3> HIDE DEF A
    <3> QED
      BY <2>1, Greatest
  <2>3. Above(a, S) \in SUBSET (1 .. n)
    BY DEF Above
  <2>4. Cardinality(Above(a, S)) = CountAbove(a, S) /\ j < CountAbove(a, S) /\ CountAbove(a, S) \in Nat
    BY AboveFinite
  <2>5. Above(a, S) # {}
    BY <2>4, FS_EmptySet
  <2>6. PICK b \in Above(a, S) : \A k \in Above(a, S) : b <= k
    BY <2>3, <2>5, Least
  <2>7. b \in S /\ b > a /\ b \notin A
    BY <2>2, <2>6 DEF Above
  <2>8. CountAbove(b, S) \in Nat /\ CountAbove(b, S) <= j
    <3>1. CountAbove(b, S) \in Nat
      BY AboveFinite
    <3>2. ~(j < CountAbove(b, S))
      BY <2>7
    <3> QED
      BY <3>1, <3>2
  <2>9. Above(a, S) = Above(b, S) \cup {b} /\ b \notin Above(b, S)
    <3>0. a \in S
      BY <2>2
    <3> HIDE DEF A
    <3>1. S \subseteq Nat
      OBVIOUS
    <3>2. \A x \in S : x > a => (x > b \/ x = b)
      BY <3>1, <2>6, <2>7 DEF Above
    <3>3. \A x \in S : x > b => x > a
      BY <3>0, <3>1, <2>7
    <3>4. ~(b > b)
      BY <3>1, <2>7
    <3> QED
      BY <3>2, <3>3, <3>4, <2>6, <2>7 DEF Above
  <2>10. CountAbove(a, S) = CountAbove(b, S) + 1
    <3>1. IsFiniteSet(Above(b, S)) /\ Cardinality(Above(b, S)) = CountAbove(b, S)
      BY <2>7, AboveFinite
    <3>2. Cardinality(Above(b, S) \cup {b}) = Cardinality(Above(b, S)) + 1
      BY <2>9, <3>1, FS_AddElement
    <3> QED
      BY <2>4, <2>9, <3>1, <3>2
  <2> HIDE DEF A
  <2> QED
    BY <2>4, <2>7, <2>8, <2>10
<1>3. CountAbove(m, S) \in Nat
  BY AboveFinite
<1> QED
  BY <1>1, <1>2, <1>3

\* A slice with an element behind it is full.
LEMMA SliceFull ==
    ASSUME NEW n \in Nat, NEW S \in SUBSET (1 .. n), NEW m \in S,
           NEW start \in Nat, NEW count \in Nat, start + count <= CountAbove(m, S)
    PROVE  Cardinality(Slice(S, start, count)) = count
<1>0. CountAbove(m, S) \in Nat
  BY AboveFinite
<1>1. PICK a \in S : CountAbove(a, S) = start
  <2>1. start <= CountAbove(m, S)
    BY <1>0
  <2> QED
    BY <2>1, AboveFilled
<1>2. PICK b \in S : CountAbove(b, S) = start + count
  <2>1. start + count \in Nat
    OBVIOUS
  <2> QED
    BY <2>1, AboveFilled
<1>3. \A k \in S, l \in S : CountAbove(k, S) < CountAbove(l, S) <=> k > l
  <2> SUFFICES ASSUME NEW k \in S, NEW l \in S
               PROVE  CountAbove(k, S) < CountAbove(l, S) <=> k > l
    OBVIOUS
  <2>1. CountAbove(k, S) \in Nat /\ CountAbove(l, S) \in Nat
    BY AboveFinite
  <2>2. k \in Nat /\ l \in Nat
    OBVIOUS
  <2>3. k > l => CountAbove(k, S) < CountAbove(l, S)
    BY AboveFewer
  <2>4. l > k => CountAbove(l, S) < CountAbove(k, S)
    BY AboveFewer
  <2> QED
    BY <2>1, <2>2, <2>3, <2>4
<1>4. \A k \in S : CountAbove(k, S) \in Nat
  BY AboveFinite
<1>5. Slice(S, start, count) = Above(b, S) \ Above(a, S)
  <2> SUFFICES ASSUME NEW k \in S
               PROVE  (start <= CountAbove(k, S) /\ CountAbove(k, S) < start + count)
                        <=> (k > b /\ ~(k > a))
    BY DEF Above, Slice
  <2> QED
    BY <1>1, <1>2, <1>3, <1>4
<1>6. Above(b, S) \cap Above(a, S) = Above(a, S)
  <2> SUFFICES ASSUME NEW k \in S, k > a
               PROVE  k > b
    BY DEF Above
  <2> QED
    BY <1>1, <1>2, <1>3, <1>4
<1>7. Cardinality(Above(b, S) \ Above(a, S)) = Cardinality(Above(b, S)) - Cardinality(Above(a, S))
  <2>1. IsFiniteSet(Above(b, S))
    BY AboveFinite
  <2> QED
    BY <1>6, <2>1, FS_Difference
<1>8. Cardinality(Above(b, S)) = start + count /\ Cardinality(Above(a, S)) = start
  BY <1>1, <1>2, AboveFinite
<1> QED
  BY <1>5, <1>7, <1>8

=============================================================================
