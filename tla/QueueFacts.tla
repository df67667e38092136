------------------------------ MODULE QueueFacts ------------------------------
(***************************************************************************)
(* What the operations of the program's lists do to their elements: facts  *)
(* about sequences that the proofs of several components use.              *)
(***************************************************************************)
EXTENDS Integers, SequencesExt, FiniteSetTheorems, SequenceTheorems, WellFoundedInduction, TLAPS

(* Induction over the places of a list *)

\* A set of numbers that is not empty has a least element.
LEMMA LeastNumber ==
  ASSUME NEW T \in SUBSET Nat, T # {}
  PROVE  \E n \in T : \A m \in T : n <= m
<1> DEFINE R == OpToRel(<, Nat)
<1>1. IsWellFoundedOn(R, Nat)
  BY NatLessThanWellFounded
<1>2. \A x, y \in Nat : x < y => <<x, y>> \in R
  BY DEF OpToRel
<1> HIDE DEF R
<1>3. PICK n \in T : \A m \in T : ~(<<m, n>> \in R)
  BY <1>1, WFMin
<1>4. ASSUME NEW m \in T PROVE n <= m
  <2>1. ~(m < n)
    BY <1>2, <1>3
  <2> QED BY <2>1
<1> QED BY <1>4

\* So a set with 0 that goes on from each n below N has all numbers up to N.
LEMMA StepByStep ==
  ASSUME NEW N \in Nat, NEW T \in SUBSET Nat, 0 \in T,
         \A n \in 0..(N - 1) : n \in T => n + 1 \in T
  PROVE  0..N \subseteq T
<1> SUFFICES ASSUME (0..N) \ T # {} PROVE FALSE
  OBVIOUS
<1>1. PICK n \in (0..N) \ T : \A m \in (0..N) \ T : n <= m
  <2>1. (0..N) \ T \in SUBSET Nat
    OBVIOUS
  <2> QED BY <2>1, LeastNumber
<1>2. n # 0 /\ n - 1 \in 0..(N - 1) /\ n - 1 \in 0..N /\ (n - 1) + 1 = n
  BY <1>1
<1>3. n - 1 \in T
  <2>1. ~(n <= n - 1)
    BY <1>1
  <2> QED BY <1>1, <1>2, <2>1
<1> QED BY <1>1, <1>2, <1>3

\* So Min is one of the numbers it is taken of, and none is less.
LEMMA MinAmong ==
  ASSUME NEW T \in SUBSET Nat, T # {}
  PROVE  Min(T) \in T /\ \A i \in T : Min(T) <= i
<1>1. \E n \in T : \A i \in T : n <= i
  BY LeastNumber
<1> QED BY <1>1 DEF Min

\* Max is one of them too, when there is a number that none of them exceeds.
LEMMA MaxAmong ==
  ASSUME NEW N \in Nat, NEW T \in SUBSET (0..N), T # {}
  PROVE  Max(T) \in T /\ \A i \in T : i <= Max(T)
<1> DEFINE U == {N - i : i \in T}
<1>1. U \in SUBSET Nat /\ U # {}
  <2>1. \A i \in T : N - i \in Nat
    OBVIOUS
  <2>2. ASSUME NEW u \in U PROVE u \in Nat
    <3>1. PICK i \in T : u = N - i
      BY <2>2
    <3> QED BY <2>1, <3>1
  <2>3. PICK i : i \in T
    OBVIOUS
  <2>4. N - i \in U
    BY <2>3
  <2> HIDE DEF U
  <2> QED BY <2>2, <2>4
<1>2. PICK u \in U : \A v \in U : u <= v
  BY <1>1, LeastNumber
<1>3. PICK n \in T : u = N - n
  OBVIOUS
<1>4. \A i \in T : n >= i
  <2>1. \A i \in T : N - i \in U
    OBVIOUS
  <2>2. \A i \in T : N - n <= N - i
    BY <1>2, <1>3, <2>1
  <2> QED BY <2>2
<1> QED BY <1>4 DEF Max

(* Parts of a list *)

\* A part of a list is a list, of so many elements.
LEMMA PartOfList ==
  ASSUME NEW S, NEW s \in Seq(S), NEW i \in Nat \ {0}, NEW j \in 0..Len(s)
  PROVE  /\ SubSeq(s, i, j) \in Seq(S)
         /\ Len(SubSeq(s, i, j)) = IF i <= j THEN j - i + 1 ELSE 0
<1>1. \A k \in i..j : s[k] \in S
  OBVIOUS
<1> QED BY <1>1, SubSeqProperties

\* The elements of a part of a list.
LEMMA PartsAre ==
  ASSUME NEW S, NEW s \in Seq(S), NEW i \in Nat \ {0}, NEW j \in 0..Len(s)
  PROVE  \A k \in Nat \ {0} : i + k - 1 <= j => SubSeq(s, i, j)[k] = s[i + k - 1]
<1>1. \A k \in 1..(j + 1 - i) : SubSeq(s, i, j)[k] = s[i + k - 1]
  OBVIOUS
<1>2. \A k \in Nat \ {0} : i + k - 1 <= j => k \in 1..(j + 1 - i)
  OBVIOUS
<1> QED BY <1>1, <1>2

(* Queues without repetitions *)

\* pop_front takes the first element, and keeps the others.
LEMMA TailFacts ==
  ASSUME NEW S, NEW q \in Seq(S), q # <<>>, IsInjective(q)
  PROVE  /\ Tail(q) \in Seq(S) /\ Head(q) \in S
         /\ Len(Tail(q)) = Len(q) - 1
         /\ IsInjective(Tail(q))
         /\ ToSet(q) = ToSet(Tail(q)) \cup {Head(q)}
         /\ Head(q) \notin ToSet(Tail(q))
<1> DEFINE r == Tail(q)
<1>1. /\ Len(q) \in Nat \ {0} /\ r \in Seq(S) /\ Len(r) = Len(q) - 1
      /\ \A i \in 1..Len(r) : r[i] = q[i + 1]
      /\ DOMAIN q = 1..Len(q) /\ DOMAIN r = 1..Len(r)
      /\ Head(q) = q[1] /\ q[1] \in S
  OBVIOUS
<1> HIDE DEF r
<1>2. \A i \in 1..Len(r) : i + 1 \in 1..Len(q) /\ i + 1 # 1
  BY <1>1
<1>3. \A i \in 1..Len(q) : i = 1 \/ (i - 1 \in 1..Len(r) /\ r[i - 1] = q[i])
  BY <1>1
<1>4. IsInjective(r) /\ q[1] \notin ToSet(r)
  <2>1. ASSUME NEW i \in 1..Len(r), NEW j \in 1..Len(r), r[i] = r[j] PROVE i = j
    <3>1. i + 1 = j + 1
      BY <1>1, <1>2, <2>1 DEF IsInjective
    <3> QED BY <3>1
  <2>2. ASSUME NEW i \in 1..Len(r), r[i] = q[1] PROVE FALSE
    BY <1>1, <1>2, <2>2 DEF IsInjective
  <2> QED BY <1>1, <2>1, <2>2 DEF IsInjective, ToSet
<1>5. ToSet(q) \subseteq ToSet(r) \cup {q[1]}
  <2>1. ASSUME NEW i \in 1..Len(q) PROVE q[i] \in ToSet(r) \cup {q[1]}
    <3>1. CASE i = 1 BY <3>1
    <3>2. CASE i - 1 \in 1..Len(r) /\ r[i - 1] = q[i] BY <1>1, <3>2 DEF ToSet
    <3> QED BY <1>3, <3>1, <3>2
  <2> QED BY <1>1, <2>1 DEF ToSet
<1>6. ToSet(r) \cup {q[1]} \subseteq ToSet(q)
  <2>1. \A i \in 1..Len(r) : r[i] \in ToSet(q)
    BY <1>1, <1>2 DEF ToSet
  <2>2. q[1] \in ToSet(q)
    BY <1>1 DEF ToSet
  <2> QED BY <1>1, <2>1, <2>2 DEF ToSet
<1> QED BY <1>1, <1>4, <1>5, <1>6 DEF r

\* push_back adds one element, at the end.
LEMMA AppendFacts ==
  ASSUME NEW S, NEW q \in Seq(S), NEW m \in S, IsInjective(q), m \notin ToSet(q)
  PROVE  /\ Append(q, m) \in Seq(S)
         /\ Len(Append(q, m)) = Len(q) + 1
         /\ IsInjective(Append(q, m))
         /\ ToSet(Append(q, m)) = ToSet(q) \cup {m}
<1> DEFINE r == Append(q, m)
<1>1. /\ Len(q) \in Nat /\ r \in Seq(S) /\ Len(r) = Len(q) + 1
      /\ \A i \in 1..Len(q) : r[i] = q[i]
      /\ r[Len(q) + 1] = m
      /\ DOMAIN q = 1..Len(q) /\ DOMAIN r = 1..Len(r)
  OBVIOUS
<1> HIDE DEF r
<1>2. IsInjective(r)
  BY <1>1 DEF IsInjective, ToSet
<1>3. ToSet(r) = ToSet(q) \cup {m}
  BY <1>1 DEF ToSet
<1> QED BY <1>1, <1>2, <1>3 DEF r

\* erase removes one element, and keeps the others.
LEMMA RemoveAtFacts ==
  ASSUME NEW S, NEW q \in Seq(S), NEW i \in 1..Len(q), IsInjective(q)
  PROVE  /\ RemoveAt(q, i) \in Seq(S) /\ q[i] \in S
         /\ Len(RemoveAt(q, i)) = Len(q) - 1
         /\ IsInjective(RemoveAt(q, i))
         /\ ToSet(RemoveAt(q, i)) = ToSet(q) \ {q[i]}
         /\ q[i] \in ToSet(q)
<1> DEFINE a == SubSeq(q, 1, i - 1)
           b == SubSeq(q, i + 1, Len(q))
           r == RemoveAt(q, i)
           From(k) == IF k < i THEN k ELSE k + 1
<1> HIDE DEF a, b, r
<1>1. Len(q) \in Nat /\ i \in Nat /\ 1 <= i /\ i <= Len(q) /\ DOMAIN q = 1..Len(q)
      /\ \A k \in 1..Len(q) : q[k] \in S
  OBVIOUS
<1>2. /\ a \in Seq(S) /\ Len(a) = i - 1
      /\ \A k \in 1..(i - 1) : a[k] = q[k]
  <2>1. \A k \in 1..(i - 1) : q[k] \in S /\ 1 + k - 1 = k
    BY <1>1
  <2> QED BY <1>1, <2>1, SubSeqProperties DEF a
<1>3. /\ b \in Seq(S) /\ Len(b) = Len(q) - i
      /\ \A k \in 1..(Len(q) - i) : b[k] = q[i + k]
  <2>1. \A k \in (i + 1)..Len(q) : q[k] \in S
    BY <1>1
  <2>2. \A k \in 1..(Len(q) - i) : (i + 1) + k - 1 = i + k
    BY <1>1
  <2>3. Len(q) - (i + 1) + 1 = Len(q) - i
    <3>1. Len(q) \in Int /\ i \in Int
      BY <1>1
    <3> QED BY <3>1
  <2>4. /\ b \in Seq(S)
        /\ Len(b) = IF i + 1 <= Len(q) THEN Len(q) - (i + 1) + 1 ELSE 0
        /\ \A k \in 1..(Len(q) - (i + 1) + 1) : b[k] = q[(i + 1) + k - 1]
    BY <1>1, <2>1, SubSeqProperties DEF b
  <2>5. Len(b) = Len(q) - i
    <3>1. CASE i + 1 <= Len(q)
      BY <2>3, <2>4, <3>1
    <3>2. CASE ~(i + 1 <= Len(q))
      <4>1. i = Len(q)
        <5>1. Len(q) \in Int /\ i \in Int /\ i <= Len(q)
          BY <1>1
        <5> QED BY <3>2, <5>1
      <4>2. Len(b) = 0
        BY <2>4, <3>2
      <4> QED BY <1>1, <4>1, <4>2
    <3> QED BY <3>1, <3>2
  <2> QED BY <2>2, <2>3, <2>4, <2>5
<1>4. r = a \o b
  BY DEF RemoveAt, a, b, r
<1>5. /\ r \in Seq(S) /\ Len(r) = Len(q) - 1 /\ DOMAIN r = 1..(Len(q) - 1)
      /\ \A k \in 1..(Len(q) - 1) : r[k] = IF k <= i - 1 THEN a[k] ELSE b[k - (i - 1)]
  <2>1. i - 1 \in Nat /\ Len(q) - i \in Nat
    BY <1>1
  <2>2. /\ r \in Seq(S) /\ Len(r) = (i - 1) + (Len(q) - i) /\ DOMAIN r = 1..Len(r)
        /\ \A k \in 1..((i - 1) + (Len(q) - i)) :
             r[k] = IF k <= i - 1 THEN a[k] ELSE b[k - (i - 1)]
    <3>1. r \in Seq(S) /\ Len(r) = Len(a) + Len(b)
      BY <1>2, <1>3, <1>4, ConcatProperties
    <3>2. \A k \in 1..(Len(a) + Len(b)) : r[k] = IF k <= Len(a) THEN a[k] ELSE b[k - Len(a)]
      BY <1>2, <1>3, <1>4, ConcatProperties
    <3>3. DOMAIN r = 1..Len(r)
      BY <3>1
    <3> QED BY <1>2, <1>3, <3>1, <3>2, <3>3
  <2>3. (i - 1) + (Len(q) - i) = Len(q) - 1
    BY <1>1
  <2> QED BY <2>2, <2>3
<1>6. \A k \in 1..(Len(q) - 1) : r[k] = q[From(k)] /\ From(k) \in 1..Len(q) /\ From(k) # i
  <2> SUFFICES ASSUME NEW k \in 1..(Len(q) - 1)
               PROVE  r[k] = q[From(k)] /\ From(k) \in 1..Len(q) /\ From(k) # i
    OBVIOUS
  <2>1. CASE k < i
    <3>1. k \in 1..(i - 1) /\ k <= i - 1
      BY <1>1, <2>1
    <3> QED BY <1>1, <1>2, <1>5, <2>1, <3>1
  <2>2. CASE ~(k < i)
    <3>1. k - (i - 1) \in 1..(Len(q) - i) /\ i + (k - (i - 1)) = k + 1 /\ ~(k <= i - 1)
      BY <1>1, <2>2
    <3> QED BY <1>1, <1>3, <1>5, <2>2, <3>1
  <2> QED BY <2>1, <2>2
<1>7. IsInjective(r)
  <2> SUFFICES ASSUME NEW k \in 1..(Len(q) - 1), NEW l \in 1..(Len(q) - 1), r[k] = r[l]
               PROVE  k = l
    BY <1>5 DEF IsInjective
  <2>1. From(k) = From(l)
    BY <1>1, <1>6 DEF IsInjective
  <2> QED BY <1>1, <2>1
<1>8. ToSet(r) \subseteq ToSet(q) \ {q[i]}
  <2>1. \A k \in 1..(Len(q) - 1) : q[From(k)] # q[i]
    BY <1>1, <1>6 DEF IsInjective
  <2> HIDE DEF From
  <2> QED BY <1>1, <1>5, <1>6, <2>1 DEF ToSet
<1>9. ToSet(q) \ {q[i]} \subseteq ToSet(r)
  <2> SUFFICES ASSUME NEW k \in 1..Len(q), k # i
               PROVE  q[k] \in ToSet(r)
    BY <1>1 DEF ToSet
  <2> DEFINE l == IF k < i THEN k ELSE k - 1
  <2>1. l \in 1..(Len(q) - 1) /\ From(l) = k
    BY <1>1
  <2> HIDE DEF l, From
  <2> QED BY <1>5, <1>6, <2>1 DEF ToSet
<1> QED BY <1>1, <1>5, <1>7, <1>8, <1>9 DEF r, ToSet

\* An element is replaced, wherever i points.
LEMMA ExceptFacts ==
  ASSUME NEW S, NEW q \in Seq(S), NEW i, NEW m \in S
  PROVE  /\ [q EXCEPT ![i] = m] \in Seq(S)
         /\ Len([q EXCEPT ![i] = m]) = Len(q)
<1> DEFINE r == [q EXCEPT ![i] = m]
<1>1. q \in [1..Len(q) -> S] /\ Len(q) \in Nat
  OBVIOUS
<1>2. r \in [1..Len(q) -> S]
  BY <1>1
<1>3. r \in Seq(S)
  BY <1>1, <1>2
<1>4. Len(r) = Len(q)
  BY <1>1, <1>2, <1>3
<1> QED BY <1>3, <1>4

\* A list has finitely many elements.
LEMMA ToSetFinite ==
  ASSUME NEW S, NEW q \in Seq(S)
  PROVE  ToSet(q) \subseteq S /\ IsFiniteSet(ToSet(q))
<1>1. q \in [1..Len(q) -> S] /\ Len(q) \in Nat /\ DOMAIN q = 1..Len(q)
  OBVIOUS
<1>2. ToSet(q) = {q[i] : i \in 1..Len(q)}
  BY <1>1 DEF ToSet
<1>3. q \in Surjection(1..Len(q), ToSet(q))
  BY <1>1, <1>2 DEF Surjection
<1>4. IsFiniteSet(1..Len(q))
  BY <1>1, FS_Interval
<1> QED BY <1>1, <1>2, <1>3, <1>4, FS_Surjection

(* How often a queue holds an element of G *)

PlacesOf(q, G) == {k \in DOMAIN q : q[k] \in G}

\* So it has places.
LEMMA PlacesFinite ==
  ASSUME NEW S, NEW q \in Seq(S), NEW G
  PROVE  IsFiniteSet(PlacesOf(q, G)) /\ Cardinality(PlacesOf(q, G)) \in Nat
<1>1. IsFiniteSet(1..Len(q)) /\ PlacesOf(q, G) \in SUBSET (1..Len(q))
  BY FS_Interval DEF PlacesOf
<1> QED BY <1>1, FS_Subset, FS_CardinalityType

\* push_back adds a place of the kinds its element is of.
LEMMA PlacesAppend ==
  ASSUME NEW S, NEW q \in Seq(S), NEW m \in S, NEW G
  PROVE  Cardinality(PlacesOf(Append(q, m), G)) =
           Cardinality(PlacesOf(q, G)) + (IF m \in G THEN 1 ELSE 0)
<1>1. PlacesOf(Append(q, m), G) = PlacesOf(q, G) \cup (IF m \in G THEN {Len(q) + 1} ELSE {})
  <2>1. /\ Len(q) \in Nat /\ DOMAIN q = 1..Len(q)
        /\ DOMAIN Append(q, m) = 1..(Len(q) + 1)
        /\ \A i \in 1..Len(q) : Append(q, m)[i] = q[i]
        /\ Append(q, m)[Len(q) + 1] = m
    OBVIOUS
  <2>2. 1..(Len(q) + 1) = (1..Len(q)) \cup {Len(q) + 1}
    BY <2>1
  <2> QED BY <2>1, <2>2 DEF PlacesOf
<1>2. Len(q) + 1 \notin PlacesOf(q, G)
  BY DEF PlacesOf
<1>3. CASE m \in G
  BY <1>1, <1>2, <1>3, PlacesFinite, FS_AddElement
<1>4. CASE m \notin G
  <2>1. PlacesOf(Append(q, m), G) = PlacesOf(q, G) /\ Cardinality(PlacesOf(q, G)) \in Nat
    BY <1>1, <1>4, PlacesFinite
  <2> QED BY <1>4, <2>1
<1> QED BY <1>3, <1>4

\* pop_front takes one away.
LEMMA PlacesTail ==
  ASSUME NEW S, NEW q \in Seq(S), q # <<>>, NEW G
  PROVE  Cardinality(PlacesOf(Tail(q), G)) =
           Cardinality(PlacesOf(q, G)) - (IF Head(q) \in G THEN 1 ELSE 0)
<1> DEFINE r == Tail(q)
<1>1. /\ Len(q) \in Nat \ {0} /\ r \in Seq(S) /\ Len(r) = Len(q) - 1
      /\ \A i \in 1..Len(r) : r[i] = q[i + 1]
      /\ DOMAIN q = 1..Len(q) /\ DOMAIN r = 1..Len(r)
      /\ Head(q) = q[1] /\ q[1] \in S
  OBVIOUS
<1> HIDE DEF r
<1> DEFINE A == PlacesOf(r, G)
           B == PlacesOf(q, G) \ {1}
           f == [k \in A |-> k + 1]
<1>2. f \in Bijection(A, B)
  <2>1. \A k \in A : k \in Nat /\ k + 1 \in B
    BY <1>1 DEF PlacesOf
  <2>2. \A i \in B : i - 1 \in A /\ f[i - 1] = i
    <3> SUFFICES ASSUME NEW i \in B PROVE i - 1 \in A /\ f[i - 1] = i
      OBVIOUS
    <3>1. i \in 1..Len(q) /\ i # 1 /\ q[i] \in G
      BY <1>1 DEF PlacesOf
    <3>2. i - 1 \in 1..Len(r) /\ (i - 1) + 1 = i
      BY <1>1, <3>1
    <3>3. i - 1 \in A
      BY <1>1, <3>1, <3>2 DEF PlacesOf
    <3> QED BY <3>2, <3>3
  <2>3. f \in [A -> B] /\ \A a, b \in A : f[a] = f[b] => a = b
    BY <2>1
  <2> QED BY <2>2, <2>3 DEF Bijection, Injection, Surjection, IsInjective
<1>3. IsFiniteSet(A) /\ IsFiniteSet(B)
  BY <1>1, PlacesFinite, FS_RemoveElement
<1>4. Cardinality(A) = Cardinality(B)
  BY <1>2, <1>3, FS_Bijection DEF ExistsBijection
<1>5. 1 \in PlacesOf(q, G) <=> Head(q) \in G
  BY <1>1 DEF PlacesOf
<1>6. /\ Cardinality(B) = Cardinality(PlacesOf(q, G)) - (IF Head(q) \in G THEN 1 ELSE 0)
  <2>1. Cardinality(PlacesOf(q, G)) \in Nat
    BY PlacesFinite
  <2>2. Cardinality(B) =
          IF 1 \in PlacesOf(q, G) THEN Cardinality(PlacesOf(q, G)) - 1
          ELSE Cardinality(PlacesOf(q, G))
    BY PlacesFinite, FS_RemoveElement
  <2> QED BY <1>5, <2>1, <2>2
<1> QED BY <1>4, <1>6 DEF r
=============================================================================
