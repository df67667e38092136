--------------------------- MODULE TimerQueue_proofs ---------------------------
(***************************************************************************)
(* For every set of connections and closing threads and every waiting      *)
(* time: the timer queue has one entry for each user, nobody is closed too *)
(* early, and whoever is to be closed is closed in time.                   *)
(***************************************************************************)
EXTENDS TimerQueue, QueueFacts

(* What Kept keeps *)

Keeps(q, S, f, n) ==
  f = [i \in 0..n |-> IF i = 0 THEN <<>>
                      ELSE IF q[i] \in S THEN Append(f[i - 1], q[i]) ELSE f[i - 1]]

\* The function that Kept chooses exists.
LEMMA KeepsExists ==
  ASSUME NEW q, NEW S, NEW N \in Nat
  PROVE  \E f : Keeps(q, S, f, N)
<1> DEFINE T == {n \in Nat : \E f : Keeps(q, S, f, n)}
<1>1. 0 \in T
  <2> DEFINE f == [i \in 0..0 |-> <<>>]
  <2>1. Keeps(q, S, f, 0)
    BY DEF Keeps
  <2> QED BY <2>1
<1>2. ASSUME NEW n \in 0..(N - 1), n \in T PROVE n + 1 \in T
  <2>1. PICK f : Keeps(q, S, f, n)
    BY <1>2
  <2> DEFINE more == IF q[n + 1] \in S THEN Append(f[n], q[n + 1]) ELSE f[n]
             g == [i \in 0..(n + 1) |-> IF i = n + 1 THEN more ELSE f[i]]
  <2>2. \A i \in 0..n : g[i] = f[i]
    OBVIOUS
  <2>3. ASSUME NEW i \in 0..(n + 1)
        PROVE  g[i] = IF i = 0 THEN <<>>
                      ELSE IF q[i] \in S THEN Append(g[i - 1], q[i]) ELSE g[i - 1]
    <3>1. CASE i = n + 1
      <4>1. i # 0 /\ i - 1 = n /\ n \in 0..n
        BY <3>1
      <4>2. g[i] = more /\ g[i - 1] = f[n]
        BY <2>2, <3>1, <4>1
      <4> QED BY <3>1, <4>1, <4>2
    <3>2. CASE i \in 0..n
      <4>1. i = 0 \/ i - 1 \in 0..n
        BY <3>2
      <4>2. f[i] = IF i = 0 THEN <<>>
                   ELSE IF q[i] \in S THEN Append(f[i - 1], q[i]) ELSE f[i - 1]
        BY <2>1, <3>2 DEF Keeps
      <4> HIDE DEF g
      <4> QED BY <2>2, <3>2, <4>1, <4>2
    <3> QED BY <3>1, <3>2
  <2>4. g = [i \in 0..(n + 1) |-> g[i]]
    OBVIOUS
  <2> HIDE DEF g
  <2>5. Keeps(q, S, g, n + 1)
    BY <2>3, <2>4 DEF Keeps
  <2> QED BY <2>5
<1>3. 0..N \subseteq T
  <2> HIDE DEF T
  <2>1. T \in SUBSET Nat
    BY DEF T
  <2> QED BY <1>1, <1>2, <2>1, StepByStep
<1> QED BY <1>3

\* The elements of r come from the first n of q, in their order.
FromFirst(q, r, n) ==
  \A a, b \in DOMAIN r : a < b => \E k, l \in 1..n : k < l /\ r[a] = q[k] /\ r[b] = q[l]

\* It stays so with the next element of q.
LEMMA FromFirstAppend ==
  ASSUME NEW T, NEW r \in Seq(T), NEW m \in T, NEW q, NEW n \in Nat, m = q[n + 1],
         FromFirst(q, r, n), \A a \in DOMAIN r : \E k \in 1..n : q[k] = r[a],
         NEW s, s = Append(r, m)
  PROVE  FromFirst(q, s, n + 1)
<1>1. PICK L \in Nat : /\ DOMAIN r = 1..L /\ DOMAIN s = 1..(L + 1)
                      /\ \A a \in 1..L : s[a] = r[a]
                      /\ s[L + 1] = m
  <2>1. /\ Len(r) \in Nat /\ DOMAIN r = 1..Len(r)
        /\ DOMAIN s = 1..(Len(r) + 1)
        /\ \A a \in 1..Len(r) : s[a] = r[a]
        /\ s[Len(r) + 1] = m
    OBVIOUS
  <2> QED BY <2>1
<1>6. \A a, b \in 1..L : a < b => \E k, l \in 1..n : k < l /\ r[a] = q[k] /\ r[b] = q[l]
  <2>1. \A a, b \in DOMAIN r : a < b =>
           \E k, l \in 1..n : k < l /\ r[a] = q[k] /\ r[b] = q[l]
    BY Zenon DEF FromFirst
  <2>2. PICK D : D = DOMAIN r
    OBVIOUS
  <2>3. D = 1..L
    BY <1>1, <2>2
  <2>4. \A a, b \in D : a < b => \E k, l \in 1..n : k < l /\ r[a] = q[k] /\ r[b] = q[l]
    BY <2>1, <2>2, Zenon
  <2> QED BY <2>3, <2>4
<1>2. ASSUME NEW a \in 1..(L + 1), NEW b \in 1..(L + 1), a < b
      PROVE  \E k, l \in 1..(n + 1) : k < l /\ s[a] = q[k] /\ s[b] = q[l]
  <2>1. a \in 1..L /\ (b \in 1..L \/ b = L + 1)
    BY <1>2
  <2>2. \A k \in 1..n : k \in 1..(n + 1) /\ k < n + 1 /\ n + 1 \in 1..(n + 1)
    OBVIOUS
  <2>3. CASE b \in 1..L
    <3>1. \E k, l \in 1..n : k < l /\ r[a] = q[k] /\ r[b] = q[l]
      BY <1>2, <1>6, <2>1, <2>3
    <3> QED BY <1>1, <2>1, <2>2, <2>3, <3>1
  <2>4. CASE b = L + 1
    <3>1. PICK k \in 1..n : q[k] = r[a]
      BY <1>1, <2>1
    <3>2. s[a] = q[k] /\ s[b] = q[n + 1]
      BY <1>1, <2>1, <2>4, <3>1
    <3> QED BY <2>2, <3>2
  <2> QED BY <2>1, <2>3, <2>4
<1>3. PICK D : D = DOMAIN s
  OBVIOUS
<1>4. D = 1..(L + 1)
  BY <1>1, <1>3
<1>5. \A a, b \in D : a < b => \E k, l \in 1..(n + 1) : k < l /\ s[a] = q[k] /\ s[b] = q[l]
  BY <1>2, <1>4
<1> QED BY <1>3, <1>5 DEF FromFirst

\* Kept(q, S) has those of the first entries of q that are in S, in their order.
LEMMA KeptFacts ==
  ASSUME NEW T, NEW q \in Seq(T), NEW S
  PROVE  /\ Kept(q, S) \in Seq(T)
         /\ ToSet(Kept(q, S)) = ToSet(q) \cap S
         /\ \A a, b \in DOMAIN Kept(q, S) : a < b =>
              \E k, l \in DOMAIN q : k < l /\ Kept(q, S)[a] = q[k] /\ Kept(q, S)[b] = q[l]
         /\ q # <<>> /\ q[1] \in S => Kept(q, S) # <<>> /\ Kept(q, S)[1] = q[1]
<1> DEFINE N == Len(q)
<1>1. N \in Nat /\ DOMAIN q = 1..N /\ \A i \in 1..N : q[i] \in T
  OBVIOUS
<1>2. PICK f : Keeps(q, S, f, N) /\ Kept(q, S) = f[N]
  <2> DEFINE f == CHOOSE f : Keeps(q, S, f, N)
  <2>1. Keeps(q, S, f, N)
    BY <1>1, KeepsExists
  <2>2. Kept(q, S) = f[N]
    BY DEF Kept, Keeps
  <2> QED BY <2>1, <2>2
<1> HIDE DEF N
<1>3. /\ f[0] = <<>>
      /\ \A i \in 0..(N - 1) :
           f[i + 1] = IF q[i + 1] \in S THEN Append(f[i], q[i + 1]) ELSE f[i]
  <2>1. f[0] = <<>>
    BY <1>1, <1>2 DEF Keeps
  <2>2. ASSUME NEW i \in 0..(N - 1)
        PROVE  f[i + 1] = IF q[i + 1] \in S THEN Append(f[i], q[i + 1]) ELSE f[i]
    <3>1. i + 1 \in 0..N /\ i + 1 # 0 /\ (i + 1) - 1 = i
      BY <1>1
    <3> QED BY <1>2, <3>1 DEF Keeps
  <2> QED BY <2>1, <2>2
<1> DEFINE Typed(n) == f[n] \in Seq(T)
           Same(n) == \A e : e \in ToSet(f[n]) <=> e \in S /\ \E i \in 1..n : q[i] = e
           Pairs(n) == FromFirst(q, f[n], n)
           First(n) == n # 0 /\ q[1] \in S => f[n] # <<>> /\ f[n][1] = q[1]
           Good(n) == Typed(n) /\ Same(n) /\ Pairs(n) /\ First(n)
           G == {n \in Nat : Good(n)}
<1>4. Good(0)
  BY <1>3 DEF ToSet, FromFirst
<1>5. ASSUME NEW n \in 0..(N - 1), Good(n) PROVE Good(n + 1)
  <2>1. n + 1 \in 1..N /\ q[n + 1] \in T /\ n \in Nat
    BY <1>1
  <2>2. PICK r \in Seq(T) : r = f[n]
    BY <1>5
  <2>3. PICK m \in T : m = q[n + 1]
    BY <2>1
  <2>4. /\ Len(r) \in Nat /\ DOMAIN r = 1..Len(r)
        /\ DOMAIN Append(r, m) = 1..(Len(r) + 1) /\ Append(r, m) \in Seq(T)
        /\ \A a \in 1..Len(r) : Append(r, m)[a] = r[a]
        /\ Append(r, m)[Len(r) + 1] = m
    OBVIOUS
  <2>5. CASE m \notin S
    <3>1. f[n + 1] = r
      BY <1>3, <2>2, <2>3, <2>5
    <3>2. Same(n + 1)
      <4> SUFFICES ASSUME NEW e
                   PROVE  e \in ToSet(r) <=> e \in S /\ \E i \in 1..(n + 1) : q[i] = e
        BY <3>1
      <4>1. \A i \in 1..(n + 1) : i \in 1..n \/ i = n + 1
        BY <2>1
      <4>2. \A i \in 1..n : i \in 1..(n + 1)
        BY <2>1
      <4> QED BY <1>5, <2>2, <2>3, <2>5, <4>1, <4>2
    <3>3. Pairs(n + 1)
      <4>1. \A i \in 1..n : i \in 1..(n + 1)
        BY <2>1
      <4>2. FromFirst(q, r, n)
        BY <1>5, <2>2
      <4>3. FromFirst(q, r, n + 1)
        BY <4>1, <4>2 DEF FromFirst
      <4> QED BY <3>1, <4>3
    <3>4. First(n + 1)
      <4>1. n # 0 \/ n + 1 = 1
        BY <2>1
      <4> QED BY <1>5, <2>2, <2>3, <2>5, <3>1, <4>1
    <3> QED BY <2>2, <3>1, <3>2, <3>3, <3>4
  <2>6. CASE m \in S
    <3>1. PICK s \in Seq(T) : s = Append(r, m)
      BY <2>4
    <3>2. f[n + 1] = s
      BY <1>3, <2>2, <2>3, <2>6, <3>1
    <3>3. /\ DOMAIN s = 1..(Len(r) + 1) /\ s[Len(r) + 1] = m
          /\ \A a \in 1..Len(r) : s[a] = r[a]
      BY <2>4, <3>1
    <3>4. \A a \in 1..(Len(r) + 1) : a \in 1..Len(r) \/ a = Len(r) + 1
      BY <2>4
    <3>5. \A a \in 1..Len(r) : a \in 1..(Len(r) + 1)
      BY <2>4
    <3>6. \A i \in 1..(n + 1) : i \in 1..n \/ i = n + 1
      BY <2>1
    <3>7. \A i \in 1..n : i \in 1..(n + 1)
      BY <2>1
    <3>8. Len(r) + 1 \in 1..(Len(r) + 1) /\ n + 1 \in 1..(n + 1)
      BY <2>1, <2>4
    <3>9. Same(n + 1)
      <4> SUFFICES ASSUME NEW e
                   PROVE  e \in ToSet(s) <=> e \in S /\ \E i \in 1..(n + 1) : q[i] = e
        BY <3>2
      <4>1. e \in ToSet(s) <=> e \in ToSet(r) \/ e = m
        BY <2>4, <3>3, <3>4, <3>5, <3>8 DEF ToSet
      <4>2. (\E i \in 1..(n + 1) : q[i] = e) <=> (\E i \in 1..n : q[i] = e) \/ e = m
        BY <2>3, <3>6, <3>7, <3>8
      <4> QED BY <1>5, <2>2, <2>6, <4>1, <4>2
    <3>10. Pairs(n + 1)
      <4>1. FromFirst(q, r, n)
        BY <1>5, <2>2
      <4>2. ASSUME NEW a \in DOMAIN r PROVE \E k \in 1..n : q[k] = r[a]
        <5>1. r[a] \in ToSet(r)
          BY DEF ToSet
        <5> QED BY <1>5, <2>2, <5>1
      <4>3. FromFirst(q, s, n + 1)
        BY <2>1, <2>3, <3>1, <4>1, <4>2, FromFirstAppend
      <4> QED BY <3>2, <4>3
    <3>11. First(n + 1)
      <4>1. CASE n = 0
        <5>1. r = <<>>
          BY <1>3, <2>2, <4>1
        <5>2. Len(r) + 1 = 1 /\ n + 1 = 1
          BY <4>1, <5>1
        <5>3. 1 \in DOMAIN s /\ s[1] = m
          BY <3>3, <3>8, <5>2
        <5>4. s # <<>>
          BY <5>3
        <5> QED BY <2>3, <3>2, <5>2, <5>3, <5>4
      <4>2. CASE n # 0 /\ q[1] \in S
        <5>1. r # <<>> /\ r[1] = q[1]
          BY <1>5, <2>2, <4>2
        <5>2. 1 \in 1..Len(r)
          BY <5>1
        <5>3. s[1] = q[1] /\ 1 \in DOMAIN s
          BY <3>3, <3>5, <5>1, <5>2
        <5>4. s # <<>>
          BY <5>3
        <5> QED BY <3>2, <5>3, <5>4
      <4> QED BY <4>1, <4>2
    <3> QED BY <3>1, <3>2, <3>9, <3>10, <3>11
  <2> QED BY <2>5, <2>6
<1>6. Good(N)
  <2> HIDE DEF Good
  <2>1. G \in SUBSET Nat /\ 0 \in G
    BY <1>4
  <2>2. \A n \in 0..(N - 1) : n \in G => n + 1 \in G
    <3>1. \A n \in 0..(N - 1) : n \in Nat /\ n + 1 \in Nat
      BY <1>1
    <3> QED BY <1>5, <3>1
  <2>3. 0..N \subseteq G
    <3> HIDE DEF G
    <3> QED BY <1>1, <2>1, <2>2, StepByStep
  <2> QED BY <1>1, <2>3
<1>7. PICK r \in Seq(T) : r = Kept(q, S)
  BY <1>2, <1>6
<1>8. ToSet(r) = ToSet(q) \cap S
  <2>1. \A e : e \in ToSet(q) <=> \E i \in 1..N : q[i] = e
    BY <1>1 DEF ToSet
  <2> QED BY <1>2, <1>6, <1>7, <2>1
<1>9. \A a, b \in DOMAIN r : a < b =>
         \E k, l \in DOMAIN q : k < l /\ r[a] = q[k] /\ r[b] = q[l]
  <2>1. FromFirst(q, r, N)
    BY <1>2, <1>6, <1>7
  <2> QED BY <1>1, <2>1 DEF FromFirst
<1>10. q # <<>> /\ q[1] \in S => r # <<>> /\ r[1] = q[1]
  <2>1. q # <<>> => N # 0
    BY DEF N
  <2> QED BY <1>2, <1>6, <1>7, <2>1
<1> QED BY <1>7, <1>8, <1>9, <1>10

(* The queue as a chain of entries *)

Chain(q) == q \in Seq(EntryType) /\ InTime(q) /\ OnePerConnection(q)

\* A list of no entries is a chain.
LEMMA EmptyChain == Chain(<<>>) /\ ToSet(<<>>) = {}
  BY DEF Chain, InTime, OnePerConnection, ToSet

\* Entries have a time, a connection and a number.
LEMMA EntriesOfChain ==
  ASSUME NEW q, Chain(q)
  PROVE  /\ \A e \in ToSet(q) : /\ e \in EntryType
                                 /\ e.time \in Nat /\ e.conn \in Conn /\ e.seq \in Nat
         /\ \A e, f \in ToSet(q) : e.conn = f.conn => e = f
         /\ q # <<>> <=> ToSet(q) # {}
         /\ q # <<>> => q[1] \in ToSet(q) /\ \A e \in ToSet(q) : q[1].time <= e.time
<1>1. /\ Len(q) \in Nat /\ DOMAIN q = 1..Len(q) /\ \A i \in 1..Len(q) : q[i] \in EntryType
      /\ q # <<>> => 1 \in 1..Len(q)
      /\ Len(q) # 0 => q # <<>>
  BY DEF Chain
<1>2. \A e \in EntryType : e.time \in Nat /\ e.conn \in Conn /\ e.seq \in Nat
  BY DEF EntryType
<1>3. \A e : e \in ToSet(q) <=> \E i \in DOMAIN q : e = q[i]
  BY DEF ToSet
<1>4. ASSUME NEW e \in ToSet(q), NEW f \in ToSet(q), e.conn = f.conn PROVE e = f
  BY <1>3, <1>4 DEF Chain, OnePerConnection
<1>5. ASSUME q # <<>>, NEW e \in ToSet(q) PROVE q[1].time <= e.time
  <2>1. PICK i \in 1..Len(q) : e = q[i]
    BY <1>1, <1>3
  <2>2. CASE i = 1
    <3>1. e.time \in Nat
      BY <1>1, <1>2, <2>1
    <3> QED BY <2>1, <2>2, <3>1
  <2>3. CASE 1 < i
    BY <1>1, <1>5, <2>1, <2>3 DEF Chain, InTime
  <2>4. i = 1 \/ 1 < i
    BY <1>1
  <2> QED BY <2>2, <2>3, <2>4
<1>6. q # <<>> <=> ToSet(q) # {}
  <2>1. q # <<>> => ToSet(q) # {}
    BY <1>1, <1>3
  <2>2. ToSet(q) # {} => q # <<>>
    BY EmptyChain
  <2> QED BY <2>1, <2>2
<1>7. q # <<>> => q[1] \in ToSet(q)
  BY <1>1, <1>3
<1> QED BY <1>1, <1>2, <1>3, <1>4, <1>5, <1>6, <1>7

\* A chain from which entries are taken is a chain.
LEMMA KeptChain ==
  ASSUME NEW q, Chain(q), NEW S
  PROVE  /\ Chain(Kept(q, S)) /\ ToSet(Kept(q, S)) = ToSet(q) \cap S
         /\ q # <<>> /\ q[1] \in S => Kept(q, S) # <<>> /\ Kept(q, S)[1] = q[1]
<1>1. PICK r \in Seq(EntryType) :
        /\ r = Kept(q, S) /\ ToSet(r) = ToSet(q) \cap S
        /\ \A a, b \in DOMAIN r : a < b =>
             \E k, l \in DOMAIN q : k < l /\ r[a] = q[k] /\ r[b] = q[l]
        /\ q # <<>> /\ q[1] \in S => r # <<>> /\ r[1] = q[1]
  BY KeptFacts DEF Chain
<1>2. InTime(r)
  BY <1>1 DEF InTime, Chain
<1>3. OnePerConnection(r)
  <2> SUFFICES ASSUME NEW a \in DOMAIN r, NEW b \in DOMAIN r, r[a].conn = r[b].conn
               PROVE  a = b
    BY DEF OnePerConnection
  <2>1. a \in Nat /\ b \in Nat
    OBVIOUS
  <2>2. \A k, l \in DOMAIN q : k < l => q[k].conn # q[l].conn
    <3>1. \A k \in DOMAIN q : k \in Nat
      BY DEF Chain
    <3> QED BY <3>1 DEF Chain, OnePerConnection
  <2>3. ~(a < b)
    BY <1>1, <2>2
  <2>4. ~(b < a)
    BY <1>1, <2>2
  <2> QED BY <2>1, <2>3, <2>4
<1> QED BY <1>1, <1>2, <1>3 DEF Chain

\* A chain behind another, with later entries for other connections.
LEMMA ConcatChain ==
  ASSUME NEW a, NEW b, Chain(a), Chain(b),
         \A e \in ToSet(a), f \in ToSet(b) : e.time <= f.time /\ e.conn # f.conn,
         NEW h, h = a \o b
  PROVE  Chain(h) /\ ToSet(h) = ToSet(a) \cup ToSet(b)
<1>1. a \in Seq(EntryType) /\ b \in Seq(EntryType)
  BY DEF Chain
<1>2. PICK m \in Nat, n \in Nat :
        /\ m = Len(a) /\ n = Len(b) /\ DOMAIN a = 1..m /\ DOMAIN b = 1..n
        /\ h \in Seq(EntryType) /\ DOMAIN h = 1..(m + n)
        /\ \A i \in 1..(m + n) : h[i] = IF i <= m THEN a[i] ELSE b[i - m]
  <2>1. Len(a) \in Nat /\ Len(b) \in Nat /\ DOMAIN a = 1..Len(a) /\ DOMAIN b = 1..Len(b)
    BY <1>1
  <2>2. /\ h \in Seq(EntryType) /\ Len(h) = Len(a) + Len(b)
        /\ \A i \in 1..(Len(a) + Len(b)) : h[i] = IF i <= Len(a) THEN a[i] ELSE b[i - Len(a)]
    BY <1>1, ConcatProperties
  <2>3. DOMAIN h = 1..(Len(a) + Len(b))
    BY <2>2
  <2> QED BY <2>1, <2>2, <2>3
<1>3. \A i \in 1..(m + n) : (i \in 1..m /\ h[i] = a[i]) \/ (i - m \in 1..n /\ h[i] = b[i - m])
  BY <1>2
<1>4. /\ \A i \in 1..m : i \in 1..(m + n) /\ h[i] = a[i]
      /\ \A i \in 1..n : i + m \in 1..(m + n) /\ h[i + m] = b[i]
  <2>1. ASSUME NEW i \in 1..m PROVE i \in 1..(m + n) /\ h[i] = a[i]
    <3>1. i \in 1..(m + n) /\ i <= m
      OBVIOUS
    <3> QED BY <1>2, <3>1
  <2>2. ASSUME NEW i \in 1..n PROVE i + m \in 1..(m + n) /\ h[i + m] = b[i]
    <3>1. i + m \in 1..(m + n) /\ ~(i + m <= m) /\ (i + m) - m = i
      OBVIOUS
    <3> QED BY <1>2, <3>1
  <2> QED BY <2>1, <2>2
<1>5. /\ \A e : e \in ToSet(a) <=> \E i \in 1..m : e = a[i]
      /\ \A e : e \in ToSet(b) <=> \E i \in 1..n : e = b[i]
      /\ \A e : e \in ToSet(h) <=> \E i \in 1..(m + n) : e = h[i]
  BY <1>2 DEF ToSet
<1>6. ToSet(h) = ToSet(a) \cup ToSet(b)
  <2>1. ASSUME NEW e \in ToSet(h) PROVE e \in ToSet(a) \/ e \in ToSet(b)
    <3>1. PICK i \in 1..(m + n) : e = h[i]
      BY <1>5
    <3> QED BY <1>3, <1>5, <3>1
  <2>2. ASSUME NEW e \in ToSet(a) PROVE e \in ToSet(h)
    <3>1. PICK i \in 1..m : e = a[i]
      BY <1>5
    <3> QED BY <1>4, <1>5, <3>1
  <2>3. ASSUME NEW e \in ToSet(b) PROVE e \in ToSet(h)
    <3>1. PICK i \in 1..n : e = b[i]
      BY <1>5
    <3> QED BY <1>4, <1>5, <3>1
  <2> QED BY <2>1, <2>2, <2>3
<1>10. /\ \A i, j \in 1..m : i < j => a[i].time <= a[j].time /\ a[i].conn # a[j].conn
       /\ \A i, j \in 1..n : i < j => b[i].time <= b[j].time /\ b[i].conn # b[j].conn
  <2>1. /\ \A i, j \in DOMAIN a : i < j => a[i].time <= a[j].time
        /\ \A i, j \in DOMAIN a : a[i].conn = a[j].conn => i = j
        /\ \A i, j \in DOMAIN b : i < j => b[i].time <= b[j].time
        /\ \A i, j \in DOMAIN b : b[i].conn = b[j].conn => i = j
    BY Zenon DEF Chain, InTime, OnePerConnection
  <2>2. PICK A, B : A = DOMAIN a /\ B = DOMAIN b
    OBVIOUS
  <2>3. /\ \A i, j \in A : i < j => a[i].time <= a[j].time
        /\ \A i, j \in A : a[i].conn = a[j].conn => i = j
        /\ \A i, j \in B : i < j => b[i].time <= b[j].time
        /\ \A i, j \in B : b[i].conn = b[j].conn => i = j
    BY <2>1, <2>2, Zenon
  <2>4. A = 1..m /\ B = 1..n
    BY <1>2, <2>2
  <2> QED BY <2>3, <2>4
<1>7. ASSUME NEW i \in 1..(m + n), NEW j \in 1..(m + n), i < j
      PROVE  h[i].time <= h[j].time /\ h[i].conn # h[j].conn
  <2>1. CASE j \in 1..m /\ h[j] = a[j]
    <3>1. i \in 1..m /\ h[i] = a[i]
      <4>1. i \in 1..m
        BY <1>7, <2>1
      <4> QED BY <1>4, <4>1
    <3> QED BY <1>7, <1>10, <2>1, <3>1
  <2>2. CASE i \in 1..m /\ h[i] = a[i] /\ j - m \in 1..n /\ h[j] = b[j - m]
    BY <1>5, <2>2
  <2>3. CASE i - m \in 1..n /\ h[i] = b[i - m] /\ j - m \in 1..n /\ h[j] = b[j - m]
    <3>1. PICK k \in 1..n, l \in 1..n : k = i - m /\ l = j - m /\ k < l
      BY <1>7, <2>3
    <3>2. h[i] = b[k] /\ h[j] = b[l]
      BY <2>3, <3>1
    <3> QED BY <1>10, <3>1, <3>2
  <2> QED BY <1>3, <2>1, <2>2, <2>3
<1>8. InTime(h)
  BY <1>2, <1>7 DEF InTime
<1>9. OnePerConnection(h)
  <2>1. \A i, j \in 1..(m + n) : i = j \/ i < j \/ j < i
    BY <1>2
  <2>2. \A i, j \in 1..(m + n) : h[i].conn = h[j].conn => i = j
    BY <1>7, <2>1
  <2>3. PICK H : H = DOMAIN h
    OBVIOUS
  <2>4. \A i, j \in H : h[i].conn = h[j].conn => i = j
    BY <1>2, <2>2, <2>3
  <2> QED BY <2>3, <2>4, Zenon DEF OnePerConnection
<1> QED BY <1>2, <1>6, <1>8, <1>9 DEF Chain

\* Insert adds entries of one time for connections that have none.
LEMMA InsertChain ==
  ASSUME NEW q, Chain(q), NEW t \in Nat, NEW new, Chain(new),
         \A f \in ToSet(new) : f.time = t /\ \A e \in ToSet(q) : e.conn # f.conn
  PROVE  Chain(Insert(q, t, new)) /\ ToSet(Insert(q, t, new)) = ToSet(q) \cup ToSet(new)
<1>1. PICK u : u = Until(q, t) /\ Chain(u) /\ ToSet(u) = {e \in ToSet(q) : e.time <= t}
  <2>1. PICK S : S = {e \in ToSet(q) : e.time <= t}
    OBVIOUS
  <2>2. Chain(Kept(q, S)) /\ ToSet(Kept(q, S)) = ToSet(q) \cap S
    BY KeptChain
  <2>3. ToSet(q) \cap S = {e \in ToSet(q) : e.time <= t}
    BY <2>1
  <2> QED BY <2>1, <2>2, <2>3 DEF Until
<1>2. PICK v : v = After(q, t) /\ Chain(v) /\ ToSet(v) = {e \in ToSet(q) : e.time > t}
  <2>1. PICK S : S = {e \in ToSet(q) : e.time > t}
    OBVIOUS
  <2>2. Chain(Kept(q, S)) /\ ToSet(Kept(q, S)) = ToSet(q) \cap S
    BY KeptChain
  <2>3. ToSet(q) \cap S = {e \in ToSet(q) : e.time > t}
    BY <2>1
  <2> QED BY <2>1, <2>2, <2>3 DEF After
<1>3. \A e \in ToSet(q) : e.time \in Nat
  BY EntriesOfChain
<1>4. PICK w : w = new \o v
  OBVIOUS
<1>5. PICK h : h = u \o w
  OBVIOUS
<1>6. Chain(w) /\ ToSet(w) = ToSet(new) \cup ToSet(v)
  <2>1. \A e \in ToSet(new), f \in ToSet(v) : e.time <= f.time /\ e.conn # f.conn
    BY <1>2, <1>3
  <2> QED BY <1>2, <1>4, <2>1, ConcatChain
<1>7. Chain(h) /\ ToSet(h) = ToSet(u) \cup ToSet(w)
  <2>1. ASSUME NEW e \in ToSet(u), NEW f \in ToSet(w) PROVE e.time <= f.time /\ e.conn # f.conn
    <3>1. e \in ToSet(q) /\ e.time <= t /\ e.time \in Nat
      BY <1>1, <1>3
    <3>2. CASE f \in ToSet(new)
      BY <3>1, <3>2
    <3>3. CASE f \in ToSet(v)
      <4>1. f \in ToSet(q) /\ f.time > t /\ f.time \in Nat
        BY <1>2, <1>3, <3>3
      <4>2. e.time < f.time
        BY <3>1, <4>1
      <4>3. e # f
        BY <3>1, <4>2
      <4> QED BY <3>1, <4>1, <4>2, <4>3, EntriesOfChain
    <3> QED BY <1>6, <3>2, <3>3
  <2> QED BY <1>1, <1>5, <1>6, <2>1, ConcatChain
<1>8. ToSet(h) = ToSet(q) \cup ToSet(new)
  BY <1>1, <1>2, <1>3, <1>6, <1>7
<1>9. h = Insert(q, t, new)
  BY <1>1, <1>2, <1>4, <1>5 DEF Insert
<1> QED BY <1>7, <1>8, <1>9

\* A chain is as long as it has entries.
LEMMA LengthOfChain ==
  ASSUME NEW q, Chain(q)
  PROVE  IsFiniteSet(ToSet(q)) /\ Cardinality(ToSet(q)) = Len(q) /\ Len(q) \in Nat
<1>1. PICK n \in Nat : n = Len(q) /\ DOMAIN q = 1..n /\ q = [i \in 1..n |-> q[i]]
  BY DEF Chain
<1>2. \A i, j \in 1..n : q[i] = q[j] => i = j
  <2>1. \A i, j \in DOMAIN q : q[i] = q[j] => i = j
    BY Zenon DEF Chain, OnePerConnection
  <2>2. PICK D : D = DOMAIN q
    OBVIOUS
  <2>3. \A i, j \in D : q[i] = q[j] => i = j
    BY <2>1, <2>2, Zenon
  <2> QED BY <1>1, <2>2, <2>3
<1>3. ToSet(q) = {q[i] : i \in 1..n}
  BY <1>1 DEF ToSet
<1>4. PICK f : f = [i \in 1..n |-> q[i]]
  OBVIOUS
<1>5. f \in Bijection(1..n, ToSet(q))
  <2>1. f \in [1..n -> ToSet(q)] /\ \A i \in 1..n : f[i] = q[i]
    BY <1>3, <1>4
  <2>2. \A e \in ToSet(q) : \E i \in 1..n : f[i] = e
    BY <1>3, <2>1
  <2> QED BY <1>2, <2>1, <2>2 DEF Bijection, Injection, Surjection, IsInjective
<1>6. IsFiniteSet(1..n) /\ Cardinality(1..n) = n
  <2>1. 1 \in Int /\ n \in Int
    OBVIOUS
  <2>2. IsFiniteSet(1..n) /\ Cardinality(1..n) = IF 1 > n THEN 0 ELSE n - 1 + 1
    BY <2>1, FS_Interval
  <2> QED BY <2>2
<1>7. IsFiniteSet(ToSet(q))
  BY <1>5, <1>6, FS_Surjection DEF Bijection
<1>8. Cardinality(ToSet(q)) = n
  BY <1>5, <1>6, <1>7, FS_Bijection DEF ExistsBijection
<1> QED BY <1>1, <1>7, <1>8

(* What the operations of the queue do *)

QueueGood ==
  /\ Chain(m_timerQueuemap) /\ m_cur_size_ = Len(m_timerQueuemap) /\ m_timer_value_ \in Nat
  /\ m_timerQueuemap # <<>> => m_timer_value_ = m_timerQueuemap[1].time

\* The two parts of the invariant that are about the order of the queue.
LEMMA GoodQueue == TypeOK /\ QueueInOrder => QueueGood
  BY DEF TypeOK, QueueInOrder, QueueGood, Chain

\* The queue without the entries of a connection.
LEMMA DeleteMoves ==
  ASSUME QueueGood, NEW c, DeleteFromTimerQueue(c)
  PROVE  QueueGood' /\ Queued' = {e \in Queued : e.conn # c}
<1>1. PICK r : r = Without(m_timerQueuemap, c) /\ Chain(r) /\ ToSet(r) = {e \in Queued : e.conn # c}
  <2>1. PICK S : S = {e \in ToSet(m_timerQueuemap) : e.conn # c}
    OBVIOUS
  <2>2. Chain(Kept(m_timerQueuemap, S)) /\ ToSet(Kept(m_timerQueuemap, S)) = Queued \cap S
    BY KeptChain DEF QueueGood, Queued
  <2>3. Queued \cap S = {e \in Queued : e.conn # c}
    BY <2>1 DEF Queued
  <2> QED BY <2>1, <2>2, <2>3 DEF Without
<1>2. /\ m_timerQueuemap' = r
      /\ m_cur_size_' = m_cur_size_ - (Len(m_timerQueuemap) - Len(r))
      /\ m_timer_value_' = IF m_cur_size_' > 0 THEN r[1].time ELSE m_timer_value_
  BY <1>1 DEF DeleteFromTimerQueue, GetEarliestTime
<1>3. Len(r) \in Nat /\ Len(m_timerQueuemap) \in Nat
  BY <1>1, LengthOfChain DEF QueueGood
<1>4. m_cur_size_' = Len(r)
  <2>1. PICK k \in Nat, l \in Nat : k = Len(r) /\ l = Len(m_timerQueuemap)
    BY <1>3
  <2>2. m_cur_size_' = l - (l - k)
    BY <1>2, <2>1 DEF QueueGood
  <2> QED BY <2>1, <2>2
<1>5. r # <<>> => r[1].time \in Nat
  BY <1>1, EntriesOfChain
<1>6. r # <<>> <=> Len(r) > 0
  BY <1>1 DEF Chain
<1> QED BY <1>1, <1>2, <1>4, <1>5, <1>6 DEF QueueGood, Queued

\* The queue with an entry for a connection that has none.
LEMMA AddMoves ==
  ASSUME QueueGood, NEW c \in Conn, now \in Nat, iCurrsequence[c] \in Nat,
         \A e \in Queued : e.conn # c, AddToTimerQueue(c)
  PROVE  /\ QueueGood'
         /\ Queued' = Queued \cup {Entry(now + m_iWaitTime, c, iCurrsequence[c])}
<1>1. PICK t \in Nat, e \in EntryType :
        /\ t = now + m_iWaitTime /\ e = Entry(t, c, iCurrsequence[c])
        /\ e.time = t /\ e.conn = c
  <2>1. now + m_iWaitTime \in Nat
    BY WaitAssumption
  <2>2. Entry(now + m_iWaitTime, c, iCurrsequence[c]) \in EntryType
    BY <2>1 DEF Entry, EntryType
  <2> QED BY <2>1, <2>2 DEF Entry
<1>1b. PICK new : new = <<e>>
  OBVIOUS
<1>2. Chain(new) /\ ToSet(new) = {e}
  BY <1>1, <1>1b DEF Chain, InTime, OnePerConnection, ToSet
<1>3. PICK h : h = Insert(m_timerQueuemap, t, new)
  OBVIOUS
<1>4. Chain(h) /\ ToSet(h) = Queued \cup {e}
  BY <1>1, <1>2, <1>3, InsertChain DEF QueueGood, Queued
<1>5. m_timerQueuemap' = h /\ m_cur_size_' = m_cur_size_ + 1 /\ m_timer_value_' = h[1].time
  BY <1>1, <1>1b, <1>3 DEF AddToTimerQueue, GetEarliestTime
<1>6. Len(h) = Len(m_timerQueuemap) + 1
  <2>1. e \notin Queued
    BY <1>1
  <2>2. /\ IsFiniteSet(Queued) /\ Cardinality(Queued) = Len(m_timerQueuemap)
        /\ Cardinality(ToSet(h)) = Len(h)
    BY <1>4, LengthOfChain DEF QueueGood, Queued
  <2> QED BY <1>4, <2>1, <2>2, FS_AddElement
<1>7. h[1].time \in Nat
  <2>1. h # <<>>
    BY <1>4, EntriesOfChain
  <2> QED BY <1>4, <2>1, EntriesOfChain
<1> QED BY <1>1, <1>4, <1>5, <1>6, <1>7 DEF QueueGood, Queued

\* The list of what is queued again, a round later.
LEMMA AgainChain ==
  ASSUME NEW due, Chain(due), NEW t \in Nat,
         NEW new, new = [i \in DOMAIN due |-> Entry(t, due[i].conn, due[i].seq)]
  PROVE  Chain(new) /\ ToSet(new) = {Entry(t, e.conn, e.seq) : e \in ToSet(due)}
<1>1. PICK n \in Nat : n = Len(due) /\ DOMAIN due = 1..n /\ \A i \in 1..n : due[i] \in EntryType
  BY DEF Chain
<1>2. new = [i \in 1..n |-> Entry(t, due[i].conn, due[i].seq)]
  BY <1>1
<1>3. \A i \in 1..n : new[i] \in EntryType
  BY <1>1, <1>2 DEF Entry, EntryType
<1>4. new \in Seq(EntryType) /\ DOMAIN new = 1..n
  BY <1>2, <1>3
<1>5. \A i \in 1..n : new[i].time = t /\ new[i].conn = due[i].conn
  BY <1>2 DEF Entry
<1>6. InTime(new)
  BY <1>4, <1>5 DEF InTime
<1>7. OnePerConnection(new)
  <2>1. \A i, j \in DOMAIN due : due[i].conn = due[j].conn => i = j
    BY Zenon DEF Chain, OnePerConnection
  <2>2. PICK D : D = DOMAIN due
    OBVIOUS
  <2>3. \A i, j \in D : due[i].conn = due[j].conn => i = j
    BY <2>1, <2>2, Zenon
  <2>4. \A i, j \in 1..n : new[i].conn = new[j].conn => i = j
    BY <1>1, <1>5, <2>2, <2>3
  <2>5. PICK H : H = DOMAIN new
    OBVIOUS
  <2>6. \A i, j \in H : new[i].conn = new[j].conn => i = j
    BY <1>4, <2>4, <2>5
  <2> QED BY <2>5, <2>6, Zenon DEF OnePerConnection
<1>8. ToSet(new) = {Entry(t, e.conn, e.seq) : e \in ToSet(due)}
  <2>1. ToSet(new) = {new[i] : i \in 1..n} /\ ToSet(due) = {due[i] : i \in 1..n}
    BY <1>1, <1>4 DEF ToSet
  <2>2. \A i \in 1..n : new[i] = Entry(t, due[i].conn, due[i].seq)
    BY <1>2
  <2> QED BY <2>1, <2>2
<1> QED BY <1>4, <1>6, <1>7, <1>8 DEF Chain

\* What is due, and what of it is queued again.
Due == {e \in Queued : e.time <= monitor.cur_time}
Again(t) == IF m_ifTimeOutKick THEN {} ELSE {Entry(t + m_iWaitTime, e.conn, e.seq) : e \in Due}

\* GetOverTimeTimer until nothing is due: the monitor has what was due, and without
\* Sock_TimeOutKick it is in the queue again, a round later.
LEMMA GetOverMoves ==
  ASSUME TypeOK, QueueGood, GetOverTimeTimers
  PROVE  /\ QueueGood'
         /\ Queued' = {e \in Queued : e.time > monitor.cur_time} \cup Again(monitor.cur_time)
         /\ monitor' = [pc |-> "check", cur_time |-> monitor.cur_time, idle |-> monitor'.idle]
         /\ Chain(monitor'.idle) /\ Idle' = Due
<1> DEFINE q == m_timerQueuemap
<1>1. PICK t \in Nat : t = monitor.cur_time
  BY DEF TypeOK
<1>2. PICK due : due = Until(q, t) /\ Chain(due) /\ ToSet(due) = Due
  <2>1. PICK S : S = {e \in ToSet(q) : e.time <= t}
    OBVIOUS
  <2>2. Chain(Kept(q, S)) /\ ToSet(Kept(q, S)) = ToSet(q) \cap S
    BY KeptChain DEF QueueGood
  <2>3. ToSet(q) \cap S = Due
    BY <1>1, <2>1 DEF Due, Queued
  <2> QED BY <2>1, <2>2, <2>3 DEF Until
<1>3. PICK rest : rest = After(q, t) /\ Chain(rest) /\ ToSet(rest) = {e \in Queued : e.time > t}
  <2>1. PICK S : S = {e \in ToSet(q) : e.time > t}
    OBVIOUS
  <2>2. Chain(Kept(q, S)) /\ ToSet(Kept(q, S)) = ToSet(q) \cap S
    BY KeptChain DEF QueueGood
  <2>3. ToSet(q) \cap S = {e \in Queued : e.time > t}
    BY <2>1 DEF Queued
  <2> QED BY <2>1, <2>2, <2>3 DEF After
<1>4. /\ \A e \in Queued : e.time \in Nat /\ e.conn \in Conn /\ e.seq \in Nat
      /\ \A e, f \in Queued : e.conn = f.conn => e = f
  BY EntriesOfChain DEF QueueGood, Queued
<1>5. PICK left : /\ left = QueuedAgain(rest, due, t) /\ Chain(left)
                  /\ ToSet(left) = ToSet(rest) \cup Again(t)
  <2>1. CASE m_ifTimeOutKick
    BY <1>3, <2>1 DEF QueuedAgain, Again
  <2>2. CASE ~m_ifTimeOutKick
    <3>1. PICK u \in Nat : u = t + m_iWaitTime
      BY WaitAssumption
    <3>2. PICK new : new = [i \in DOMAIN due |-> Entry(u, due[i].conn, due[i].seq)]
      OBVIOUS
    <3>3. Chain(new) /\ ToSet(new) = {Entry(u, e.conn, e.seq) : e \in Due}
      BY <1>2, <3>2, AgainChain
    <3>4. \A f \in ToSet(new) : f.time = u /\ \A e \in ToSet(rest) : e.conn # f.conn
      <4> SUFFICES ASSUME NEW g \in Due, NEW f, f = Entry(u, g.conn, g.seq)
                   PROVE  f.time = u /\ \A e \in ToSet(rest) : e.conn # f.conn
        BY <3>3
      <4>1. f.time = u /\ f.conn = g.conn
        BY DEF Entry
      <4>2. g \in Queued /\ g.time <= t
        BY <1>1 DEF Due
      <4>3. \A e \in ToSet(rest) : e \in Queued /\ e # g
        BY <1>3, <1>4, <4>2
      <4> QED BY <1>4, <4>1, <4>2, <4>3
    <3>5. PICK h : /\ h = Insert(rest, u, new) /\ Chain(h)
                   /\ ToSet(h) = ToSet(rest) \cup ToSet(new)
      BY <1>3, <3>3, <3>4, InsertChain
    <3>6. h = QueuedAgain(rest, due, t)
      BY <2>2, <3>1, <3>2, <3>5 DEF QueuedAgain
    <3>7. ToSet(new) = Again(t)
      BY <2>2, <3>1, <3>3 DEF Again
    <3> QED BY <3>5, <3>6, <3>7
  <2> QED BY <2>1, <2>2
<1>6. /\ m_timerQueuemap' = left
      /\ m_cur_size_' = m_cur_size_ - Len(q) + Len(left)
      /\ m_timer_value_' = IF due = <<>> THEN m_timer_value_
                           ELSE IF left # <<>> THEN left[1].time ELSE Last(due).time
      /\ monitor' = [monitor EXCEPT !.pc = "check", !.idle = due]
  BY <1>1, <1>2, <1>3, <1>5 DEF GetOverTimeTimers, GetEarliestTime
<1>7. m_cur_size_' = Len(left)
  <2>1. PICK k \in Nat, l \in Nat : k = Len(left) /\ l = Len(q)
    BY <1>5, LengthOfChain DEF QueueGood
  <2>2. m_cur_size_' = l - l + k
    BY <1>6, <2>1 DEF QueueGood
  <2> QED BY <2>1, <2>2
<1>8. /\ left # <<>> => left[1].time \in Nat /\ left[1] \in ToSet(left)
      /\ left # <<>> => \A e \in ToSet(left) : left[1].time <= e.time
      /\ left # <<>> <=> ToSet(left) # {}
  BY <1>5, EntriesOfChain
<1>9. ASSUME due = <<>> PROVE QueueGood'
  <2>1. Due = {} /\ ToSet(left) = Queued
    <3>1. Due = {}
      BY <1>2, <1>9, EmptyChain
    <3>2. Again(t) = {}
      BY <3>1 DEF Again
    <3>3. \A e \in Queued : e.time > t
      BY <1>1, <1>4, <3>1 DEF Due
    <3> QED BY <1>3, <1>5, <3>1, <3>2, <3>3
  <2>2. left # <<>> => m_timer_value_ = left[1].time
    <3> SUFFICES ASSUME left # <<>> PROVE m_timer_value_ = left[1].time
      OBVIOUS
    <3>1. /\ q # <<>> /\ q[1] \in Queued /\ q[1].time \in Nat
          /\ \A e \in Queued : q[1].time <= e.time
      BY <1>8, <2>1, EntriesOfChain DEF QueueGood, Queued
    <3>2. q[1].time <= left[1].time /\ left[1].time <= q[1].time /\ left[1].time \in Nat
      BY <1>8, <2>1, <3>1
    <3>3. q[1].time = left[1].time
      BY <3>1, <3>2
    <3> QED BY <3>1, <3>3 DEF QueueGood
  <2> QED BY <1>5, <1>6, <1>7, <1>9, <2>2 DEF QueueGood
<1>10. ASSUME due # <<>> PROVE QueueGood'
  <2>1. Last(due).time \in Nat
    <3>1. Len(due) \in 1..Len(due) /\ due[Len(due)] \in EntryType
      BY <1>2, <1>10 DEF Chain
    <3> QED BY <3>1 DEF Last, EntryType
  <2> QED BY <1>5, <1>6, <1>7, <1>8, <1>10, <2>1 DEF QueueGood
<1>11. monitor' = [pc |-> "check", cur_time |-> monitor.cur_time, idle |-> due]
  <2>1. monitor = [pc |-> monitor.pc, cur_time |-> monitor.cur_time, idle |-> monitor.idle]
    BY DEF TypeOK
  <2> QED BY <1>6, <2>1
<1>12. monitor'.idle = due
  BY <1>11
<1>13. QueueGood'
  BY <1>9, <1>10
<1>14. Queued' = {e \in Queued : e.time > monitor.cur_time} \cup Again(monitor.cur_time)
  BY <1>1, <1>3, <1>5, <1>6 DEF Queued
<1>15. Idle' = Due
  BY <1>2, <1>12 DEF Idle
<1> QED BY <1>2, <1>11, <1>12, <1>13, <1>14, <1>15

(* The steps *)

\* What the types say of the parts of the state.
LEMMA StateFacts ==
  ASSUME IInv
  PROVE  /\ now \in Nat /\ m_ifTimeOutKick \in BOOLEAN /\ polled \in BOOLEAN
         /\ \A c \in Conn : /\ iCurrsequence[c] \in Nat /\ lastPingTime[c] \in Nat
                           /\ admitted[c] \in Nat /\ late[c] \in BOOLEAN
         /\ monitor.pc \in {"sleep", "value", "lock", "check"} /\ monitor.cur_time \in Nat
         /\ monitor.idle \in Seq(EntryType)
         /\ monitor = [pc |-> monitor.pc, cur_time |-> monitor.cur_time, idle |-> monitor.idle]
         /\ \A e \in Queued \cup Idle : e.time \in Nat /\ e.conn \in Conn /\ e.seq \in Nat
         /\ \A e, f \in Queued : e.conn = f.conn => e = f
         /\ \A x \in Threads : /\ closing[x].pc \in {"idle", "delete", "recy"}
                             /\ closing[x].conn \in Conn \cup {NoConn}
         /\ QueueGood /\ m_iWaitTime \in Nat \ {0} /\ MaxSilence \in Nat /\ NoConn \notin Conn
<1>1. TypeOK /\ QueueGood
  BY GoodQueue DEF IInv
<1>2. /\ now \in Nat /\ m_ifTimeOutKick \in BOOLEAN /\ polled \in BOOLEAN
      /\ \A c \in Conn : /\ iCurrsequence[c] \in Nat /\ lastPingTime[c] \in Nat
                        /\ admitted[c] \in Nat /\ late[c] \in BOOLEAN
      /\ monitor.pc \in {"sleep", "value", "lock", "check"} /\ monitor.cur_time \in Nat
      /\ monitor.idle \in Seq(EntryType)
      /\ monitor = [pc |-> monitor.pc, cur_time |-> monitor.cur_time, idle |-> monitor.idle]
      /\ \A x \in Threads : /\ closing[x].pc \in {"idle", "delete", "recy"}
                          /\ closing[x].conn \in Conn \cup {NoConn}
  BY <1>1 DEF TypeOK
<1>3. /\ \A e \in Queued : e.time \in Nat /\ e.conn \in Conn /\ e.seq \in Nat
      /\ \A e, f \in Queued : e.conn = f.conn => e = f
  BY <1>1, EntriesOfChain DEF QueueGood, Queued
<1>4. \A e \in Idle : e.time \in Nat /\ e.conn \in Conn /\ e.seq \in Nat
  <2>1. Idle \subseteq EntryType
    BY <1>2, ToSetFinite DEF Idle
  <2> QED BY <2>1 DEF EntryType
<1>5. m_iWaitTime \in Nat \ {0} /\ MaxSilence \in Nat /\ NoConn \notin Conn
  BY WaitAssumption, NoConnAssumption DEF MaxSilence
<1> QED BY <1>1, <1>2, <1>3, <1>4, <1>5

\* The order of the queue after a step that leaves it alone, or keeps it good.
LEMMA StillInOrder ==
  /\ QueueInOrder /\ UNCHANGED queueVars => QueueInOrder'
  /\ QueueGood' => QueueInOrder' /\ m_timerQueuemap' \in Seq(EntryType) /\ m_timer_value_' \in Nat
                   /\ m_cur_size_' \in Int
<1>1. QueueInOrder /\ UNCHANGED queueVars => QueueInOrder'
  BY DEF QueueInOrder, queueVars, InTime, OnePerConnection
<1>2. ASSUME QueueGood'
      PROVE  QueueInOrder' /\ m_timerQueuemap' \in Seq(EntryType) /\ m_timer_value_' \in Nat
             /\ m_cur_size_' \in Int
  <2>1. PICK q : q = m_timerQueuemap' /\ Chain(q)
    BY <1>2 DEF QueueGood
  <2>2. Len(q) \in Nat
    BY <2>1, LengthOfChain
  <2> QED BY <1>2, <2>1, <2>2 DEF QueueGood, QueueInOrder, Chain
<1> QED BY <1>1, <1>2

\* ReadSize keeps the invariant: with nothing in the queue nothing is late.
LEMMA ReadSizeKeeps == IInv /\ ReadSize => IInv'
<1> SUFFICES ASSUME IInv, ReadSize PROVE IInv'
  OBVIOUS
<1>1. /\ monitor.pc = "sleep" /\ polled' = TRUE
      /\ monitor'.pc = (IF m_cur_size_ > 0 THEN "value" ELSE "sleep")
      /\ monitor'.cur_time = monitor.cur_time /\ monitor'.idle = monitor.idle
  BY StateFacts DEF ReadSize
<1>2. Queued' = Queued /\ Idle' = Idle
  BY <1>1 DEF ReadSize, queueVars, Queued, Idle
<1>3. TypeOK'
  BY <1>1 DEF ReadSize, queueVars, connVars, IInv, TypeOK
<1>4. QueueInOrder'
  BY StillInOrder DEF ReadSize, IInv
<1>5. ClosingKept'
  BY <1>2 DEF ReadSize, connVars, IInv, ClosingKept
<1>6. EntriesKept'
  BY <1>1, <1>2 DEF ReadSize, connVars, IInv, EntriesKept, Present, BeingClosed
<1>7. MonitorInTime'
  <2>1. ~(m_cur_size_ > 0) => Queued = {}
    <3>1. PICK n \in Nat : n = Len(m_timerQueuemap) /\ (n = 0 => m_timerQueuemap = <<>>)
      BY StateFacts DEF QueueGood, Chain
    <3> QED BY <3>1, EmptyChain, StateFacts DEF QueueGood, Queued
  <2> QED BY <1>1, <1>2, <2>1 DEF ReadSize, IInv, MonitorInTime
<1>8. EntriesInTime'
  BY <1>1, <1>2 DEF ReadSize, connVars, IInv, EntriesInTime, Present, BeingClosed
<1>9. NoEarlyKick' /\ ClosedInTime'
  BY DEF ReadSize, connVars, IInv, NoEarlyKick, ClosedInTime, Silent
<1> QED BY <1>3, <1>4, <1>5, <1>6, <1>7, <1>8, <1>9 DEF IInv

\* ReadTimerValue keeps it: the variable has the earliest time, so nothing is late when the
\* monitor goes to sleep.
LEMMA ReadTimerValueKeeps == IInv /\ ReadTimerValue => IInv'
<1> SUFFICES ASSUME IInv, ReadTimerValue PROVE IInv'
  OBVIOUS
<1>1. monitor.pc = "value" /\ polled /\ monitor.idle = <<>>
  BY DEF ReadTimerValue, IInv, MonitorInTime, EntriesKept
<1>2. \/ /\ monitor'.pc = "lock" /\ monitor'.cur_time = now /\ monitor'.idle = <<>>
      \/ /\ monitor'.pc = "sleep" /\ monitor'.cur_time = 0 /\ monitor'.idle = <<>>
         /\ \A e \in Queued : e.time >= now
  <2>1. CASE m_timer_value_ < now
    <3>1. monitor' = [monitor EXCEPT !.pc = "lock", !.cur_time = now]
      BY <2>1 DEF ReadTimerValue
    <3> QED BY <1>1, <3>1, StateFacts
  <2>2. CASE ~(m_timer_value_ < now)
    <3>1. monitor' = Asleep
      BY <2>2 DEF ReadTimerValue
    <3>2. ASSUME NEW e \in Queued PROVE e.time >= now
      <4>1. PICK q : q = m_timerQueuemap /\ Chain(q)
        BY StateFacts DEF QueueGood
      <4>2. q # <<>> /\ q[1].time <= e.time /\ q[1].time \in Nat /\ e.time \in Nat
        BY <4>1, EntriesOfChain DEF Queued
      <4>3. q[1].time = m_timer_value_
        BY <4>1, <4>2, StateFacts DEF QueueGood
      <4>4. q[1].time >= now
        BY <2>2, <4>2, <4>3, StateFacts
      <4> QED BY <4>2, <4>4, StateFacts
    <3> QED BY <3>1, <3>2 DEF Asleep
  <2> QED BY <2>1, <2>2
<1>3. Queued' = Queued /\ Idle' = Idle
  BY <1>1, <1>2 DEF ReadTimerValue, queueVars, Queued, Idle
<1>4. TypeOK'
  <2>1. monitor' \in [pc : {"sleep", "value", "lock", "check"},
                      cur_time : Nat, idle : Seq(EntryType)]
    <3>1. CASE m_timer_value_ < now
      BY <3>1, StateFacts DEF ReadTimerValue
    <3>2. CASE ~(m_timer_value_ < now)
      BY <3>2 DEF ReadTimerValue, Asleep
    <3> QED BY <3>1, <3>2
  <2> QED BY <2>1 DEF ReadTimerValue, clockVars, queueVars, connVars, IInv, TypeOK
<1>5. QueueInOrder'
  BY StillInOrder DEF ReadTimerValue, IInv
<1>6. ClosingKept'
  BY <1>3 DEF ReadTimerValue, connVars, IInv, ClosingKept
<1>7. EntriesKept'
  BY <1>1, <1>2, <1>3 DEF ReadTimerValue, connVars, IInv, EntriesKept, Present, BeingClosed
<1>8. MonitorInTime'
  BY <1>1, <1>2, <1>3 DEF ReadTimerValue, clockVars, IInv, MonitorInTime
<1>9. EntriesInTime'
  <2>1. Idle = {}
    BY <1>1, EmptyChain DEF Idle
  <2> QED BY <1>1, <1>2, <1>3, <2>1
          DEF ReadTimerValue, clockVars, connVars, IInv, EntriesInTime, Present, BeingClosed
<1>10. NoEarlyKick' /\ ClosedInTime'
  BY DEF ReadTimerValue, clockVars, connVars, IInv, NoEarlyKick, ClosedInTime, Silent
<1> QED BY <1>4, <1>5, <1>6, <1>7, <1>8, <1>9, <1>10 DEF IInv

\* GoToSleep keeps it.
LEMMA GoToSleepKeeps == IInv /\ GoToSleep => IInv'
<1> SUFFICES ASSUME IInv, GoToSleep PROVE IInv'
  OBVIOUS
<1>1. /\ monitor.pc = "check" /\ monitor.idle = <<>>
      /\ monitor'.pc = "sleep" /\ monitor'.cur_time = 0 /\ monitor'.idle = <<>>
  BY DEF GoToSleep, Asleep
<1>2. Queued' = Queued /\ Idle' = {} /\ Idle = {}
  BY <1>1, EmptyChain DEF GoToSleep, queueVars, Queued, Idle
<1>3. TypeOK'
  BY DEF GoToSleep, Asleep, clockVars, queueVars, connVars, IInv, TypeOK
<1>4. QueueInOrder'
  BY StillInOrder DEF GoToSleep, IInv
<1>5. ClosingKept'
  BY <1>2 DEF GoToSleep, connVars, IInv, ClosingKept
<1>6. EntriesKept'
  BY <1>1, <1>2 DEF GoToSleep, connVars, IInv, EntriesKept, Present, BeingClosed, OnePerConnection
<1>7. MonitorInTime'
  BY <1>1, <1>2, StateFacts DEF GoToSleep, clockVars, IInv, MonitorInTime
<1>8. EntriesInTime'
  BY <1>1, <1>2 DEF GoToSleep, clockVars, connVars, IInv, EntriesInTime, Present, BeingClosed
<1>9. NoEarlyKick' /\ ClosedInTime'
  BY DEF GoToSleep, clockVars, connVars, IInv, NoEarlyKick, ClosedInTime, Silent
<1> QED BY <1>3, <1>4, <1>5, <1>6, <1>7, <1>8, <1>9 DEF IInv

\* GetOverTimeTimers keeps it: what is due is late by a second at the most, and each entry
\* is queued again or, with Sock_TimeOutKick, only in the list of the monitor.
LEMMA GetOverKeeps == IInv /\ GetOverTimeTimers => IInv'
<1> SUFFICES ASSUME IInv, GetOverTimeTimers PROVE IInv'
  OBVIOUS
<1>1. /\ monitor.pc = "lock" /\ Idle = {}
      /\ UNCHANGED <<m_ifTimeOutKick, clockVars, connVars, closing>>
  BY EmptyChain DEF GetOverTimeTimers, IInv, EntriesKept, Idle
<1>2. PICK t \in Nat : t = monitor.cur_time
  BY StateFacts
<1>3. /\ QueueGood' /\ Chain(monitor'.idle) /\ Idle' = Due
      /\ Queued' = {e \in Queued : e.time > t} \cup Again(t)
      /\ monitor' = [pc |-> "check", cur_time |-> t, idle |-> monitor'.idle]
  BY <1>2, GetOverMoves, StateFacts DEF IInv
<1>4. monitor'.pc = "check" /\ monitor'.cur_time = t
  BY <1>3
<1>5. /\ \A e \in Due : e \in Queued /\ e.time <= t
      /\ \A e \in Queued : e \in Due \/ e.time > t
  BY <1>2, StateFacts DEF Due
<1>6. \A e \in Again(t) : /\ ~m_ifTimeOutKick /\ e.time = t + m_iWaitTime
                          /\ \E f \in Due : e.conn = f.conn /\ e.seq = f.seq
  BY DEF Again, Entry
<1>7. ASSUME NEW f \in Due, ~m_ifTimeOutKick PROVE \E e \in Again(t) : e.conn = f.conn
  <2>1. PICK e : e = Entry(t + m_iWaitTime, f.conn, f.seq)
    OBVIOUS
  <2>2. e \in Again(t)
    BY <1>7, <2>1 DEF Again
  <2>3. e.conn = f.conn
    BY <2>1 DEF Entry
  <2> QED BY <2>2, <2>3
<1>8. TypeOK'
  <2>1. monitor' \in [pc : {"sleep", "value", "lock", "check"},
                      cur_time : Nat, idle : Seq(EntryType)]
    <3>1. monitor'.idle \in Seq(EntryType)
      BY <1>3 DEF Chain
    <3> QED BY <1>3, <3>1
  <2> QED BY <1>1, <1>3, <2>1, StillInOrder DEF clockVars, connVars, IInv, TypeOK
<1>9. QueueInOrder'
  BY <1>3, StillInOrder
<1>10. ClosingKept'
  BY <1>1, <1>3, <1>5, <1>6 DEF connVars, IInv, ClosingKept
<1>11. EntriesKept'
  <2>1. \A e \in Queued : Present(e) /\ phase[e.conn] = "online"
    BY DEF IInv, EntriesKept
  <2>2. \A e : Present(e)' <=> Present(e)
    BY <1>1 DEF connVars, Present
  <2>3. \A e \in Queued' : Present(e)' /\ phase'[e.conn] = "online"
    BY <1>1, <1>3, <1>5, <1>6, <2>1 DEF connVars, Present
  <2>4. OnePerConnection(monitor'.idle)
    BY <1>3 DEF Chain
  <2>5. ASSUME NEW e \in Idle'
        PROVE  /\ e.seq <= iCurrsequence'[e.conn]
               /\ phase'[e.conn] = "online"
               /\ m_ifTimeOutKick' => \A f \in Queued' : f.conn # e.conn
    <3>1. e \in Queued /\ e.time <= t /\ e.time \in Nat /\ e.conn \in Conn /\ e.seq \in Nat
      BY <1>3, <1>5, StateFacts
    <3>2. e.seq = iCurrsequence[e.conn] /\ phase[e.conn] = "online"
      BY <2>1, <3>1 DEF Present
    <3>3. ASSUME m_ifTimeOutKick, NEW f \in Queued' PROVE f.conn # e.conn
      <4>1. f \in Queued /\ f.time > t /\ f.time \in Nat
        BY <1>3, <1>6, <3>3, StateFacts
      <4>2. f # e
        BY <3>1, <4>1
      <4> QED BY <3>1, <4>1, <4>2, StateFacts
    <3> QED BY <1>1, <3>1, <3>2, <3>3, StateFacts DEF connVars
  <2>6. ASSUME NEW c \in Conn, phase'[c] = "online", ~BeingClosed(c)'
        PROVE  \/ \E e \in Queued' : e.conn = c
               \/ m_ifTimeOutKick' /\ \E e \in Idle' : e.conn = c /\ Present(e)'
    <3>1. PICK e \in Queued : e.conn = c
      BY <1>1, <2>6 DEF connVars, IInv, EntriesKept, BeingClosed
    <3>2. CASE e.time > t
      BY <1>3, <3>1, <3>2
    <3>3. CASE e \in Due /\ m_ifTimeOutKick
      BY <1>1, <1>3, <2>1, <2>2, <3>1, <3>3
    <3>4. CASE e \in Due /\ ~m_ifTimeOutKick
      BY <1>3, <1>7, <3>1, <3>4
    <3> QED BY <1>5, <3>2, <3>3, <3>4, StateFacts
  <2> QED BY <1>4, <2>3, <2>4, <2>5, <2>6 DEF EntriesKept
<1>12. MonitorInTime'
  <2>1. t = now \/ t + 1 = now
    BY <1>1, <1>2 DEF IInv, MonitorInTime
  <2>2. now \in Nat /\ m_iWaitTime \in Nat \ {0} /\ \A e \in Queued : e.time \in Nat
    BY StateFacts
  <2>3. ASSUME NEW e \in Queued' PROVE e.time >= now /\ e.time >= now - 1 /\ e.time >= now - 2
    <3>1. CASE e \in Queued /\ e.time > t
      BY <2>1, <2>2, <3>1
    <3>2. CASE e \in Again(t)
      BY <1>6, <2>1, <2>2, <3>2
    <3> QED BY <1>3, <3>1, <3>2
  <2>4. t \in {now, now - 1}
    BY <2>1, <2>2
  <2> QED BY <1>1, <1>4, <2>3, <2>4 DEF clockVars, MonitorInTime
<1>13. EntriesInTime'
  <2>1. ASSUME m_ifTimeOutKick, NEW e \in Queued' \cup Idle', Present(e)'
        PROVE  e.time = admitted'[e.conn] + m_iWaitTime
    <3>1. e \in Queued
      BY <1>3, <1>5, <1>6, <2>1
    <3> QED BY <1>1, <2>1, <3>1 DEF connVars, IInv, EntriesInTime, Present
  <2>2. ASSUME ~m_ifTimeOutKick, NEW e \in Queued'
        PROVE  \/ e.time - m_iWaitTime - lastPingTime'[e.conn] <= MaxSilence
               \/ BeingClosed(e.conn)'
               \/ /\ e.time = t + m_iWaitTime
                  /\ \E f \in Idle' : f.conn = e.conn /\ Present(f)'
    <3>1. CASE e \in Queued
      BY <1>1, <2>2, <3>1 DEF connVars, IInv, EntriesInTime, BeingClosed
    <3>2. CASE e \in Again(t)
      <4>1. PICK f \in Due : e.conn = f.conn
        BY <1>6, <3>2
      <4>2. Present(f)'
        BY <1>1, <1>5 DEF connVars, IInv, EntriesKept, Present
      <4> QED BY <1>3, <1>6, <3>2, <4>1, <4>2
    <3> QED BY <1>3, <3>1, <3>2
  <2> QED BY <1>1, <1>3, <1>4, <1>5, <2>1, <2>2 DEF clockVars, connVars, IInv, EntriesInTime
<1>14. NoEarlyKick' /\ ClosedInTime'
  BY <1>1 DEF clockVars, connVars, IInv, NoEarlyKick, ClosedInTime, Silent
<1> QED BY <1>8, <1>9, <1>10, <1>11, <1>12, <1>13, <1>14 DEF IInv

\* The list of the monitor without its first entry.
LEMMA RestOfList ==
  ASSUME NEW q \in Seq(EntryType), q # <<>>, OnePerConnection(q)
  PROVE  /\ Tail(q) \in Seq(EntryType) /\ OnePerConnection(Tail(q)) /\ Head(q) \in EntryType
         /\ ToSet(q) = ToSet(Tail(q)) \cup {Head(q)}
<1>1. IsInjective(q)
  BY DEF OnePerConnection, IsInjective
<1>2. /\ Tail(q) \in Seq(EntryType) /\ Head(q) \in EntryType
      /\ ToSet(q) = ToSet(Tail(q)) \cup {Head(q)}
  BY <1>1, TailFacts
<1>3. PICK n \in Nat : /\ DOMAIN Tail(q) = 1..n
                       /\ \A i \in 1..n : i + 1 \in DOMAIN q /\ Tail(q)[i] = q[i + 1]
  <2>1. /\ Len(q) \in Nat \ {0} /\ DOMAIN q = 1..Len(q) /\ DOMAIN Tail(q) = 1..(Len(q) - 1)
        /\ \A i \in 1..(Len(q) - 1) : Tail(q)[i] = q[i + 1]
    OBVIOUS
  <2>2. \A i \in 1..(Len(q) - 1) : i + 1 \in 1..Len(q)
    BY <2>1
  <2>3. Len(q) - 1 \in Nat
    BY <2>1
  <2> QED BY <2>1, <2>2, <2>3
<1>4. PICK r : r = Tail(q)
  OBVIOUS
<1>5. OnePerConnection(r)
  <2>1. \A i, j \in 1..n : r[i].conn = r[j].conn => i = j
    <3>1. \A i, j \in DOMAIN q : q[i].conn = q[j].conn => i = j
      BY Zenon DEF OnePerConnection
    <3> SUFFICES ASSUME NEW i \in 1..n, NEW j \in 1..n, r[i].conn = r[j].conn PROVE i = j
      OBVIOUS
    <3>2. i + 1 \in DOMAIN q /\ j + 1 \in DOMAIN q /\ q[i + 1].conn = q[j + 1].conn
      BY <1>3, <1>4
    <3>3. i + 1 = j + 1
      BY <3>1, <3>2, Zenon
    <3> QED BY <3>3
  <2>2. PICK D : D = DOMAIN r
    OBVIOUS
  <2>3. \A i, j \in D : r[i].conn = r[j].conn => i = j
    BY <1>3, <1>4, <2>1, <2>2
  <2> QED BY <2>2, <2>3, Zenon DEF OnePerConnection
<1> QED BY <1>2, <1>4, <1>5

\* procPingTimeOutChecking keeps it: who is not closed now was heard of in time when the
\* entry came out of the queue.
LEMMA PingCheckKeeps == IInv /\ procPingTimeOutChecking => IInv'
<1> SUFFICES ASSUME IInv, procPingTimeOutChecking PROVE IInv'
  OBVIOUS
<1>1. PICK e \in EntryType :
        /\ e = Head(monitor.idle) /\ Idle = Idle' \cup {e} /\ OnePerConnection(monitor'.idle)
        /\ monitor'.pc = "check" /\ monitor.pc = "check" /\ monitor'.cur_time = monitor.cur_time
        /\ monitor'.idle \in Seq(EntryType)
        /\ monitor' = [pc |-> "check", cur_time |-> monitor.cur_time, idle |-> monitor'.idle]
  <2>1. PICK q \in Seq(EntryType) : q = monitor.idle /\ q # <<>> /\ OnePerConnection(q)
    BY StateFacts DEF procPingTimeOutChecking, IInv, EntriesKept
  <2>2. /\ Tail(q) \in Seq(EntryType) /\ OnePerConnection(Tail(q)) /\ Head(q) \in EntryType
        /\ ToSet(q) = ToSet(Tail(q)) \cup {Head(q)}
    BY <2>1, RestOfList
  <2>3. PICK r : r = Tail(q)
    OBVIOUS
  <2>4. monitor' = [monitor EXCEPT !.idle = r] /\ monitor.pc = "check"
    BY <2>1, <2>3 DEF procPingTimeOutChecking
  <2>5. /\ monitor'.pc = "check" /\ monitor'.idle = r /\ monitor'.cur_time = monitor.cur_time
        /\ monitor' = [pc |-> "check", cur_time |-> monitor.cur_time, idle |-> r]
    BY <2>4, StateFacts
  <2>6. Idle = Idle' \cup {Head(q)}
    BY <2>1, <2>2, <2>3, <2>5 DEF Idle
  <2> QED BY <2>1, <2>2, <2>3, <2>4, <2>5, <2>6
<1>2. /\ e \in Idle /\ e.conn \in Conn /\ e.time \in Nat /\ e.seq \in Nat
      /\ \A f \in Idle' : f \in Idle
  BY <1>1 DEF EntryType
<1>3. /\ UNCHANGED <<m_ifTimeOutKick, clockVars, queueVars, connVars>>
      /\ Queued' = Queued
  BY DEF procPingTimeOutChecking, queueVars, Queued
<1>4. closing["monitor"].pc = "idle" /\ closing["monitor"].conn = NoConn /\ "monitor" \in Threads
  BY DEF procPingTimeOutChecking, IInv, ClosingKept, Threads
<1>5. /\ \A x \in Threads : x # "monitor" => closing'[x] = closing[x]
      /\ TooLate(e) => closing'["monitor"] = [pc |-> "delete", conn |-> e.conn]
      /\ ~TooLate(e) => closing' = closing
  BY <1>1, <1>4 DEF procPingTimeOutChecking, IInv, TypeOK
<1>6. TooLate(e) => Present(e) /\ phase[e.conn] = "online"
  BY <1>2 DEF TooLate, Present, IInv, EntriesKept
<1>7. \A c \in Conn : /\ BeingClosed(c) => BeingClosed(c)'
                      /\ TooLate(e) /\ c = e.conn => BeingClosed(c)'
  <2>1. \A c \in Conn : c # NoConn
    BY StateFacts
  <2> QED BY <1>4, <1>5, <2>1 DEF BeingClosed
<1>8. TypeOK'
  <2>1. closing' \in [Threads -> [pc : {"idle", "delete", "recy"}, conn : Conn \cup {NoConn}]]
    <3>1. closing \in [Threads -> [pc : {"idle", "delete", "recy"}, conn : Conn \cup {NoConn}]]
      BY DEF IInv, TypeOK
    <3>2. closing' = [closing EXCEPT !["monitor"] = [pc |-> "delete", conn |-> e.conn]]
          \/ closing' = closing
      BY <1>1 DEF procPingTimeOutChecking
    <3> QED BY <1>2, <1>4, <3>1, <3>2
  <2>2. monitor' \in [pc : {"sleep", "value", "lock", "check"},
                      cur_time : Nat, idle : Seq(EntryType)]
    BY <1>1, StateFacts
  <2> QED BY <1>3, <2>1, <2>2 DEF clockVars, queueVars, connVars, IInv, TypeOK
<1>9. QueueInOrder'
  BY <1>3, StillInOrder DEF IInv
<1>10. ClosingKept'
  <2>1. e.conn # NoConn
    BY <1>2, StateFacts
  <2>2. ASSUME NEW x \in Threads
        PROVE  /\ closing'[x].pc = "idle" <=> closing'[x].conn = NoConn
               /\ \A c \in Conn : closing'[x].conn = c =>
                    /\ phase[c] \in {"online", "closed"}
                    /\ closing'[x].pc = "recy" => \A f \in Queued : f.conn # c
    <3>1. \/ closing'[x] = closing[x]
          \/ TooLate(e) /\ closing'[x] = [pc |-> "delete", conn |-> e.conn]
      BY <1>5
    <3>2. CASE closing'[x] = closing[x]
      BY <3>2 DEF IInv, ClosingKept
    <3>3. CASE TooLate(e) /\ closing'[x] = [pc |-> "delete", conn |-> e.conn]
      BY <1>6, <2>1, <3>3
    <3> QED BY <3>1, <3>2, <3>3
  <2> QED BY <1>3, <2>2 DEF connVars, ClosingKept
<1>11. EntriesKept'
  <2>1. \A f : Present(f)' <=> Present(f)
    BY <1>3 DEF connVars, Present
  <2>2. ASSUME NEW c \in Conn, phase[c] = "online", ~BeingClosed(c)'
        PROVE  \/ \E f \in Queued : f.conn = c
               \/ m_ifTimeOutKick /\ \E f \in Idle' : f.conn = c /\ Present(f)
    <3>1. \/ \E f \in Queued : f.conn = c
          \/ m_ifTimeOutKick /\ \E f \in Idle : f.conn = c /\ Present(f)
      BY <1>7, <2>2 DEF IInv, EntriesKept
    <3>2. ~(m_ifTimeOutKick /\ Present(e) /\ e.conn = c)
      BY <1>7, <2>2 DEF TooLate, Present
    <3> QED BY <1>1, <3>1, <3>2
  <2>3. /\ \A f \in Queued : Present(f) /\ phase[f.conn] = "online"
        /\ \A f \in Idle' : /\ f.seq <= iCurrsequence[f.conn]
                            /\ Present(f) => phase[f.conn] = "online"
                            /\ m_ifTimeOutKick /\ Present(f) => \A g \in Queued : g.conn # f.conn
    BY <1>2 DEF IInv, EntriesKept
  <2>4. \A f \in Queued' : Present(f)' /\ phase'[f.conn] = "online"
    BY <1>3, <2>1, <2>3 DEF connVars
  <2>5. ASSUME NEW f \in Idle'
        PROVE  /\ f.seq <= iCurrsequence'[f.conn]
               /\ Present(f)' => phase'[f.conn] = "online"
               /\ m_ifTimeOutKick' /\ Present(f)' => \A g \in Queued' : g.conn # f.conn
    <3>1. Present(f)' <=> Present(f)
      BY <1>3 DEF connVars, Present
    <3>2. /\ f.seq <= iCurrsequence[f.conn]
          /\ Present(f) => phase[f.conn] = "online"
          /\ m_ifTimeOutKick /\ Present(f) => \A g \in Queued : g.conn # f.conn
      <4>1. f \in Idle
        BY <1>2
      <4> QED BY <4>1 DEF IInv, EntriesKept
    <3> QED BY <1>3, <3>1, <3>2 DEF connVars
  <2>6. ASSUME NEW c \in Conn, phase'[c] = "online", ~BeingClosed(c)'
        PROVE  \/ \E f \in Queued' : f.conn = c
               \/ m_ifTimeOutKick' /\ \E f \in Idle' : f.conn = c /\ Present(f)'
    BY <1>3, <2>1, <2>2, <2>6 DEF connVars
  <2> QED BY <1>1, <2>4, <2>5, <2>6 DEF EntriesKept
<1>12. MonitorInTime'
  BY <1>1, <1>3 DEF clockVars, IInv, MonitorInTime
<1>13. EntriesInTime'
  <2>1. \A f : Present(f)' <=> Present(f)
    BY <1>3 DEF connVars, Present
  <2>2. ASSUME ~m_ifTimeOutKick, NEW g \in Queued
        PROVE  \/ g.time - m_iWaitTime - lastPingTime[g.conn] <= MaxSilence
               \/ BeingClosed(g.conn)'
               \/ /\ g.time = monitor.cur_time + m_iWaitTime
                  /\ \E f \in Idle' : f.conn = g.conn /\ Present(f)
    <3>1. g.conn \in Conn /\ g.time \in Nat
      BY StateFacts
    <3>2. CASE \/ g.time - m_iWaitTime - lastPingTime[g.conn] <= MaxSilence
               \/ BeingClosed(g.conn)
      BY <1>7, <3>1, <3>2
    <3>3. CASE /\ g.time = monitor.cur_time + m_iWaitTime
               /\ \E f \in Idle : f.conn = g.conn /\ Present(f)
      <4>1. CASE \E f \in Idle' : f.conn = g.conn /\ Present(f)
        BY <3>3, <4>1
      <4>2. CASE e.conn = g.conn /\ Present(e)
        <5>1. CASE TooLate(e)
          BY <1>7, <3>1, <4>2, <5>1
        <5>2. CASE ~TooLate(e)
          <6>1. ~(monitor.cur_time - lastPingTime[g.conn] > MaxSilence)
            BY <2>2, <4>2, <5>2 DEF TooLate, Present, Silent
          <6>2. /\ monitor.cur_time \in Nat /\ lastPingTime[g.conn] \in Nat /\ MaxSilence \in Nat
                /\ m_iWaitTime \in Nat
            BY <3>1, StateFacts
          <6> QED BY <3>3, <6>1, <6>2
        <5> QED BY <5>1, <5>2
      <4> QED BY <1>1, <3>3, <4>1, <4>2
    <3> QED BY <2>2, <3>2, <3>3 DEF IInv, EntriesInTime
  <2>3. m_ifTimeOutKick =>
          \A f \in Queued \cup Idle' : Present(f) => f.time = admitted[f.conn] + m_iWaitTime
    BY <1>2 DEF IInv, EntriesInTime
  <2>4. /\ \A c \in Conn : admitted[c] <= lastPingTime[c] /\ lastPingTime[c] <= now
        /\ \A c \in Conn : phase[c] = "accepted" => lastPingTime[c] = now /\ admitted[c] = now
        /\ \A f \in Idle' : f.time <= monitor.cur_time
    BY <1>2 DEF IInv, EntriesInTime
  <2> QED BY <1>1, <1>3, <2>1, <2>2, <2>3, <2>4 DEF clockVars, connVars, EntriesInTime
<1>14. NoEarlyKick'
  <2>1. CASE TooLate(e)
    <3>1. monitor.cur_time \in Nat /\ now \in Nat /\ monitor.cur_time <= now
      BY <1>1, StateFacts DEF IInv, MonitorInTime
    <3>2. CASE m_ifTimeOutKick
      <4>1. e.time = admitted[e.conn] + m_iWaitTime /\ e.time <= monitor.cur_time
        BY <1>2, <1>6, <2>1, <3>2 DEF IInv, EntriesInTime
      <4>2. now >= admitted[e.conn] + m_iWaitTime
        BY <1>2, <3>1, <4>1
      <4> QED BY <1>3, <1>5, <2>1, <3>2, <4>2 DEF clockVars, connVars, NoEarlyKick
    <3>3. CASE ~m_ifTimeOutKick
      <4>1. monitor.cur_time - lastPingTime[e.conn] > MaxSilence
        BY <2>1, <3>3 DEF TooLate, Silent
      <4>2. lastPingTime[e.conn] \in Nat /\ MaxSilence \in Nat
        BY <1>2, StateFacts
      <4>3. now - lastPingTime[e.conn] > MaxSilence
        BY <3>1, <4>1, <4>2
      <4> QED BY <1>3, <1>5, <2>1, <3>3, <4>3 DEF clockVars, connVars, NoEarlyKick, Silent
    <3> QED BY <3>2, <3>3
  <2>2. CASE ~TooLate(e)
    BY <1>3, <1>4, <1>5, <2>2 DEF NoEarlyKick
  <2> QED BY <2>1, <2>2
<1>15. ClosedInTime'
  BY <1>3 DEF clockVars, connVars, IInv, ClosedInTime
<1> QED BY <1>8, <1>9, <1>10, <1>11, <1>12, <1>13, <1>14, <1>15 DEF IInv

\* StartClose keeps it: the user is in the queue no longer than until the connection is closed.
LEMMA StartCloseKeeps ==
  ASSUME IInv, NEW x \in Others, NEW c \in Conn, StartClose(x, c)
  PROVE  IInv'
<1>1. /\ closing[x].pc = "idle" /\ closing[x].conn = NoConn /\ x \in Threads /\ x # "monitor"
      /\ phase[c] = "online" /\ c # NoConn
  BY NoConnAssumption DEF StartClose, IInv, ClosingKept, Threads
<1>2. UNCHANGED <<m_ifTimeOutKick, clockVars, queueVars, connVars, monitor>>
  BY DEF StartClose
<1>3. Queued' = Queued /\ Idle' = Idle
  BY <1>2 DEF queueVars, Queued, Idle
<1>4. /\ \A y \in Threads : y # x => closing'[y] = closing[y]
      /\ closing'[x] = [pc |-> "delete", conn |-> c]
  BY <1>1 DEF StartClose, IInv, TypeOK
<1>5. \A d \in Conn : BeingClosed(d) => BeingClosed(d)'
  <2>1. \A d \in Conn : d # NoConn
    BY StateFacts
  <2> QED BY <1>1, <1>4, <2>1 DEF BeingClosed
<1>6. \A e : Present(e)' <=> Present(e)
  BY <1>2 DEF connVars, Present
<1>7. TypeOK'
  <2>1. closing' \in [Threads -> [pc : {"idle", "delete", "recy"}, conn : Conn \cup {NoConn}]]
    BY <1>1 DEF StartClose, IInv, TypeOK
  <2> QED BY <1>2, <2>1 DEF clockVars, queueVars, connVars, IInv, TypeOK
<1>8. QueueInOrder'
  BY <1>2, StillInOrder DEF IInv
<1>9. ClosingKept'
  <2>1. ASSUME NEW y \in Threads
        PROVE  /\ closing'[y].pc = "idle" <=> closing'[y].conn = NoConn
               /\ \A d \in Conn : closing'[y].conn = d =>
                    /\ phase[d] \in {"online", "closed"}
                    /\ closing'[y].pc = "recy" => \A f \in Queued : f.conn # d
    <3>1. CASE y # x
      BY <1>4, <3>1 DEF IInv, ClosingKept
    <3>2. CASE y = x
      BY <1>1, <1>4, <3>2
    <3> QED BY <3>1, <3>2
  <2> QED BY <1>2, <1>3, <2>1 DEF connVars, ClosingKept
<1>10. EntriesKept'
  <2>1. ASSUME NEW d \in Conn, phase'[d] = "online", ~BeingClosed(d)'
        PROVE  \/ \E f \in Queued' : f.conn = d
               \/ m_ifTimeOutKick' /\ \E f \in Idle' : f.conn = d /\ Present(f)'
    <3>1. phase[d] = "online" /\ ~BeingClosed(d)
      BY <1>2, <1>5, <2>1 DEF connVars
    <3>2. \/ \E f \in Queued : f.conn = d
          \/ m_ifTimeOutKick /\ \E f \in Idle : f.conn = d /\ Present(f)
      BY <3>1 DEF IInv, EntriesKept
    <3> QED BY <1>2, <1>3, <1>6, <3>2
  <2>2. ASSUME NEW f \in Idle'
        PROVE  /\ f.seq <= iCurrsequence'[f.conn]
               /\ Present(f)' => phase'[f.conn] = "online"
               /\ m_ifTimeOutKick' /\ Present(f)' => \A g \in Queued' : g.conn # f.conn
    <3>1. Present(f)' <=> Present(f)
      BY <1>6
    <3>2. f \in Idle
      BY <1>3
    <3>3. /\ f.seq <= iCurrsequence[f.conn]
          /\ Present(f) => phase[f.conn] = "online"
          /\ m_ifTimeOutKick /\ Present(f) => \A g \in Queued : g.conn # f.conn
      BY <3>2 DEF IInv, EntriesKept
    <3> QED BY <1>2, <1>3, <3>1, <3>3 DEF connVars
  <2>3. \A f \in Queued' : Present(f)' /\ phase'[f.conn] = "online"
    BY <1>2, <1>3, <1>6 DEF connVars, IInv, EntriesKept
  <2>4. OnePerConnection(monitor'.idle) /\ (monitor'.pc # "check" => monitor'.idle = <<>>)
    BY <1>2 DEF IInv, EntriesKept
  <2> QED BY <2>1, <2>2, <2>3, <2>4 DEF EntriesKept
<1>11. MonitorInTime'
  BY <1>2, <1>3 DEF clockVars, IInv, MonitorInTime
<1>12. EntriesInTime'
  <2>1. ASSUME ~m_ifTimeOutKick, NEW g \in Queued
        PROVE  \/ g.time - m_iWaitTime - lastPingTime[g.conn] <= MaxSilence
               \/ BeingClosed(g.conn)'
               \/ /\ g.time = monitor.cur_time + m_iWaitTime
                  /\ \E f \in Idle : f.conn = g.conn /\ Present(f)
    <3>1. g.conn \in Conn
      BY StateFacts
    <3>2. \/ g.time - m_iWaitTime - lastPingTime[g.conn] <= MaxSilence
          \/ BeingClosed(g.conn)
          \/ /\ g.time = monitor.cur_time + m_iWaitTime
             /\ \E f \in Idle : f.conn = g.conn /\ Present(f)
      BY <2>1 DEF IInv, EntriesInTime
    <3> QED BY <1>5, <3>1, <3>2
  <2>2. /\ m_ifTimeOutKick =>
             \A f \in Queued \cup Idle : Present(f) => f.time = admitted[f.conn] + m_iWaitTime
        /\ \A d \in Conn : admitted[d] <= lastPingTime[d] /\ lastPingTime[d] <= now
        /\ \A d \in Conn : phase[d] = "accepted" => lastPingTime[d] = now /\ admitted[d] = now
        /\ \A f \in Idle : f.time <= monitor.cur_time
    BY DEF IInv, EntriesInTime
  <2> QED BY <1>2, <1>3, <1>6, <2>1, <2>2 DEF clockVars, connVars, EntriesInTime
<1>13. NoEarlyKick'
  <2>1. closing'["monitor"] = closing["monitor"]
    BY <1>1, <1>4 DEF Threads
  <2> QED BY <1>2, <2>1 DEF clockVars, connVars, IInv, NoEarlyKick, Silent
<1>14. ClosedInTime'
  BY <1>2 DEF clockVars, connVars, IInv, ClosedInTime
<1> QED BY <1>7, <1>8, <1>9, <1>10, <1>11, <1>12, <1>13, <1>14 DEF IInv

\* DeleteFromTimerQueue keeps it: only the entry of the connection being closed goes.
LEMMA CloseDeleteKeeps ==
  ASSUME IInv, NEW x \in Threads, CloseDelete(x)
  PROVE  IInv'
<1>1. PICK c \in Conn : c = closing[x].conn /\ c # NoConn
  <2>1. closing[x].conn # NoConn
    BY DEF CloseDelete, IInv, ClosingKept
  <2> QED BY <2>1, StateFacts
<1>2. UNCHANGED <<m_ifTimeOutKick, clockVars, connVars, monitor>>
  BY DEF CloseDelete
<1>3. QueueGood' /\ Queued' = {e \in Queued : e.conn # c}
  BY <1>1, StateFacts, DeleteMoves DEF CloseDelete
<1>4. /\ \A y \in Threads : y # x => closing'[y] = closing[y]
      /\ closing'[x] = [pc |-> "recy", conn |-> c]
  <2>1. closing \in [Threads -> [pc : {"idle", "delete", "recy"}, conn : Conn \cup {NoConn}]]
    BY DEF IInv, TypeOK
  <2>2. closing' = [closing EXCEPT ![x].pc = "recy"]
    BY DEF CloseDelete
  <2> QED BY <1>1, <2>1, <2>2
<1>5. \A d \in Conn : BeingClosed(d)' <=> BeingClosed(d)
  BY <1>1, <1>4 DEF BeingClosed
<1>6. BeingClosed(c)
  BY <1>1 DEF BeingClosed
<1>7. \A e : Present(e)' <=> Present(e)
  BY <1>2 DEF connVars, Present
<1>8. Idle' = Idle
  BY <1>2 DEF Idle
<1>9. TypeOK'
  <2>1. closing' \in [Threads -> [pc : {"idle", "delete", "recy"}, conn : Conn \cup {NoConn}]]
    BY DEF CloseDelete, IInv, TypeOK
  <2> QED BY <1>2, <1>3, <2>1, StillInOrder DEF clockVars, connVars, IInv, TypeOK
<1>10. QueueInOrder'
  BY <1>3, StillInOrder
<1>11. ClosingKept'
  <2>1. ASSUME NEW y \in Threads
        PROVE  /\ closing'[y].pc = "idle" <=> closing'[y].conn = NoConn
               /\ \A d \in Conn : closing'[y].conn = d =>
                    /\ phase[d] \in {"online", "closed"}
                    /\ closing'[y].pc = "recy" => \A f \in Queued' : f.conn # d
    <3>1. CASE y # x
      BY <1>3, <1>4, <3>1 DEF IInv, ClosingKept
    <3>2. CASE y = x
      <4>1. phase[c] \in {"online", "closed"}
        BY <1>1 DEF IInv, ClosingKept
      <4> QED BY <1>1, <1>3, <1>4, <3>2, <4>1
    <3> QED BY <3>1, <3>2
  <2> QED BY <1>2, <2>1 DEF connVars, ClosingKept
<1>12. EntriesKept'
  <2>1. ASSUME NEW d \in Conn, phase'[d] = "online", ~BeingClosed(d)'
        PROVE  \/ \E f \in Queued' : f.conn = d
               \/ m_ifTimeOutKick' /\ \E f \in Idle' : f.conn = d /\ Present(f)'
    <3>1. phase[d] = "online" /\ ~BeingClosed(d) /\ d # c
      BY <1>2, <1>5, <1>6, <2>1 DEF connVars
    <3>2. \/ \E f \in Queued : f.conn = d
          \/ m_ifTimeOutKick /\ \E f \in Idle : f.conn = d /\ Present(f)
      BY <3>1 DEF IInv, EntriesKept
    <3> QED BY <1>2, <1>3, <1>7, <1>8, <3>1, <3>2
  <2>2. ASSUME NEW f \in Idle'
        PROVE  /\ f.seq <= iCurrsequence'[f.conn]
               /\ Present(f)' => phase'[f.conn] = "online"
               /\ m_ifTimeOutKick' /\ Present(f)' => \A g \in Queued' : g.conn # f.conn
    <3>1. Present(f)' <=> Present(f)
      BY <1>7
    <3>2. f \in Idle
      BY <1>8
    <3>3. /\ f.seq <= iCurrsequence[f.conn]
          /\ Present(f) => phase[f.conn] = "online"
          /\ m_ifTimeOutKick /\ Present(f) => \A g \in Queued : g.conn # f.conn
      BY <3>2 DEF IInv, EntriesKept
    <3> QED BY <1>2, <1>3, <3>1, <3>3 DEF connVars
  <2>3. \A f \in Queued' : Present(f)' /\ phase'[f.conn] = "online"
    BY <1>2, <1>3, <1>7 DEF connVars, IInv, EntriesKept
  <2>4. OnePerConnection(monitor'.idle) /\ (monitor'.pc # "check" => monitor'.idle = <<>>)
    BY <1>2 DEF IInv, EntriesKept
  <2> QED BY <2>1, <2>2, <2>3, <2>4 DEF EntriesKept
<1>13. MonitorInTime'
  BY <1>2, <1>3 DEF clockVars, IInv, MonitorInTime
<1>14. EntriesInTime'
  <2>1. ASSUME ~m_ifTimeOutKick, NEW g \in Queued
        PROVE  \/ g.time - m_iWaitTime - lastPingTime[g.conn] <= MaxSilence
               \/ BeingClosed(g.conn)'
               \/ /\ g.time = monitor.cur_time + m_iWaitTime
                  /\ \E f \in Idle : f.conn = g.conn /\ Present(f)
    <3>1. g.conn \in Conn
      BY StateFacts
    <3>2. \/ g.time - m_iWaitTime - lastPingTime[g.conn] <= MaxSilence
          \/ BeingClosed(g.conn)
          \/ /\ g.time = monitor.cur_time + m_iWaitTime
             /\ \E f \in Idle : f.conn = g.conn /\ Present(f)
      BY <2>1 DEF IInv, EntriesInTime
    <3> QED BY <1>5, <3>1, <3>2
  <2>2. /\ m_ifTimeOutKick =>
             \A f \in Queued \cup Idle : Present(f) => f.time = admitted[f.conn] + m_iWaitTime
        /\ \A d \in Conn : admitted[d] <= lastPingTime[d] /\ lastPingTime[d] <= now
        /\ \A d \in Conn : phase[d] = "accepted" => lastPingTime[d] = now /\ admitted[d] = now
        /\ \A f \in Idle : f.time <= monitor.cur_time
    BY DEF IInv, EntriesInTime
  <2>3. \A g \in Queued' : g \in Queued
    BY <1>3
  <2> QED BY <1>2, <1>7, <1>8, <2>1, <2>2, <2>3 DEF clockVars, connVars, EntriesInTime
<1>15. NoEarlyKick'
  <2>1. closing'["monitor"] = closing["monitor"] \/ closing'["monitor"].pc = "recy"
    BY <1>4 DEF Threads
  <2> QED BY <1>2, <2>1 DEF clockVars, connVars, IInv, NoEarlyKick, Silent
<1>16. ClosedInTime'
  BY <1>2 DEF clockVars, connVars, IInv, ClosedInTime
<1> QED BY <1>9, <1>10, <1>11, <1>12, <1>13, <1>14, <1>15, <1>16 DEF IInv

\* A user who comes or goes has nothing in the queue, and what the monitor took out is not
\* about the user who comes.
LEMMA UserComesOrGoes ==
  ASSUME IInv, NEW c \in Conn,
         UNCHANGED <<m_ifTimeOutKick, clockVars, queueVars, monitor>>,
         \A e \in Queued : e.conn # c,
         \A e \in Idle : e.conn = c => e.seq <= iCurrsequence'[c] /\ e.seq # iCurrsequence'[c],
         phase'[c] # "online",
         phase'[c] = "accepted" => lastPingTime'[c] = now /\ admitted'[c] = now,
         admitted'[c] <= lastPingTime'[c] /\ lastPingTime'[c] <= now,
         \A d \in Conn : d # c =>
           /\ phase'[d] = phase[d] /\ iCurrsequence'[d] = iCurrsequence[d]
           /\ lastPingTime'[d] = lastPingTime[d] /\ admitted'[d] = admitted[d]
           /\ BeingClosed(d) => BeingClosed(d)'
  PROVE  QueueInOrder' /\ EntriesKept' /\ MonitorInTime' /\ EntriesInTime' /\ ClosedInTime'
<1>1. Queued' = Queued /\ Idle' = Idle
  BY DEF queueVars, Queued, Idle
<1>2. \A e \in Queued \cup Idle : e.conn \in Conn
  BY StateFacts
<1>3. \A e \in Queued : Present(e) /\ Present(e)' /\ phase[e.conn] = "online"
  BY <1>2 DEF IInv, EntriesKept, Present
<1>4. \A e \in Idle : IF e.conn = c THEN ~Present(e)' ELSE Present(e)' <=> Present(e)
  BY <1>2 DEF Present
<1>5. QueueInOrder'
  BY StillInOrder DEF IInv
<1>6. EntriesKept'
  <2>1. ASSUME NEW d \in Conn, phase'[d] = "online", ~BeingClosed(d)'
        PROVE  \/ \E f \in Queued' : f.conn = d
               \/ m_ifTimeOutKick' /\ \E f \in Idle' : f.conn = d /\ Present(f)'
    <3>1. phase[d] = "online" /\ ~BeingClosed(d) /\ d # c
      BY <2>1
    <3>2. \/ \E f \in Queued : f.conn = d
          \/ m_ifTimeOutKick /\ \E f \in Idle : f.conn = d /\ Present(f)
      BY <3>1 DEF IInv, EntriesKept
    <3> QED BY <1>1, <1>4, <3>1, <3>2
  <2>2. ASSUME NEW f \in Idle'
        PROVE  /\ f.seq <= iCurrsequence'[f.conn]
               /\ Present(f)' => phase'[f.conn] = "online"
               /\ m_ifTimeOutKick' /\ Present(f)' => \A g \in Queued' : g.conn # f.conn
    <3>1. f \in Idle /\ f.conn \in Conn
      BY <1>1, <1>2
    <3>2. /\ f.seq <= iCurrsequence[f.conn]
          /\ Present(f) => phase[f.conn] = "online"
          /\ m_ifTimeOutKick /\ Present(f) => \A g \in Queued : g.conn # f.conn
      BY <3>1 DEF IInv, EntriesKept
    <3>3. CASE f.conn = c
      BY <1>4, <3>1, <3>3
    <3>4. CASE f.conn # c
      BY <1>1, <1>4, <3>1, <3>2, <3>4
    <3> QED BY <3>3, <3>4
  <2>3. \A f \in Queued' : Present(f)' /\ phase'[f.conn] = "online"
    BY <1>1, <1>2, <1>3
  <2>4. OnePerConnection(monitor'.idle) /\ (monitor'.pc # "check" => monitor'.idle = <<>>)
    BY DEF IInv, EntriesKept
  <2> QED BY <2>1, <2>2, <2>3, <2>4 DEF EntriesKept
<1>7. MonitorInTime'
  BY <1>1 DEF clockVars, IInv, MonitorInTime
<1>8. EntriesInTime'
  <2>1. ASSUME ~m_ifTimeOutKick, NEW g \in Queued
        PROVE  \/ g.time - m_iWaitTime - lastPingTime'[g.conn] <= MaxSilence
               \/ BeingClosed(g.conn)'
               \/ /\ g.time = monitor.cur_time + m_iWaitTime
                  /\ \E f \in Idle : f.conn = g.conn /\ Present(f)'
    <3>1. g.conn \in Conn /\ g.conn # c
      BY <1>2
    <3>2. \/ g.time - m_iWaitTime - lastPingTime[g.conn] <= MaxSilence
          \/ BeingClosed(g.conn)
          \/ /\ g.time = monitor.cur_time + m_iWaitTime
             /\ \E f \in Idle : f.conn = g.conn /\ Present(f)
      BY <2>1 DEF IInv, EntriesInTime
    <3> QED BY <1>4, <3>1, <3>2
  <2>2. ASSUME m_ifTimeOutKick, NEW f \in Queued \cup Idle, Present(f)'
        PROVE  f.time = admitted'[f.conn] + m_iWaitTime
    <3>1. Present(f) /\ f.conn \in Conn /\ f.conn # c
      BY <1>2, <1>3, <1>4, <2>2
    <3>2. f.time = admitted[f.conn] + m_iWaitTime
      BY <2>2, <3>1 DEF IInv, EntriesInTime
    <3> QED BY <3>1, <3>2
  <2>3. \A d \in Conn :
          /\ admitted'[d] <= lastPingTime'[d] /\ lastPingTime'[d] <= now
          /\ phase'[d] = "accepted" => lastPingTime'[d] = now /\ admitted'[d] = now
    BY DEF IInv, EntriesInTime
  <2>4. \A f \in Idle : f.time <= monitor.cur_time
    BY DEF IInv, EntriesInTime
  <2> QED BY <1>1, <2>1, <2>2, <2>3, <2>4 DEF clockVars, EntriesInTime
<1>9. ClosedInTime'
  <2>1. \A d \in Conn : phase'[d] = "online" => /\ d # c /\ phase[d] = "online"
                                                /\ lastPingTime'[d] = lastPingTime[d]
                                                /\ admitted'[d] = admitted[d]
    OBVIOUS
  <2>2. \A d \in Conn : phase[d] = "online" =>
          /\ now - lastPingTime[d] <= MaxSilence + m_iWaitTime + 2
          /\ m_ifTimeOutKick => now <= admitted[d] + m_iWaitTime + 2
    BY DEF IInv, ClosedInTime
  <2> QED BY <2>1, <2>2 DEF clockVars, ClosedInTime
<1> QED BY <1>5, <1>6, <1>7, <1>8, <1>9

\* inRecyConnectQueue keeps it: the number of the connection has changed, so that what the
\* monitor has is not about a present user.
LEMMA CloseRecyKeeps ==
  ASSUME IInv, NEW x \in Threads, CloseRecy(x)
  PROVE  IInv'
<1>1. PICK c \in Conn : c = closing[x].conn /\ c # NoConn /\ \A e \in Queued : e.conn # c
  <2>1. closing[x].pc = "recy" /\ closing[x].conn # NoConn
    BY DEF CloseRecy, IInv, ClosingKept
  <2>2. PICK c \in Conn : c = closing[x].conn
    BY <2>1, StateFacts
  <2> QED BY <2>1, <2>2 DEF IInv, ClosingKept
<1>2. UNCHANGED <<m_ifTimeOutKick, clockVars, queueVars, lastPingTime, admitted, late, monitor>>
  BY DEF CloseRecy
<1>3. /\ \A y \in Threads : y # x => closing'[y] = closing[y]
      /\ closing'[x] = [pc |-> "idle", conn |-> NoConn]
  BY DEF CloseRecy, NotClosing, IInv, TypeOK
<1>4. \/ /\ phase[c] = "online"
         /\ phase' = [phase EXCEPT ![c] = "closed"]
         /\ iCurrsequence' = [iCurrsequence EXCEPT ![c] = @ + 1]
      \/ phase[c] = "closed" /\ UNCHANGED <<phase, iCurrsequence>>
  BY <1>1 DEF CloseRecy
<1>5. /\ phase \in [Conn -> {"free", "accepted", "online", "closed"}]
      /\ iCurrsequence \in [Conn -> Nat]
  BY DEF IInv, TypeOK
<1>6. /\ phase'[c] = "closed"
      /\ \/ phase[c] = "online" /\ iCurrsequence'[c] = iCurrsequence[c] + 1
         \/ phase[c] = "closed" /\ iCurrsequence'[c] = iCurrsequence[c]
      /\ \A d \in Conn : d # c => phase'[d] = phase[d] /\ iCurrsequence'[d] = iCurrsequence[d]
  BY <1>4, <1>5
<1>7. \A d \in Conn : d # c /\ BeingClosed(d) => BeingClosed(d)'
  BY <1>1, <1>3 DEF BeingClosed
<1>8. \A e \in Idle : e.conn = c => e.seq <= iCurrsequence'[c] /\ e.seq # iCurrsequence'[c]
  <2> SUFFICES ASSUME NEW e \in Idle, e.conn = c
               PROVE  e.seq <= iCurrsequence'[c] /\ e.seq # iCurrsequence'[c]
    OBVIOUS
  <2>1. e.seq \in Nat /\ iCurrsequence[c] \in Nat
    BY <1>5, StateFacts
  <2>2. e.seq <= iCurrsequence[c] /\ (e.seq = iCurrsequence[c] => phase[c] = "online")
    BY DEF IInv, EntriesKept, Present
  <2> QED BY <1>6, <2>1, <2>2
<1>9. QueueInOrder' /\ EntriesKept' /\ MonitorInTime' /\ EntriesInTime' /\ ClosedInTime'
  <2>1. admitted'[c] <= lastPingTime'[c] /\ lastPingTime'[c] <= now
    BY <1>2 DEF IInv, EntriesInTime
  <2> QED BY <1>1, <1>2, <1>6, <1>7, <1>8, <2>1, UserComesOrGoes
<1>10. TypeOK'
  <2>1. closing' \in [Threads -> [pc : {"idle", "delete", "recy"}, conn : Conn \cup {NoConn}]]
    BY DEF CloseRecy, NotClosing, IInv, TypeOK
  <2>2. /\ phase' \in [Conn -> {"free", "accepted", "online", "closed"}]
        /\ iCurrsequence' \in [Conn -> Nat]
    <3>1. CASE phase[c] = "closed" /\ UNCHANGED <<phase, iCurrsequence>>
      BY <1>5, <3>1
    <3>2. CASE /\ phase' = [phase EXCEPT ![c] = "closed"]
               /\ iCurrsequence' = [iCurrsequence EXCEPT ![c] = @ + 1]
      BY <1>5, <3>2
    <3> QED BY <1>4, <3>1, <3>2
  <2> QED BY <1>2, <2>1, <2>2 DEF clockVars, queueVars, IInv, TypeOK
<1>11. ClosingKept'
  <2>1. Queued' = Queued
    BY <1>2 DEF queueVars, Queued
  <2>2. ASSUME NEW y \in Threads
        PROVE  /\ closing'[y].pc = "idle" <=> closing'[y].conn = NoConn
               /\ \A d \in Conn : closing'[y].conn = d =>
                    /\ phase'[d] \in {"online", "closed"}
                    /\ closing'[y].pc = "recy" => \A f \in Queued : f.conn # d
    <3>1. CASE y # x
      BY <1>3, <1>6, <3>1 DEF IInv, ClosingKept
    <3>2. CASE y = x
      BY <1>3, <3>2, StateFacts
    <3> QED BY <3>1, <3>2
  <2> QED BY <2>1, <2>2 DEF ClosingKept
<1>12. NoEarlyKick'
  <2> SUFFICES ASSUME NEW m, m = closing'["monitor"].conn, closing'["monitor"].pc = "delete",
                      phase'[m] # "closed"
               PROVE  IF m_ifTimeOutKick THEN now >= admitted[m] + m_iWaitTime
                      ELSE late[m] \/ now - lastPingTime[m] > MaxSilence
    BY <1>2 DEF clockVars, NoEarlyKick, Silent
  <2>1. closing'["monitor"] = closing["monitor"]
    BY <1>3 DEF Threads
  <2>2. m \in Conn
    <3>1. m # NoConn
      BY <2>1 DEF IInv, ClosingKept, Threads
    <3> QED BY <2>1, <3>1, StateFacts DEF Threads
  <2>3. phase[m] # "closed"
    BY <1>6, <2>2
  <2> QED BY <2>1, <2>3 DEF IInv, NoEarlyKick, Silent
<1> QED BY <1>9, <1>10, <1>11, <1>12 DEF IInv

\* Whom the monitor is about to close is in use.
LEMMA MonitorsConnection ==
  ASSUME IInv, closing["monitor"].pc = "delete"
  PROVE  /\ closing["monitor"].conn \in Conn
         /\ phase[closing["monitor"].conn] \in {"online", "closed"}
<1>1. "monitor" \in Threads /\ closing["monitor"].conn # NoConn
  BY DEF IInv, ClosingKept, Threads
<1> QED BY <1>1, StateFacts DEF IInv, ClosingKept

\* ngx_get_connection keeps it.
LEMMA GetOneToUseKeeps ==
  ASSUME IInv, NEW c \in Conn, GetOneToUse(c)
  PROVE  IInv'
<1>1. /\ phase[c] = "free"
      /\ phase' = [phase EXCEPT ![c] = "accepted"]
      /\ iCurrsequence' = [iCurrsequence EXCEPT ![c] = @ + 1]
      /\ lastPingTime' = [lastPingTime EXCEPT ![c] = now]
      /\ late' = [late EXCEPT ![c] = FALSE]
      /\ admitted' = [admitted EXCEPT ![c] = now]
      /\ UNCHANGED <<m_ifTimeOutKick, clockVars, queueVars, monitor, closing>>
  BY DEF GetOneToUse
<1>2. /\ phase \in [Conn -> {"free", "accepted", "online", "closed"}]
      /\ iCurrsequence \in [Conn -> Nat] /\ lastPingTime \in [Conn -> Nat]
      /\ admitted \in [Conn -> Nat] /\ late \in [Conn -> BOOLEAN] /\ now \in Nat
  BY DEF IInv, TypeOK
<1>3. /\ phase'[c] = "accepted" /\ iCurrsequence'[c] = iCurrsequence[c] + 1
      /\ lastPingTime'[c] = now /\ admitted'[c] = now
      /\ \A d \in Conn : d # c => /\ phase'[d] = phase[d] /\ iCurrsequence'[d] = iCurrsequence[d]
                                  /\ lastPingTime'[d] = lastPingTime[d]
                                  /\ admitted'[d] = admitted[d]
                                  /\ late'[d] = late[d]
  BY <1>1, <1>2
<1>4. \A e \in Queued : e.conn # c
  BY <1>1 DEF IInv, EntriesKept
<1>5. \A e \in Idle : e.conn = c => e.seq <= iCurrsequence'[c] /\ e.seq # iCurrsequence'[c]
  <2> SUFFICES ASSUME NEW e \in Idle, e.conn = c
               PROVE  e.seq <= iCurrsequence'[c] /\ e.seq # iCurrsequence'[c]
    OBVIOUS
  <2>1. e.seq \in Nat /\ iCurrsequence[c] \in Nat
    BY <1>2, StateFacts
  <2>2. e.seq <= iCurrsequence[c]
    BY DEF IInv, EntriesKept
  <2> QED BY <1>3, <2>1, <2>2
<1>6. QueueInOrder' /\ EntriesKept' /\ MonitorInTime' /\ EntriesInTime' /\ ClosedInTime'
  <2>1. \A d \in Conn : BeingClosed(d) => BeingClosed(d)'
    BY <1>1 DEF BeingClosed
  <2>2. admitted'[c] <= lastPingTime'[c] /\ lastPingTime'[c] <= now
    BY <1>2, <1>3
  <2> QED BY <1>1, <1>3, <1>4, <1>5, <2>1, <2>2, UserComesOrGoes
<1>7. TypeOK'
  BY <1>1 DEF clockVars, queueVars, IInv, TypeOK
<1>8. ClosingKept'
  <2>1. Queued' = Queued
    BY <1>1 DEF queueVars, Queued
  <2>2. \A y \in Threads : closing[y].conn # c
    BY <1>1 DEF IInv, ClosingKept
  <2> QED BY <1>1, <1>3, <2>1, <2>2 DEF IInv, ClosingKept
<1>9. NoEarlyKick'
  <2>1. closing["monitor"].pc = "delete" =>
          closing["monitor"].conn \in Conn /\ closing["monitor"].conn # c
    BY <1>1, MonitorsConnection
  <2> QED BY <1>1, <1>3, <2>1 DEF clockVars, IInv, NoEarlyKick, Silent
<1> QED BY <1>6, <1>7, <1>8, <1>9 DEF IInv

\* PutOneToFree keeps it.
LEMMA RecycleKeeps ==
  ASSUME IInv, NEW c \in Conn, Recycle(c)
  PROVE  IInv'
<1>1. /\ phase[c] = "closed" /\ \A x \in Threads : closing[x].conn # c
      /\ phase' = [phase EXCEPT ![c] = "free"]
      /\ iCurrsequence' = [iCurrsequence EXCEPT ![c] = @ + 1]
      /\ UNCHANGED <<m_ifTimeOutKick, clockVars, queueVars, lastPingTime, admitted, late,
                     monitor, closing>>
  BY DEF Recycle
<1>2. /\ phase \in [Conn -> {"free", "accepted", "online", "closed"}]
      /\ iCurrsequence \in [Conn -> Nat]
  BY DEF IInv, TypeOK
<1>3. /\ phase'[c] = "free" /\ iCurrsequence'[c] = iCurrsequence[c] + 1
      /\ \A d \in Conn : d # c => phase'[d] = phase[d] /\ iCurrsequence'[d] = iCurrsequence[d]
  BY <1>1, <1>2
<1>4. \A e \in Queued : e.conn # c
  BY <1>1 DEF IInv, EntriesKept
<1>5. \A e \in Idle : e.conn = c => e.seq <= iCurrsequence'[c] /\ e.seq # iCurrsequence'[c]
  <2> SUFFICES ASSUME NEW e \in Idle, e.conn = c
               PROVE  e.seq <= iCurrsequence'[c] /\ e.seq # iCurrsequence'[c]
    OBVIOUS
  <2>1. e.seq \in Nat /\ iCurrsequence[c] \in Nat
    BY <1>2, StateFacts
  <2>2. e.seq <= iCurrsequence[c]
    BY DEF IInv, EntriesKept
  <2> QED BY <1>3, <2>1, <2>2
<1>6. QueueInOrder' /\ EntriesKept' /\ MonitorInTime' /\ EntriesInTime' /\ ClosedInTime'
  <2>1. \A d \in Conn : BeingClosed(d) => BeingClosed(d)'
    BY <1>1 DEF BeingClosed
  <2>2. admitted'[c] <= lastPingTime'[c] /\ lastPingTime'[c] <= now
    BY <1>1 DEF IInv, EntriesInTime
  <2> QED BY <1>1, <1>3, <1>4, <1>5, <2>1, <2>2, UserComesOrGoes
<1>7. TypeOK'
  BY <1>1 DEF clockVars, queueVars, IInv, TypeOK
<1>8. ClosingKept'
  <2>1. Queued' = Queued
    BY <1>1 DEF queueVars, Queued
  <2> QED BY <1>1, <1>3, <2>1 DEF IInv, ClosingKept
<1>9. NoEarlyKick'
  <2>1. closing["monitor"].pc = "delete" =>
          closing["monitor"].conn \in Conn /\ closing["monitor"].conn # c
    BY <1>1, MonitorsConnection DEF Threads
  <2> QED BY <1>1, <1>3, <2>1 DEF clockVars, IInv, NoEarlyKick, Silent
<1> QED BY <1>6, <1>7, <1>8, <1>9 DEF IInv

\* Two entries of a list with one entry for a connection are the same if they are of the
\* same connection.
LEMMA SameInList ==
  ASSUME NEW q, OnePerConnection(q), NEW e \in ToSet(q), NEW f \in ToSet(q), e.conn = f.conn
  PROVE  e = f
<1>1. PICK i \in DOMAIN q, j \in DOMAIN q : e = q[i] /\ f = q[j]
  BY DEF ToSet
<1>2. i = j
  BY <1>1, Zenon DEF OnePerConnection
<1> QED BY <1>1, <1>2

\* AddToTimerQueue for a new user keeps it.
LEMMA AcceptAddsKeeps ==
  ASSUME IInv, NEW c \in Conn, AcceptAdds(c)
  PROVE  IInv'
<1>1. /\ phase[c] = "accepted" /\ AddToTimerQueue(c)
      /\ phase' = [phase EXCEPT ![c] = "online"]
      /\ UNCHANGED <<m_ifTimeOutKick, clockVars, iCurrsequence, lastPingTime, admitted,
                     late, monitor, closing>>
  BY DEF AcceptAdds
<1>2. phase \in [Conn -> {"free", "accepted", "online", "closed"}]
  BY DEF IInv, TypeOK
<1>3. /\ phase'[c] = "online" /\ \A d \in Conn : d # c => phase'[d] = phase[d]
      /\ phase' \in [Conn -> {"free", "accepted", "online", "closed"}]
  BY <1>1, <1>2
<1>4. now \in Nat /\ m_iWaitTime \in Nat \ {0} /\ iCurrsequence[c] \in Nat /\ MaxSilence \in Nat
      /\ now = lastPingTime[c] /\ now = admitted[c]
  BY <1>1, StateFacts DEF IInv, EntriesInTime
<1>5. \A e \in Queued : e.conn # c
  BY <1>1 DEF IInv, EntriesKept
<1>6. PICK n : /\ n = Entry(now + m_iWaitTime, c, iCurrsequence[c])
               /\ n.time = now + m_iWaitTime /\ n.conn = c /\ n.seq = iCurrsequence[c]
  <2>1. PICK n : n = Entry(now + m_iWaitTime, c, iCurrsequence[c])
    OBVIOUS
  <2>2. n.time = now + m_iWaitTime /\ n.conn = c /\ n.seq = iCurrsequence[c]
    BY <2>1 DEF Entry
  <2> QED BY <2>1, <2>2
<1>7. QueueGood' /\ Queued' = Queued \cup {n}
  BY <1>1, <1>4, <1>5, <1>6, StateFacts, AddMoves
<1>8. Idle' = Idle
  BY <1>1 DEF Idle
<1>9. \A e : Present(e)' <=> Present(e)
  BY <1>1 DEF Present
<1>10. \A d \in Conn : BeingClosed(d)' <=> BeingClosed(d)
  BY <1>1 DEF BeingClosed
<1>11. \A e \in Idle : Present(e) => e.conn # c /\ phase[e.conn] = "online"
  BY <1>1 DEF IInv, EntriesKept
<1>12. TypeOK'
  BY <1>1, <1>3, <1>7, StillInOrder DEF clockVars, IInv, TypeOK
<1>13. QueueInOrder'
  BY <1>7, StillInOrder
<1>14. ClosingKept'
  <2>1. \A x \in Threads : closing[x].conn # c
    BY <1>1 DEF IInv, ClosingKept
  <2>2. ASSUME NEW x \in Threads
        PROVE  /\ closing[x].pc = "idle" <=> closing[x].conn = NoConn
               /\ \A d \in Conn : closing[x].conn = d =>
                    /\ phase'[d] \in {"online", "closed"}
                    /\ closing[x].pc = "recy" => \A f \in Queued' : f.conn # d
    BY <1>3, <1>6, <1>7, <2>1 DEF IInv, ClosingKept
  <2> QED BY <1>1, <2>2 DEF ClosingKept
<1>15. EntriesKept'
  <2>1. ASSUME NEW d \in Conn, phase'[d] = "online", ~BeingClosed(d)'
        PROVE  \/ \E f \in Queued' : f.conn = d
               \/ m_ifTimeOutKick' /\ \E f \in Idle' : f.conn = d /\ Present(f)'
    <3>1. CASE d = c
      BY <1>6, <1>7, <3>1
    <3>2. CASE d # c
      <4>1. phase[d] = "online" /\ ~BeingClosed(d)
        BY <1>3, <1>10, <2>1, <3>2
      <4>2. \/ \E f \in Queued : f.conn = d
            \/ m_ifTimeOutKick /\ \E f \in Idle : f.conn = d /\ Present(f)
        BY <4>1 DEF IInv, EntriesKept
      <4> QED BY <1>1, <1>7, <1>8, <1>9, <4>2
    <3> QED BY <3>1, <3>2
  <2>2. ASSUME NEW f \in Idle'
        PROVE  /\ f.seq <= iCurrsequence'[f.conn]
               /\ Present(f)' => phase'[f.conn] = "online"
               /\ m_ifTimeOutKick' /\ Present(f)' => \A g \in Queued' : g.conn # f.conn
    <3>1. Present(f)' <=> Present(f)
      BY <1>9
    <3>2. f \in Idle /\ f.conn \in Conn
      BY <1>8, StateFacts
    <3>3. /\ f.seq <= iCurrsequence[f.conn]
          /\ m_ifTimeOutKick /\ Present(f) => \A g \in Queued : g.conn # f.conn
      BY <3>2 DEF IInv, EntriesKept
    <3>4. Present(f) => f.conn # c /\ phase[f.conn] = "online"
      BY <1>11, <3>2
    <3> QED BY <1>1, <1>3, <1>6, <1>7, <3>1, <3>2, <3>3, <3>4
  <2>3. ASSUME NEW f \in Queued' PROVE Present(f)' /\ phase'[f.conn] = "online"
    <3>1. CASE f \in Queued
      <4>1. Present(f) /\ phase[f.conn] = "online" /\ f.conn \in Conn
        BY <3>1, StateFacts DEF IInv, EntriesKept
      <4>2. Present(f)' <=> Present(f)
        BY <1>9
      <4> QED BY <1>3, <4>1, <4>2
    <3>2. CASE f = n
      BY <1>1, <1>3, <1>6, <3>2 DEF Present
    <3> QED BY <1>7, <3>1, <3>2
  <2>4. OnePerConnection(monitor'.idle) /\ (monitor'.pc # "check" => monitor'.idle = <<>>)
    BY <1>1 DEF IInv, EntriesKept
  <2> QED BY <2>1, <2>2, <2>3, <2>4 DEF EntriesKept
<1>16. MonitorInTime'
  <2>1. n.time >= now /\ n.time >= now - 1 /\ n.time >= now - 2
    BY <1>4, <1>6
  <2> QED BY <1>1, <1>7, <2>1 DEF clockVars, IInv, MonitorInTime
<1>17. EntriesInTime'
  <2>1. ASSUME ~m_ifTimeOutKick, NEW g \in Queued'
        PROVE  \/ g.time - m_iWaitTime - lastPingTime[g.conn] <= MaxSilence
               \/ BeingClosed(g.conn)'
               \/ /\ g.time = monitor.cur_time + m_iWaitTime
                  /\ \E f \in Idle : f.conn = g.conn /\ Present(f)
    <3>1. CASE g \in Queued
      <4>1. g.conn \in Conn
        BY <3>1, StateFacts
      <4>2. \/ g.time - m_iWaitTime - lastPingTime[g.conn] <= MaxSilence
            \/ BeingClosed(g.conn)
            \/ /\ g.time = monitor.cur_time + m_iWaitTime
               /\ \E f \in Idle : f.conn = g.conn /\ Present(f)
        BY <2>1, <3>1 DEF IInv, EntriesInTime
      <4> QED BY <1>10, <4>1, <4>2
    <3>2. CASE g = n
      <4>1. g.time - m_iWaitTime - lastPingTime[g.conn] = 0
        <5>1. g.time = now + m_iWaitTime /\ lastPingTime[g.conn] = now
          BY <1>4, <1>6, <3>2
        <5>2. now + m_iWaitTime - m_iWaitTime - now = 0
          BY <1>4
        <5> QED BY <1>4, <5>1, <5>2
      <4> QED BY <1>4, <4>1
    <3> QED BY <1>7, <3>1, <3>2
  <2>2. ASSUME m_ifTimeOutKick, NEW f \in Queued' \cup Idle, Present(f)
        PROVE  f.time = admitted[f.conn] + m_iWaitTime
    <3>1. CASE f \in Queued \cup Idle
      BY <2>2, <3>1 DEF IInv, EntriesInTime
    <3>2. CASE f = n
      BY <1>4, <1>6, <3>2
    <3> QED BY <1>7, <2>2, <3>1, <3>2
  <2>3. /\ \A d \in Conn : admitted[d] <= lastPingTime[d] /\ lastPingTime[d] <= now
        /\ \A d \in Conn : phase'[d] = "accepted" => lastPingTime[d] = now /\ admitted[d] = now
        /\ \A f \in Idle : f.time <= monitor.cur_time
    BY <1>3 DEF IInv, EntriesInTime
  <2> QED BY <1>1, <1>8, <1>9, <2>1, <2>2, <2>3 DEF clockVars, EntriesInTime
<1>18. NoEarlyKick'
  <2>1. closing["monitor"].pc = "delete" =>
          closing["monitor"].conn \in Conn /\ closing["monitor"].conn # c
    BY <1>1, MonitorsConnection
  <2> QED BY <1>1, <1>3, <2>1 DEF clockVars, IInv, NoEarlyKick, Silent
<1>19. ClosedInTime'
  <2>1. ASSUME NEW d \in Conn, phase'[d] = "online"
        PROVE  /\ now - lastPingTime[d] <= MaxSilence + m_iWaitTime + 2
               /\ m_ifTimeOutKick => now <= admitted[d] + m_iWaitTime + 2
    <3>1. CASE d = c
      <4>1. /\ now - now <= MaxSilence + m_iWaitTime + 2
            /\ now <= now + m_iWaitTime + 2
        BY <1>4
      <4>2. lastPingTime[d] = now /\ admitted[d] = now
        BY <1>4, <3>1
      <4> QED BY <4>1, <4>2
    <3>2. CASE d # c
      BY <1>3, <2>1, <3>2 DEF IInv, ClosedInTime
    <3> QED BY <3>1, <3>2
  <2> QED BY <1>1, <2>1 DEF clockVars, ClosedInTime
<1> QED BY <1>12, <1>13, <1>14, <1>15, <1>16, <1>17, <1>18, <1>19 DEF IInv

\* A heartbeat keeps it: a later heartbeat only helps, and a late one stays late.
LEMMA HandlePingKeeps ==
  ASSUME IInv, NEW c \in Conn, _HandlePing(c)
  PROVE  IInv'
<1>1. /\ phase[c] = "online"
      /\ lastPingTime' = [lastPingTime EXCEPT ![c] = now]
      /\ late' = [late EXCEPT ![c] = @ \/ Silent(c, now)]
      /\ UNCHANGED <<m_ifTimeOutKick, clockVars, queueVars, phase, iCurrsequence,
                     admitted, monitor, closing>>
  BY DEF _HandlePing
<1>2. Queued' = Queued /\ Idle' = Idle
  BY <1>1 DEF queueVars, Queued, Idle
<1>3. /\ lastPingTime \in [Conn -> Nat] /\ late \in [Conn -> BOOLEAN] /\ now \in Nat
  BY DEF IInv, TypeOK
<1>4. /\ lastPingTime'[c] = now /\ \A d \in Conn : d # c => lastPingTime'[d] = lastPingTime[d]
      /\ late'[c] = (late[c] \/ Silent(c, now)) /\ \A d \in Conn : d # c => late'[d] = late[d]
  BY <1>1, <1>3
<1>5. \A d \in Conn : /\ lastPingTime[d] <= lastPingTime'[d] /\ lastPingTime'[d] <= now
                      /\ admitted[d] <= lastPingTime'[d]
                      /\ lastPingTime[d] \in Nat /\ lastPingTime'[d] \in Nat /\ admitted[d] \in Nat
  <2>1. \A d \in Conn : /\ admitted[d] <= lastPingTime[d] /\ lastPingTime[d] <= now
                        /\ admitted[d] \in Nat /\ lastPingTime[d] \in Nat
    BY StateFacts DEF IInv, EntriesInTime
  <2> QED BY <1>3, <1>4, <2>1
<1>6. TypeOK'
  <2>1. late' \in [Conn -> BOOLEAN]
    BY <1>1, <1>3 DEF Silent
  <2> QED BY <1>1, <1>3, <2>1 DEF clockVars, queueVars, IInv, TypeOK
<1>7. QueueInOrder'
  BY <1>1, StillInOrder DEF IInv
<1>8. ClosingKept'
  BY <1>1, <1>2 DEF IInv, ClosingKept
<1>9. EntriesKept'
  BY <1>1, <1>2 DEF IInv, EntriesKept, Present, BeingClosed
<1>10. MonitorInTime'
  BY <1>1, <1>2 DEF clockVars, IInv, MonitorInTime
<1>11. EntriesInTime'
  <2>1. /\ \A e : Present(e)' <=> Present(e)
        /\ \A d \in Conn : BeingClosed(d)' <=> BeingClosed(d)
    BY <1>1 DEF Present, BeingClosed
  <2>2. ASSUME ~m_ifTimeOutKick, NEW g \in Queued
        PROVE  \/ g.time - m_iWaitTime - lastPingTime'[g.conn] <= MaxSilence
               \/ BeingClosed(g.conn)'
               \/ /\ g.time = monitor.cur_time + m_iWaitTime
                  /\ \E f \in Idle : f.conn = g.conn /\ Present(f)
    <3>1. g.conn \in Conn /\ g.time \in Nat /\ m_iWaitTime \in Nat /\ MaxSilence \in Nat
      BY StateFacts
    <3>2. \/ g.time - m_iWaitTime - lastPingTime[g.conn] <= MaxSilence
          \/ BeingClosed(g.conn)
          \/ /\ g.time = monitor.cur_time + m_iWaitTime
             /\ \E f \in Idle : f.conn = g.conn /\ Present(f)
      BY <2>2 DEF IInv, EntriesInTime
    <3>3. g.time - m_iWaitTime - lastPingTime[g.conn] <= MaxSilence =>
            g.time - m_iWaitTime - lastPingTime'[g.conn] <= MaxSilence
      BY <1>5, <3>1
    <3> QED BY <2>1, <3>1, <3>2, <3>3
  <2>3. /\ m_ifTimeOutKick =>
             \A f \in Queued \cup Idle : Present(f) => f.time = admitted[f.conn] + m_iWaitTime
        /\ \A d \in Conn : phase[d] = "accepted" => lastPingTime[d] = now /\ admitted[d] = now
        /\ \A f \in Idle : f.time <= monitor.cur_time
    BY DEF IInv, EntriesInTime
  <2>4. \A d \in Conn : phase[d] = "accepted" => lastPingTime'[d] = now /\ admitted[d] = now
    BY <1>1, <1>4, <2>3
  <2> QED BY <1>1, <1>2, <1>5, <2>1, <2>2, <2>3, <2>4 DEF clockVars, EntriesInTime
<1>12. NoEarlyKick'
  <2> SUFFICES ASSUME NEW m, m = closing["monitor"].conn, closing["monitor"].pc = "delete",
                      phase[m] # "closed"
               PROVE  IF m_ifTimeOutKick THEN now >= admitted[m] + m_iWaitTime
                      ELSE late'[m] \/ now - lastPingTime'[m] > MaxSilence
    BY <1>1 DEF clockVars, NoEarlyKick, Silent
  <2>1. IF m_ifTimeOutKick THEN now >= admitted[m] + m_iWaitTime
        ELSE late[m] \/ Silent(m, now)
    BY DEF IInv, NoEarlyKick
  <2>2. m \in Conn
    BY MonitorsConnection
  <2> QED BY <1>4, <2>1, <2>2 DEF Silent
<1>13. ClosedInTime'
  <2>1. ASSUME NEW d \in Conn, phase[d] = "online"
        PROVE  /\ now - lastPingTime'[d] <= MaxSilence + m_iWaitTime + 2
               /\ m_ifTimeOutKick => now <= admitted[d] + m_iWaitTime + 2
    <3>1. /\ now - lastPingTime[d] <= MaxSilence + m_iWaitTime + 2
          /\ m_ifTimeOutKick => now <= admitted[d] + m_iWaitTime + 2
      BY <2>1 DEF IInv, ClosedInTime
    <3>2. m_iWaitTime \in Nat /\ MaxSilence \in Nat
      BY StateFacts
    <3> QED BY <1>3, <1>5, <3>1, <3>2
  <2> QED BY <1>1, <2>1 DEF clockVars, ClosedInTime
<1> QED BY <1>6, <1>7, <1>8, <1>9, <1>10, <1>11, <1>12, <1>13 DEF IInv

\* A second passes: everybody's entry is in the queue, and at most a second late.
LEMMA TickKeeps == IInv /\ Tick => IInv'
<1> SUFFICES ASSUME IInv, Tick PROVE IInv'
  OBVIOUS
<1>1. /\ polled /\ now' = now + 1 /\ polled' = FALSE
      /\ monitor.pc = "sleep" \/ (monitor.pc = "lock" /\ monitor.cur_time = now)
      /\ \A c \in Conn : phase[c] # "accepted"
      /\ UNCHANGED <<m_ifTimeOutKick, queueVars, connVars, monitor, closing>>
  BY DEF Tick
<1>2. Queued' = Queued /\ Idle' = Idle /\ Idle = {}
  BY <1>1, EmptyChain DEF queueVars, Queued, Idle, IInv, EntriesKept
<1>3. \A c \in Conn : ~BeingClosed(c)
  BY StateFacts DEF Tick, BeingClosed, IInv, ClosingKept
<1>4. /\ now \in Nat /\ m_iWaitTime \in Nat /\ MaxSilence \in Nat
      /\ \A e \in Queued : e.time \in Nat /\ e.conn \in Conn
      /\ \A c \in Conn : admitted[c] \in Nat /\ lastPingTime[c] \in Nat
  BY StateFacts
<1>5. \A e \in Queued : e.time >= now - 1 /\ (monitor.pc = "sleep" => e.time >= now)
  BY <1>1, <1>4 DEF IInv, MonitorInTime
<1>6. TypeOK'
  <2>1. now' \in Nat
    BY <1>1, <1>4
  <2>2. polled' \in BOOLEAN
    BY <1>1, Zenon
  <2> QED BY <1>1, <2>1, <2>2 DEF queueVars, connVars, IInv, TypeOK
<1>7. QueueInOrder'
  BY <1>1, StillInOrder DEF IInv
<1>8. ClosingKept'
  BY <1>1, <1>2 DEF connVars, IInv, ClosingKept
<1>9. EntriesKept'
  BY <1>1, <1>2 DEF connVars, IInv, EntriesKept, Present, BeingClosed
<1>10. MonitorInTime'
  <2>1. \A e \in Queued : /\ e.time >= now' - 2
                          /\ monitor.pc # "lock" \/ monitor.cur_time = now' => e.time >= now' - 1
    BY <1>1, <1>4, <1>5
  <2> QED BY <1>1, <1>2, <2>1 DEF MonitorInTime
<1>11. EntriesInTime'
  <2>1. \A c \in Conn : admitted[c] <= lastPingTime[c] /\ lastPingTime[c] <= now + 1
    <3>1. \A c \in Conn : admitted[c] <= lastPingTime[c] /\ lastPingTime[c] <= now
      BY DEF IInv, EntriesInTime
    <3>2. ASSUME NEW c \in Conn PROVE admitted[c] <= lastPingTime[c] /\ lastPingTime[c] <= now + 1
      <4>1. lastPingTime[c] \in Nat /\ now \in Nat
        BY <1>4
      <4> QED BY <3>1, <4>1
    <3> QED BY <3>2
  <2>2. /\ m_ifTimeOutKick =>
             \A f \in Queued : Present(f) => f.time = admitted[f.conn] + m_iWaitTime
        /\ ~m_ifTimeOutKick =>
             \A g \in Queued : g.time - m_iWaitTime - lastPingTime[g.conn] <= MaxSilence
    BY <1>2, <1>3, <1>4 DEF IInv, EntriesInTime
  <2>3. \A e : Present(e)' <=> Present(e)
    BY <1>1 DEF connVars, Present
  <2> QED BY <1>1, <1>2, <2>1, <2>2, <2>3 DEF connVars, EntriesInTime
<1>12. NoEarlyKick'
  BY <1>1 DEF Tick, NoEarlyKick, Threads
<1>13. ClosedInTime'
  <2>1. ASSUME NEW c \in Conn, phase[c] = "online"
        PROVE  /\ now + 1 - lastPingTime[c] <= MaxSilence + m_iWaitTime + 2
               /\ m_ifTimeOutKick => now + 1 <= admitted[c] + m_iWaitTime + 2
    <3>1. PICK e \in Queued : e.conn = c
      BY <1>2, <1>3, <2>1 DEF IInv, EntriesKept
    <3>2. e.time \in Nat /\ e.time >= now - 1 /\ admitted[c] <= lastPingTime[c]
      BY <1>4, <1>5 DEF IInv, EntriesInTime
    <3>3. CASE m_ifTimeOutKick
      <4>1. e.time = admitted[c] + m_iWaitTime
        BY <3>1, <3>3 DEF IInv, EntriesKept, EntriesInTime
      <4> QED BY <1>4, <3>2, <4>1
    <3>4. CASE ~m_ifTimeOutKick
      <4>1. e.time - m_iWaitTime - lastPingTime[c] <= MaxSilence
        BY <1>2, <1>3, <3>1, <3>4 DEF IInv, EntriesInTime
      <4> QED BY <1>4, <3>2, <3>4, <4>1
    <3> QED BY <3>3, <3>4
  <2>2. /\ now' = now + 1 /\ phase' = phase /\ lastPingTime' = lastPingTime
        /\ admitted' = admitted /\ m_ifTimeOutKick' = m_ifTimeOutKick
    BY <1>1 DEF connVars
  <2>3. ASSUME NEW c \in Conn, phase'[c] = "online"
        PROVE  /\ now' - lastPingTime'[c] <= MaxSilence + m_iWaitTime + 2
               /\ m_ifTimeOutKick' => now' <= admitted'[c] + m_iWaitTime + 2
    <3>1. phase[c] = "online"
      BY <2>2, <2>3
    <3>2. /\ now + 1 - lastPingTime[c] <= MaxSilence + m_iWaitTime + 2
          /\ m_ifTimeOutKick => now + 1 <= admitted[c] + m_iWaitTime + 2
      BY <2>1, <3>1
    <3>3. /\ lastPingTime[c] \in Nat /\ admitted[c] \in Nat /\ now \in Nat /\ MaxSilence \in Nat
          /\ m_iWaitTime \in Nat
      BY <1>4
    <3>4. now' - lastPingTime'[c] <= MaxSilence + m_iWaitTime + 2
      BY <2>2, <3>2, <3>3
    <3>5. now' <= admitted'[c] + m_iWaitTime + 2 \/ ~m_ifTimeOutKick
      BY <2>2, <3>2, <3>3
    <3>6. m_ifTimeOutKick' = m_ifTimeOutKick
      BY <2>2
    <3> QED BY <3>4, <3>5, <3>6, Zenon
  <2> QED BY <2>3 DEF ClosedInTime
<1> QED BY <1>6, <1>7, <1>8, <1>9, <1>10, <1>11, <1>12, <1>13 DEF IInv

(* The theorems *)

\* The invariant holds at the start.
LEMMA InitIInv == Init => IInv
<1> SUFFICES ASSUME Init PROVE IInv
  OBVIOUS
<1>1. Queued = {} /\ Idle = {} /\ monitor.idle = <<>> /\ monitor.pc = "sleep"
  BY EmptyChain DEF Init, Asleep, Queued, Idle
<1>2. TypeOK
  <2>1. /\ m_ifTimeOutKick \in BOOLEAN /\ now \in Nat /\ polled \in BOOLEAN
        /\ m_cur_size_ \in Int /\ m_timer_value_ \in Nat
    <3>1. m_ifTimeOutKick \in BOOLEAN /\ polled \in BOOLEAN
      BY KickAssumption, Zenon DEF Init
    <3>2. now \in Nat /\ m_cur_size_ \in Int /\ m_timer_value_ \in Nat
      BY DEF Init
    <3> QED BY <3>1, <3>2
  <2>2. m_timerQueuemap \in Seq(EntryType)
    BY DEF Init
  <2>3. monitor \in [pc : {"sleep", "value", "lock", "check"},
                     cur_time : Nat, idle : Seq(EntryType)]
    BY DEF Init, Asleep
  <2>4. /\ phase \in [Conn -> {"free", "accepted", "online", "closed"}]
        /\ iCurrsequence \in [Conn -> Nat] /\ lastPingTime \in [Conn -> Nat]
        /\ admitted \in [Conn -> Nat] /\ late \in [Conn -> BOOLEAN]
    BY DEF Init
  <2>5. closing \in [Threads -> [pc : {"idle", "delete", "recy"}, conn : Conn \cup {NoConn}]]
    BY DEF Init, NotClosing
  <2> QED BY <2>1, <2>2, <2>3, <2>4, <2>5 DEF TypeOK
<1>3. QueueInOrder
  BY DEF Init, QueueInOrder, InTime, OnePerConnection
<1>4. \A x \in Threads : closing[x].pc = "idle" /\ closing[x].conn = NoConn
  BY DEF Init, NotClosing
<1>5. ClosingKept
  BY <1>1, <1>4, NoConnAssumption DEF ClosingKept
<1>6. EntriesKept
  BY <1>1 DEF Init, EntriesKept, OnePerConnection
<1>7. MonitorInTime
  BY <1>1 DEF MonitorInTime
<1>8. EntriesInTime
  BY <1>1 DEF Init, EntriesInTime
<1>9. NoEarlyKick
  BY <1>4 DEF NoEarlyKick, Threads
<1>10. ClosedInTime
  BY DEF Init, ClosedInTime
<1> QED BY <1>2, <1>3, <1>5, <1>6, <1>7, <1>8, <1>9, <1>10 DEF IInv

\* Every step keeps it.
LEMMA NextIInv == IInv /\ [Next]_vars => IInv'
<1> SUFFICES ASSUME IInv, [Next]_vars PROVE IInv'
  OBVIOUS
<1>1. CASE ServerTimerQueueMonitorThread
  BY <1>1, ReadSizeKeeps, ReadTimerValueKeeps, GetOverKeeps, PingCheckKeeps, GoToSleepKeeps
     DEF ServerTimerQueueMonitorThread
<1>2. CASE \E x \in Others, c \in Conn : StartClose(x, c)
  BY <1>2, StartCloseKeeps
<1>3. CASE \E x \in Threads : CloseDelete(x) \/ CloseRecy(x)
  BY <1>3, CloseDeleteKeeps, CloseRecyKeeps
<1>4. CASE \E c \in Conn : GetOneToUse(c) \/ AcceptAdds(c) \/ _HandlePing(c) \/ Recycle(c)
  BY <1>4, GetOneToUseKeeps, AcceptAddsKeeps, HandlePingKeeps, RecycleKeeps
<1>5. CASE Tick
  BY <1>5, TickKeeps
<1>6. CASE UNCHANGED vars
  <2>1. UNCHANGED <<m_ifTimeOutKick, clockVars, queueVars, connVars, monitor, closing>>
    BY <1>6 DEF vars, clockVars, queueVars, connVars
  <2>2. Queued' = Queued /\ Idle' = Idle
    BY <2>1 DEF queueVars, Queued, Idle
  <2>3. TypeOK'
    BY <2>1 DEF clockVars, queueVars, connVars, IInv, TypeOK
  <2>4. QueueInOrder'
    BY <2>1, StillInOrder DEF IInv
  <2>5. ClosingKept'
    BY <2>1, <2>2 DEF connVars, IInv, ClosingKept
  <2>6. EntriesKept'
    BY <2>1, <2>2 DEF connVars, IInv, EntriesKept, Present, BeingClosed
  <2>7. MonitorInTime'
    BY <2>1, <2>2 DEF clockVars, IInv, MonitorInTime
  <2>8. EntriesInTime'
    BY <2>1, <2>2 DEF clockVars, connVars, IInv, EntriesInTime, Present, BeingClosed
  <2>9. NoEarlyKick' /\ ClosedInTime'
    BY <2>1 DEF clockVars, connVars, IInv, NoEarlyKick, ClosedInTime, Silent
  <2> QED BY <2>3, <2>4, <2>5, <2>6, <2>7, <2>8, <2>9 DEF IInv
<1> QED BY <1>1, <1>2, <1>3, <1>4, <1>5, <1>6 DEF Next

\* The invariant of the timer queue, the monitor and the threads that close.
THEOREM TimerQueueInvariant == Spec => []IInv
<1>1. Init => IInv
  BY InitIInv
<1>2. IInv /\ [Next]_vars => IInv'
  BY NextIInv
<1> QED BY <1>1, <1>2, PTL DEF Spec

\* Every variable of the timer queue keeps its type; the earliest time is a time even when
\* the queue is empty.
THEOREM TypeCorrect == Spec => []TypeOK
<1>1. IInv => TypeOK
  BY DEF IInv
<1> QED BY <1>1, TimerQueueInvariant, PTL

\* A user has one entry, of the present user, until a thread closes the connection; nobody
\* else has one, and what the monitor reads without the mutex is what the queue holds.
THEOREM QueueIsKept == Spec => []QueueKept
<1>1. ASSUME IInv PROVE OneEntryPerUser
  <2>1. ASSUME NEW c \in Conn, phase[c] = "online", ~BeingClosed(c)
        PROVE  /\ Cardinality(EntriesOf(c)) = 1
               /\ \A e \in EntriesOf(c) : e.seq = iCurrsequence[c]
    <3>1. PICK e : \/ e \in Queued /\ e.conn = c
                   \/ m_ifTimeOutKick /\ e \in Idle /\ e.conn = c /\ Present(e)
      BY <1>1, <2>1 DEF IInv, EntriesKept
    <3>2. EntriesOf(c) = {f \in Queued : f.conn = c} \cup
            (IF m_ifTimeOutKick THEN {f \in Idle : f.conn = c /\ f.seq = iCurrsequence[c]} ELSE {})
      BY DEF EntriesOf, Queued, Idle
    <3>3. \A f \in EntriesOf(c) : f.seq = iCurrsequence[c]
      BY <1>1, <3>2 DEF IInv, EntriesKept, Present
    <3>4. e \in EntriesOf(c)
      BY <3>1, <3>2 DEF Present
    <3>5. ASSUME NEW f \in EntriesOf(c) PROVE f = e
      <4>1. CASE f \in Queued /\ e \in Queued
        <5>1. f.conn = c /\ e.conn = c
          BY <1>1, <3>1, <3>2
        <5> QED BY <1>1, <4>1, <5>1, StateFacts
      <4>2. CASE f \in Idle /\ e \in Idle
        <5>1. OnePerConnection(monitor.idle)
          BY <1>1 DEF IInv, EntriesKept
        <5>2. f.conn = c /\ e.conn = c
          BY <1>1, <3>1, <3>2
        <5> QED BY <4>2, <5>1, <5>2, SameInList DEF Idle
      <4>3. CASE m_ifTimeOutKick /\ f \in Queued /\ e \in Idle /\ Present(e)
        BY <1>1, <3>1, <3>2, <4>3 DEF IInv, EntriesKept
      <4>4. CASE m_ifTimeOutKick /\ f \in Idle /\ e \in Queued
        BY <1>1, <3>1, <3>2, <4>4 DEF IInv, EntriesKept, Present
      <4> QED BY <3>1, <3>2, <4>1, <4>2, <4>3, <4>4
    <3>6. EntriesOf(c) = {e}
      BY <3>4, <3>5
    <3> QED BY <3>3, <3>6, FS_Singleton
  <2>2. ASSUME NEW c \in Conn, phase[c] # "online"
        PROVE  \A e \in ToSet(m_timerQueuemap) : e.conn # c
    BY <1>1, <2>2 DEF IInv, EntriesKept, Queued
  <2> QED BY <2>1, <2>2 DEF OneEntryPerUser
<1>2. ASSUME IInv PROVE SizeAndHead
  <2>1. QueueGood
    BY <1>2, StateFacts
  <2>2. m_timerQueuemap # <<>> =>
          /\ m_timer_value_ = m_timerQueuemap[1].time
          /\ m_timerQueuemap[1] \in ToSet(m_timerQueuemap)
          /\ \A e \in ToSet(m_timerQueuemap) : m_timerQueuemap[1].time <= e.time
    BY <2>1, EntriesOfChain DEF QueueGood
  <2> QED BY <2>1, <2>2 DEF QueueGood, SizeAndHead
<1>3. IInv => QueueKept
  BY <1>1, <1>2 DEF QueueKept
<1> QED BY <1>3, TimerQueueInvariant, PTL

\* The monitor closes nobody who sends heartbeats in time, nor, with Sock_TimeOutKick, a
\* user who has not had the whole wait.
THEOREM NobodyKickedEarly == Spec => []NoEarlyKick
<1>1. IInv => NoEarlyKick
  BY DEF IInv
<1> QED BY <1>1, TimerQueueInvariant, PTL

\* Who is silent for too long is closed a round and two seconds later at the latest.
THEOREM AllClosedInTime == Spec => []ClosedInTime
<1>1. IInv => ClosedInTime
  BY DEF IInv
<1> QED BY <1>1, TimerQueueInvariant, PTL
=============================================================================
