-------------------------- MODULE PacketRecv_proofs --------------------------
(***************************************************************************)
(* Proofs about packet reception, for headers, packets, buffers and limits *)
(* of any size and any number of packets: recv may cut the stream at any   *)
(* byte, and the packets that come out are still those that were sent.     *)
(***************************************************************************)
EXTENDS PacketRecv, SequenceTheorems, TLAPS

(* Sequences of bytes *)

\* What the two parts of a sequence say about it.
LEMMA Parts ==
  ASSUME NEW S, NEW h \in Seq(S), NEW r \in Seq(S)
  PROVE  /\ h \o r \in Seq(S) /\ Len(h \o r) = Len(h) + Len(r)
         /\ Len(h) \in Nat /\ Len(r) \in Nat /\ Len(h \o r) \in Nat
         /\ \A k \in 1..Len(h) : h[k] = (h \o r)[k]
         /\ \A k \in 1..Len(r) : r[k] = (h \o r)[Len(h) + k]
         /\ \A k \in 1..Len(h \o r) : k \in 1..Len(h) \/ k - Len(h) \in 1..Len(r)
<1> DEFINE s == h \o r
<1>1. /\ s \in Seq(S) /\ Len(s) = Len(h) + Len(r) /\ Len(h) \in Nat /\ Len(r) \in Nat
      /\ \A i \in 1..(Len(h) + Len(r)) : s[i] = IF i <= Len(h) THEN h[i] ELSE r[i - Len(h)]
  BY ConcatProperties
<1> HIDE DEF s
<1>2. ASSUME NEW k \in 1..Len(h) PROVE h[k] = s[k]
  <2>1. k \in 1..(Len(h) + Len(r)) /\ k <= Len(h)
    BY <1>1
  <2> QED BY <1>1, <2>1
<1>3. ASSUME NEW k \in 1..Len(r) PROVE r[k] = s[Len(h) + k]
  <2>1. /\ Len(h) + k \in 1..(Len(h) + Len(r)) /\ ~(Len(h) + k <= Len(h))
        /\ (Len(h) + k) - Len(h) = k
    BY <1>1
  <2> QED BY <1>1, <2>1
<1>4. ASSUME NEW k \in 1..Len(s) PROVE k \in 1..Len(h) \/ k - Len(h) \in 1..Len(r)
  <2>1. Len(h) \in Int /\ Len(r) \in Int /\ k \in 1..(Len(h) + Len(r))
    BY <1>1
  <2> QED BY <2>1
<1> QED BY <1>1, <1>2, <1>3, <1>4 DEF s

\* recv moves n bytes from the front of q to the end of a.
LEMMA Cut ==
  ASSUME NEW S, NEW a \in Seq(S), NEW q \in Seq(S), NEW n \in 1..Len(q),
         NEW f, f = SubSeq(q, 1, n), NEW r, r = SubSeq(q, n + 1, Len(q))
  PROVE  /\ f \in Seq(S) /\ r \in Seq(S) /\ f \o r = q
         /\ a \o f \in Seq(S) /\ Len(a \o f) = Len(a) + n
<1>1. Len(q) \in Nat /\ n \in 1..Len(q) /\ \A i \in 1..Len(q) : q[i] \in S
  OBVIOUS
<1>2. f \in Seq(S) /\ Len(f) = n
  BY <1>1, SubSeqProperties
<1>3. r \in Seq(S)
  BY <1>1, SubSeqProperties
<1>4. f \o r = q
  <2>1. /\ 1 \in 1..(Len(q) + 1) /\ n \in 0..Len(q) /\ Len(q) \in n..Len(q)
    BY <1>1
  <2>2. f \o r = SubSeq(q, 1, Len(q))
    BY <2>1, ConcatAdjacentSubSeq
  <2> QED BY <2>2, SubSeqFull
<1>5. a \o f \in Seq(S) /\ Len(a \o f) = Len(a) + n
  BY <1>2, ConcatProperties
<1> QED BY <1>2, <1>3, <1>4, <1>5

\* A client adds bytes behind those that are on their way.
LEMMA Added ==
  ASSUME NEW S, NEW a \in Seq(S), NEW q \in Seq(S), NEW b \in Seq(S), b # <<>>
  PROVE  /\ \A h, t : h = a \o q /\ t = q \o b => h \o b = a \o t
         /\ \A h : h \in Seq(S) => h \o b # <<>>
<1>1. (a \o q) \o b = a \o (q \o b)
  OBVIOUS
<1>2. ASSUME NEW h \in Seq(S) PROVE h \o b # <<>>
  <2> DEFINE M == Len(h)
             N == Len(b)
             K == Len(h \o b)
  <2>1. /\ h \o b \in Seq(S) /\ K = M + N
    BY ConcatProperties
  <2>2. M \in Nat /\ N \in Nat /\ N # 0
    OBVIOUS
  <2> HIDE DEF M, N
  <2>3. K # 0
    BY <2>1, <2>2
  <2> QED BY <2>3
<1> QED BY <1>1, <1>2

(* The packets of a stream *)

\* The lengths of packets, as they are sent.
LEMMA Lengths ==
  ASSUME NEW len \in PkgLens
  PROVE  /\ len \in Nat /\ m_iLenPkgHeader \in Nat \ {0} /\ m_iLenPkgHeader <= _DATA_BUFSIZE_
         /\ PacketLen(len) \in Nat \ {0} /\ m_iLenPkgHeader <= PacketLen(len)
         /\ Legal(len) => PacketLen(len) = len
BY LengthsAssumption DEF PacketLen, Legal

\* The bytes of a packet, one by one.
LEMMA PacketOfBytes ==
  ASSUME NEW p \in 1..MaxPackets, NEW n \in Nat
  PROVE  /\ Bytes(p, n) \in Seq(Byte) /\ Len(Bytes(p, n)) = n
         /\ \A k \in 1..n : Bytes(p, n)[k] = [packet |-> p, place |-> k]
<1>1. Bytes(p, n) \in [1..n -> Byte]
  BY DEF Bytes, Byte
<1>2. Bytes(p, n) \in Seq(Byte) /\ Len(Bytes(p, n)) = n
  BY <1>1
<1> QED BY <1>2 DEF Bytes

\* A stream in order begins with its first packet, the whole of it.
LEMMA BeginsWhole ==
  ASSUME NEW s \in Seq(Byte), NEW cur, NEW ls \in Seq(PkgLens), InOrder(s, cur, ls), s # <<>>
  PROVE  /\ cur \in 1..Len(ls) /\ PacketLen(ls[cur]) \in 1..Len(s)
         /\ \A k \in 1..PacketLen(ls[cur]) : s[k] = [packet |-> cur, place |-> k]
<1>1. Len(s) \in Nat /\ 1 \in 1..Len(s) /\ s[1] \in Byte
  OBVIOUS
<1>2. s[1] = [packet |-> cur, place |-> 1]
  BY DEF InOrder
<1>3. s[1].packet = cur /\ s[1].place = 1 /\ cur \in Nat \ {0}
  BY <1>1, <1>2, BoundsAssumption DEF Byte
<1>4. /\ cur \in cur..Len(ls) /\ 1 \in 1..PacketLen(ls[cur])
      /\ \A k \in 1..PacketLen(ls[cur]) :
           /\ 1 - 1 + k \in 1..Len(s)
           /\ s[1 - 1 + k] = [packet |-> cur, place |-> k]
  <2>1. \A i \in 1..Len(s) :
          /\ s[i].packet \in cur..Len(ls)
          /\ s[i].place \in 1..PacketLen(ls[s[i].packet])
          /\ \A k \in 1..PacketLen(ls[s[i].packet]) :
               /\ i - s[i].place + k \in 1..Len(s)
               /\ s[i - s[i].place + k] = [packet |-> s[i].packet, place |-> k]
    BY Zenon DEF InOrder
  <2>2. /\ s[1].packet \in cur..Len(ls)
        /\ s[1].place \in 1..PacketLen(ls[s[1].packet])
        /\ \A k \in 1..PacketLen(ls[s[1].packet]) :
             /\ 1 - s[1].place + k \in 1..Len(s)
             /\ s[1 - s[1].place + k] = [packet |-> s[1].packet, place |-> k]
    BY <1>1, <2>1
  <2> QED BY <1>3, <2>2, Zenon
<1>5. cur \in 1..Len(ls)
  <2>1. Len(ls) \in Nat
    OBVIOUS
  <2> QED BY <1>3, <1>4, <2>1
<1>6. PacketLen(ls[cur]) \in Nat \ {0}
  <2>1. ls[cur] \in PkgLens
    BY <1>5
  <2> QED BY <2>1, Lengths
<1>7. \A k \in 1..PacketLen(ls[cur]) :
        k \in 1..Len(s) /\ s[k] = [packet |-> cur, place |-> k]
  <2>1. \A k \in 1..PacketLen(ls[cur]) : 1 - 1 + k = k
    BY <1>6
  <2> QED BY <1>4, <2>1
<1>8. PacketLen(ls[cur]) \in 1..Len(s)
  <2>1. PacketLen(ls[cur]) \in 1..PacketLen(ls[cur])
    BY <1>6
  <2> QED BY <2>1, <1>7
<1> QED BY <1>5, <1>7, <1>8

\* The first packet is taken out, and the next one is first.
LEMMA OrderDrop ==
  ASSUME NEW s \in Seq(Byte), NEW cur, NEW ls \in Seq(PkgLens), InOrder(s, cur, ls), s # <<>>,
         NEW t \in Seq(Byte), NEW L, L = PacketLen(ls[cur]), Len(s) = L + Len(t),
         \A k \in 1..Len(t) : t[k] = s[L + k]
  PROVE  InOrder(t, cur + 1, ls)
<1>a. /\ cur \in 1..Len(ls) /\ L \in 1..Len(s)
      /\ \A k \in 1..L : s[k] = [packet |-> cur, place |-> k]
  BY BeginsWhole
<1>b. Len(ls) \in Nat /\ Len(t) \in Nat /\ Len(s) \in Nat /\ (t = <<>> <=> Len(t) = 0)
  OBVIOUS
<1> DEFINE M == Len(s)
           N == Len(t)
           P == Len(ls)
           Len0(p) == PacketLen(ls[p])
<1>5. L = Len0(cur)
  OBVIOUS
<1>0. /\ M = L + N /\ L \in Int /\ M \in Int /\ N \in Int /\ P \in Int /\ cur \in Int
      /\ 1 <= L /\ 0 <= N /\ 1 <= cur /\ cur <= P
  BY <1>a, <1>b
<1>1. \A k \in 1..L : s[k] = [packet |-> cur, place |-> k]
  BY <1>a, <1>b
<1>2. /\ \A k \in 1..N : t[k] = s[L + k]
      /\ t = <<>> <=> N = 0
  BY <1>b
<1>3. \A i \in 1..M :
        /\ s[i].packet \in cur..P
        /\ s[i].place \in 1..Len0(s[i].packet)
        /\ \A k \in 1..Len0(s[i].packet) :
             /\ i - s[i].place + k \in 1..M
             /\ s[i - s[i].place + k] = [packet |-> s[i].packet, place |-> k]
        /\ s[i].place = Len0(s[i].packet) =>
             IF i = M THEN s[i].packet = P
             ELSE s[i + 1] = [packet |-> s[i].packet + 1, place |-> 1]
  BY Zenon DEF InOrder, M, P, Len0
<1>4. \A i, j \in 1..M : i <= j => s[i].packet <= s[j].packet
  BY Zenon DEF InOrder, M
<1> HIDE DEF M, N, P, Len0
<1>6. s[L].packet = cur /\ s[L].place = Len0(cur)
  <2>1. L \in 1..L /\ s[L] = [packet |-> cur, place |-> L]
    BY <1>0, <1>1, <1>2
  <2> QED BY <2>1, <1>5
<1>7. IF t = <<>> THEN cur + 1 = P + 1 ELSE t[1] = [packet |-> cur + 1, place |-> 1]
  <2>1. IF L = M THEN cur = P ELSE s[L + 1] = [packet |-> cur + 1, place |-> 1]
    <3>1. L \in 1..M
      BY <1>0
    <3>2. IF L = M THEN s[L].packet = P ELSE s[L + 1] = [packet |-> s[L].packet + 1, place |-> 1]
      BY <1>3, <1>6, <3>1, Zenon
    <3> QED BY <1>6, <3>2
  <2>2. CASE t = <<>>
    <3>1. N = 0 /\ L = M
      BY <1>0, <1>2, <2>2
    <3> QED BY <2>1, <2>2, <3>1
  <2>3. CASE t # <<>>
    <3>1. N # 0
      BY <1>0, <1>2, <2>3
    <3>2. L # M /\ 1 \in 1..N
      BY <1>0, <1>2, <3>1
    <3> QED BY <1>0, <1>2, <2>1, <2>3, <3>2
  <2> QED BY <2>2, <2>3
<1>8. \A i \in 1..N : /\ L + i \in 1..M /\ t[i] = s[L + i]
                          /\ s[L + i].packet \in (cur + 1)..P
  <2> TAKE i \in 1..N
  <2>1. L + i \in 1..M /\ L + 1 \in 1..M /\ L + 1 <= L + i /\ 1 \in 1..N /\ t # <<>>
    BY <1>0, <1>2
  <2>2. s[L + 1].packet = cur + 1
    <3>1. t[1] = [packet |-> cur + 1, place |-> 1] /\ t[1] = s[L + 1]
      BY <1>2, <1>7, <2>1
    <3> QED BY <3>1
  <2>3. s[L + 1].packet <= s[L + i].packet /\ s[L + i].packet \in cur..P
    BY <1>3, <1>4, <2>1
  <2>4. /\ s[L + i].packet \in Int /\ cur + 1 <= s[L + i].packet
        /\ s[L + i].packet <= P
    BY <1>0, <2>2, <2>3
  <2>5. s[L + i].packet \in (cur + 1)..P
    BY <1>0, <2>4
  <2> QED BY <1>2, <2>1, <2>5
<1>9. ASSUME NEW i \in 1..N, NEW k \in 1..Len0(t[i].packet)
      PROVE  /\ i - t[i].place + k \in 1..N
             /\ t[i - t[i].place + k] = [packet |-> t[i].packet, place |-> k]
  <2> DEFINE j == (L + i) - t[i].place + k
  <2>1. L + i \in 1..M /\ t[i] = s[L + i] /\ t[i].packet \in (cur + 1)..P
    BY <1>8
  <2>2. j \in 1..M /\ s[j] = [packet |-> t[i].packet, place |-> k]
    <3>1. k \in 1..Len0(s[L + i].packet)
      BY <2>1
    <3>2. /\ (L + i) - s[L + i].place + k \in 1..M
          /\ s[(L + i) - s[L + i].place + k] = [packet |-> s[L + i].packet, place |-> k]
      BY <1>3, <2>1, <3>1, Zenon
    <3> QED BY <2>1, <3>2
  <2>3. t[i].place \in Int /\ k \in Int
    <3>1. ls[t[i].packet] \in PkgLens
      <4>1. t[i].packet \in 1..P
        <5>1. PICK p \in (cur + 1)..P : t[i].packet = p
          BY <2>1
        <5>2. p \in 1..P
          BY <1>0
        <5> QED BY <5>1, <5>2
      <4> QED BY <4>1 DEF P
    <3>2. Len0(t[i].packet) \in Nat
      BY <3>1, Lengths DEF Len0
    <3>3. s[L + i].place \in 1..Len0(s[L + i].packet)
      BY <1>3, <2>1
    <3> QED BY <2>1, <3>2, <3>3
  <2>4. j - L = i - t[i].place + k
    <3>1. L \in Int /\ i \in Int
      BY <1>0, <1>2
    <3> QED BY <2>3, <3>1
  <2> HIDE DEF j
  <2>5. j \notin 1..L
    <3>1. s[j].packet # cur
      <4>1. PICK p \in (cur + 1)..P : t[i].packet = p
        BY <2>1
      <4>2. p # cur
        BY <1>0
      <4> QED BY <4>1, <4>2, <2>2
    <3>2. ASSUME j \in 1..L PROVE FALSE
      <4>1. s[j] = [packet |-> cur, place |-> j]
        BY <1>0, <1>1, <3>2
      <4> QED BY <3>1, <4>1
    <3> QED BY <3>2
  <2>6. j - L \in 1..N /\ t[j - L] = s[L + (j - L)]
    <3>1. j - L \in 1..N
      BY <1>0, <2>2, <2>5
    <3> QED BY <1>2, <3>1
  <2>7. L + (j - L) = j
    BY <1>0, <2>2
  <2> QED BY <2>2, <2>4, <2>6, <2>7
<1>10. ASSUME NEW i \in 1..N, t[i].place = Len0(t[i].packet)
       PROVE  IF i = N THEN t[i].packet = P
              ELSE t[i + 1] = [packet |-> t[i].packet + 1, place |-> 1]
  <2>1. L + i \in 1..M /\ t[i] = s[L + i]
    BY <1>8
  <2>2. IF L + i = M THEN t[i].packet = P
        ELSE s[(L + i) + 1] = [packet |-> t[i].packet + 1, place |-> 1]
    <3>1. s[L + i].place = Len0(s[L + i].packet)
      BY <1>0, <1>10, <2>1
    <3>2. IF L + i = M THEN s[L + i].packet = P
          ELSE s[(L + i) + 1] = [packet |-> s[L + i].packet + 1, place |-> 1]
      BY <1>3, <2>1, <3>1, Zenon
    <3> QED BY <2>1, <3>2
  <2>3. L + i = M <=> i = N
    <3>1. L \in Int /\ i \in Int /\ N \in Int /\ M = L + N
      BY <1>0, <1>2
    <3> QED BY <3>1
  <2>4. i # N => i + 1 \in 1..N /\ L + (i + 1) = (L + i) + 1
    BY <1>0, <1>2
  <2>5. i # N => t[i + 1] = s[(L + i) + 1]
    BY <1>0, <1>2, <2>4
  <2> QED BY <2>2, <2>3, <2>5
<1>11. ASSUME NEW i \in 1..N PROVE t[i].place \in 1..Len0(t[i].packet)
  <2>1. L + i \in 1..M /\ t[i] = s[L + i]
    BY <1>8
  <2>2. s[L + i].place \in 1..Len0(s[L + i].packet)
    BY <1>3, <2>1, Zenon
  <2> QED BY <2>1, <2>2
<1>12. ASSUME NEW i \in 1..N, NEW j \in 1..N, i <= j
       PROVE  t[i].packet <= t[j].packet
  <2>1. L + i <= L + j
    BY <1>0, <1>2, <1>12
  <2> QED BY <1>4, <1>8, <2>1
<1> QED
  <2>1. \A i \in 1..N :
          /\ t[i].packet \in (cur + 1)..P
          /\ t[i].place \in 1..Len0(t[i].packet)
          /\ \A k \in 1..Len0(t[i].packet) :
               /\ i - t[i].place + k \in 1..N
               /\ t[i - t[i].place + k] = [packet |-> t[i].packet, place |-> k]
          /\ t[i].place = Len0(t[i].packet) =>
               IF i = N THEN t[i].packet = P
               ELSE t[i + 1] = [packet |-> t[i].packet + 1, place |-> 1]
    <3> TAKE i \in 1..N
    <3>1. t[i].packet \in (cur + 1)..P
      BY <1>8
    <3> QED BY <1>9, <1>10, <1>11, <3>1
  <2>2. \A i, j \in 1..N : i <= j => t[i].packet <= t[j].packet
    BY <1>0, <1>12
  <2> QED BY <1>7, <2>1, <2>2, Zenon DEF InOrder, Len0, N, P

\* A packet is added at the end.
LEMMA OrderAppend ==
  ASSUME NEW s \in Seq(Byte), NEW cur, NEW ls \in Seq(PkgLens), InOrder(s, cur, ls),
         NEW len \in PkgLens, NEW b \in Seq(Byte), Len(b) = PacketLen(len),
         \A k \in 1..Len(b) : b[k] = [packet |-> Len(ls) + 1, place |-> k]
  PROVE  InOrder(s \o b, cur, Append(ls, len))
<1>0. /\ s \o b \in Seq(Byte) /\ Len(s \o b) = Len(s) + Len(b)
      /\ Len(s) \in Nat /\ Len(b) \in Nat /\ Len(s \o b) \in Nat
      /\ \A k \in 1..Len(s) : s[k] = (s \o b)[k]
      /\ \A k \in 1..Len(b) : b[k] = (s \o b)[Len(s) + k]
      /\ \A k \in 1..Len(s \o b) : k \in 1..Len(s) \/ k - Len(s) \in 1..Len(b)
  BY Parts
<1> DEFINE M == Len(s)
           N == Len(b)
           P == Len(ls)
           u == s \o b
           l2 == Append(ls, len)
           K(p) == PacketLen(ls[p])
           K2(p) == PacketLen(l2[p])
<1>1. /\ M \in Int /\ 0 <= M /\ N \in Int /\ 1 <= N /\ P \in Int /\ 0 <= P
      /\ s = <<>> <=> M = 0
      /\ u = <<>> <=> M + N = 0
  <2>1. N \in Nat \ {0}
    BY Lengths
  <2>2. Len(u) = M + N /\ u \in Seq(Byte)
    BY ConcatProperties
  <2> QED BY <2>1, <2>2
<1>2. /\ Len(u) = M + N
      /\ \A k \in 1..M : u[k] = s[k]
      /\ \A k \in 1..N : u[M + k] = b[k]
      /\ \A k \in 1..(M + N) : k \in 1..M \/ k - M \in 1..N
  BY <1>0
<1>3. /\ Len(l2) = P + 1
      /\ \A p \in 1..P : K2(p) = K(p)
      /\ K2(P + 1) = N
  OBVIOUS
<1>4. /\ IF s = <<>> THEN cur = P + 1 ELSE s[1] = [packet |-> cur, place |-> 1]
      /\ s # <<>> => cur \in 1..P
  <2>1. s # <<>> => cur \in 1..Len(ls)
    BY BeginsWhole
  <2> QED BY <2>1, Zenon DEF InOrder
<1>5. \A i \in 1..M :
        /\ s[i].packet \in cur..P
        /\ s[i].place \in 1..K(s[i].packet)
        /\ \A k \in 1..K(s[i].packet) :
             /\ i - s[i].place + k \in 1..M
             /\ s[i - s[i].place + k] = [packet |-> s[i].packet, place |-> k]
        /\ s[i].place = K(s[i].packet) =>
             IF i = M THEN s[i].packet = P
             ELSE s[i + 1] = [packet |-> s[i].packet + 1, place |-> 1]
  BY Zenon DEF InOrder
<1>6. \A i, j \in 1..M : i <= j => s[i].packet <= s[j].packet
  BY Zenon DEF InOrder
<1>7. \A k \in 1..N : b[k] = [packet |-> P + 1, place |-> k]
  OBVIOUS
<1> HIDE DEF M, N, P, u, l2, K, K2
<1>8. /\ cur \in Int /\ 1 <= cur /\ cur <= P + 1
      /\ M = 0 => cur = P + 1
  BY <1>1, <1>4
<1>9. ASSUME NEW i \in 1..M
      PROVE  /\ u[i] = s[i] /\ s[i].packet \in cur..P /\ K2(s[i].packet) = K(s[i].packet)
             /\ s[i].packet \in Int /\ s[i].packet <= P
  <2>1. PICK p \in cur..P : s[i].packet = p
    BY <1>5
  <2>2. p \in 1..P /\ p \in Int /\ p <= P
    BY <1>1, <1>8
  <2> QED BY <1>2, <1>3, <2>1, <2>2
<1>10. ASSUME NEW k \in 1..N
       PROVE  u[M + k] = [packet |-> P + 1, place |-> k]
  BY <1>2, <1>7
<1>11. IF u = <<>> THEN cur = P + 2 ELSE u[1] = [packet |-> cur, place |-> 1]
  <2>1. u # <<>>
    BY <1>1
  <2>2. CASE s = <<>>
    <3>1. M = 0 /\ 1 \in 1..N /\ M + 1 = 1 /\ cur = P + 1
      BY <1>1, <1>4, <2>2
    <3>2. u[M + 1] = [packet |-> P + 1, place |-> 1]
      BY <1>10, <3>1
    <3> QED BY <2>1, <3>1, <3>2
  <2>3. CASE s # <<>>
    <3>1. 1 \in 1..M
      BY <1>1, <2>3
    <3> QED BY <1>2, <1>4, <2>1, <2>3, <3>1
  <2> QED BY <2>2, <2>3
<1> DEFINE Whole(i) ==
             /\ u[i].packet \in cur..(P + 1)
             /\ u[i].place \in 1..K2(u[i].packet)
             /\ \A k \in 1..K2(u[i].packet) :
                  /\ i - u[i].place + k \in 1..(M + N)
                  /\ u[i - u[i].place + k] = [packet |-> u[i].packet, place |-> k]
             /\ u[i].place = K2(u[i].packet) =>
                  IF i = M + N THEN u[i].packet = P + 1
                  ELSE u[i + 1] = [packet |-> u[i].packet + 1, place |-> 1]
<1>12. ASSUME NEW i \in 1..M PROVE Whole(i)
  <2>1. PICK p \in cur..P : s[i].packet = p
    BY <1>5
  <2>2. p \in cur..(P + 1)
    BY <1>1, <1>8
  <2>3. u[i] = s[i] /\ K2(p) = K(p)
    BY <1>9, <2>1
  <2>4. ASSUME NEW k \in 1..K(p)
        PROVE  /\ i - s[i].place + k \in 1..(M + N)
               /\ u[i - s[i].place + k] = [packet |-> p, place |-> k]
    <3>1. /\ i - s[i].place + k \in 1..M
          /\ s[i - s[i].place + k] = [packet |-> p, place |-> k]
      BY <1>5, <2>1, Zenon
    <3>2. PICK j \in 1..M : j = i - s[i].place + k
      BY <3>1
    <3>3. j \in 1..(M + N)
      BY <1>1
    <3>4. u[j] = s[j]
      BY <1>2
    <3> QED BY <3>1, <3>2, <3>3, <3>4
  <2>5. ASSUME s[i].place = K(p)
        PROVE  i # M + N /\ u[i + 1] = [packet |-> p + 1, place |-> 1]
    <3>1. IF i = M THEN p = P ELSE s[i + 1] = [packet |-> p + 1, place |-> 1]
      BY <1>5, <2>1, <2>5, Zenon
    <3>2. i # M + N
      BY <1>1
    <3>3. CASE i = M
      <4>1. 1 \in 1..N
        BY <1>1
      <4>2. u[M + 1] = [packet |-> P + 1, place |-> 1]
        BY <1>10, <4>1
      <4> QED BY <3>1, <3>2, <3>3, <4>2
    <3>4. CASE i # M
      <4>1. i + 1 \in 1..M
        BY <1>1, <3>4
      <4> QED BY <1>2, <3>1, <3>2, <3>4, <4>1
    <3> QED BY <3>3, <3>4
  <2>6. s[i].place \in 1..K(p)
    BY <1>5, <2>1
  <2> QED BY <2>1, <2>2, <2>3, <2>4, <2>5, <2>6
<1>13. ASSUME NEW i \in 1..N PROVE Whole(M + i)
  <2>1. u[M + i] = [packet |-> P + 1, place |-> i]
    BY <1>10
  <2>2. u[M + i].packet = P + 1 /\ u[M + i].place = i
    BY <2>1
  <2>3. P + 1 \in cur..(P + 1)
    BY <1>1, <1>8
  <2>4. ASSUME NEW k \in 1..N
        PROVE  /\ (M + i) - i + k \in 1..(M + N)
               /\ u[(M + i) - i + k] = [packet |-> P + 1, place |-> k]
    <3>1. (M + i) - i + k = M + k /\ M + k \in 1..(M + N)
      BY <1>1
    <3> QED BY <1>10, <3>1
  <2>5. i = N => M + i = M + N
    OBVIOUS
  <2> QED BY <1>3, <2>2, <2>3, <2>4, <2>5
<1>14. ASSUME NEW i \in 1..(M + N) PROVE Whole(i)
  <2>1. CASE i \in 1..M
    BY <1>12, <2>1
  <2>2. CASE i - M \in 1..N
    <3>1. M + (i - M) = i
      BY <1>1
    <3> QED BY <1>13, <2>2, <3>1
  <2>3. i \in 1..M \/ i - M \in 1..N
    BY <1>1
  <2> QED BY <2>1, <2>2, <2>3, Zenon
<1>15. ASSUME NEW i \in 1..(M + N), NEW j \in 1..(M + N), i <= j
       PROVE  u[i].packet <= u[j].packet
  <2>1. CASE i \in 1..M /\ j \in 1..M
    BY <1>6, <1>9, <1>15, <2>1
  <2>2. CASE i \in 1..M /\ j - M \in 1..N
    <3>1. M + (j - M) = j
      BY <1>1
    <3>2. u[j].packet = P + 1
      <4>1. PICK k \in 1..N : k = j - M
        BY <2>2
      <4>2. u[M + k] = [packet |-> P + 1, place |-> k]
        BY <1>10
      <4> QED BY <3>1, <4>1, <4>2
    <3>3. s[i].packet <= P + 1 /\ u[i] = s[i]
      BY <1>1, <1>9, <2>2
    <3> QED BY <3>2, <3>3
  <2>3. CASE i - M \in 1..N /\ j - M \in 1..N
    <3>1. M + (j - M) = j /\ M + (i - M) = i
      BY <1>1
    <3>2. u[j].packet = P + 1 /\ u[i].packet = P + 1
      <4>1. PICK k \in 1..N, l \in 1..N : k = j - M /\ l = i - M
        BY <2>3
      <4>2. /\ u[M + k] = [packet |-> P + 1, place |-> k]
            /\ u[M + l] = [packet |-> P + 1, place |-> l]
        BY <1>10
      <4> QED BY <3>1, <4>1, <4>2
    <3> QED BY <3>2, <1>1
  <2>4. i - M \in 1..N => j \notin 1..M
    BY <1>1, <1>15
  <2> QED BY <1>2, <2>1, <2>2, <2>3, <2>4
<1> HIDE DEF Whole
<1> QED
  <2>1. (P + 1) + 1 = P + 2
    BY <1>1
  <2>2. /\ \A i \in 1..Len(u) : Whole(i)
        /\ \A i, j \in 1..Len(u) : i <= j => u[i].packet <= u[j].packet
        /\ Len(l2) = P + 1 /\ Len(u) = M + N
    BY <1>2, <1>3, <1>14, <1>15
  <2> QED BY <1>11, <2>1, <2>2, Zenon DEF InOrder, Whole, K2, l2, u

(* The packets that are due *)

\* The first byte of a legal packet names it.
LEMMA Named ==
  ASSUME NEW ls \in Seq(PkgLens), Len(ls) <= MaxPackets, NEW q \in 1..Len(ls), Legal(ls[q])
  PROVE  Bytes(q, ls[q])[1].packet = q
<1>1. ls[q] \in PkgLens /\ q \in 1..MaxPackets
  <2>1. Len(ls) \in Nat /\ MaxPackets \in Nat
    BY BoundsAssumption
  <2> QED BY <2>1
<1>2. ls[q] \in Nat \ {0}
  BY <1>1, Lengths
<1>3. 1 \in 1..ls[q]
  BY <1>2
<1>4. Bytes(q, ls[q])[1] = [packet |-> q, place |-> 1]
  BY <1>1, <1>2, <1>3, PacketOfBytes
<1> QED BY <1>4

\* A legal packet that is complete is the next one that is due.
LEMMA DueNext ==
  ASSUME NEW ls \in Seq(PkgLens), Len(ls) <= MaxPackets, NEW cur \in 1..Len(ls), Legal(ls[cur]),
         NEW acc \in Seq(Seq(Byte)), NEW n \in Nat, Due(acc, n, cur, ls)
  PROVE  /\ n < Len(acc) /\ acc[n + 1] = Bytes(cur, ls[cur])
         /\ Due(acc, n + 1, cur + 1, ls)
<1> DEFINE A == Len(acc)
           P == Len(ls)
           Pkt(q) == Bytes(q, ls[q])
<1>1. A \in Int /\ P \in Int /\ n \in Int /\ cur \in Int /\ 1 <= cur /\ cur <= P /\ 0 <= n
  OBVIOUS
<1>2. /\ n <= A
      /\ \A k \in (n + 1)..A : \E q \in cur..P : Legal(ls[q]) /\ acc[k] = Pkt(q)
      /\ \A q \in cur..P : Legal(ls[q]) => \E k \in (n + 1)..A : acc[k] = Pkt(q)
      /\ \A k, l \in (n + 1)..A : k < l => acc[k][1].packet < acc[l][1].packet
  BY Zenon DEF Due
<1>3. \A q \in 1..P : Legal(ls[q]) => Pkt(q)[1].packet = q
  BY Named
<1> HIDE DEF A, P, Pkt
<1>4. \A q \in cur..P : q \in 1..P
  BY <1>1
<1>5. PICK k0 \in (n + 1)..A : acc[k0] = Pkt(cur)
  <2>1. cur \in cur..P
    BY <1>1
  <2> QED BY <1>2, <2>1
<1>6. n < A /\ n + 1 \in (n + 1)..A
  BY <1>1
<1>7. k0 = n + 1
  <2> SUFFICES ASSUME n + 1 < k0 PROVE FALSE
    BY <1>1
  <2>1. PICK q \in cur..P : Legal(ls[q]) /\ acc[n + 1] = Pkt(q)
    BY <1>2, <1>6
  <2>2. acc[n + 1][1].packet < acc[k0][1].packet
    BY <1>2, <1>6
  <2>3. acc[n + 1][1].packet = q /\ acc[k0][1].packet = cur
    <3>1. cur \in 1..P
      BY <1>1
    <3> QED BY <1>3, <1>4, <1>5, <2>1, <3>1
  <2>4. ~(q < cur)
    BY <1>1
  <2> QED BY <2>2, <2>3, <2>4
<1>8. acc[n + 1] = Pkt(cur) /\ acc[n + 1][1].packet = cur
  <2>1. cur \in 1..P
    BY <1>1
  <2> QED BY <1>3, <1>5, <1>7, <2>1
<1>9. ASSUME NEW k \in (n + 2)..A
      PROVE  \E q \in (cur + 1)..P : Legal(ls[q]) /\ acc[k] = Pkt(q)
  <2>1. k \in (n + 1)..A /\ n + 1 < k
    BY <1>1
  <2>2. PICK q \in cur..P : Legal(ls[q]) /\ acc[k] = Pkt(q)
    BY <1>2, <2>1
  <2>3. acc[k][1].packet = q
    BY <1>3, <1>4, <2>2
  <2>4. acc[n + 1][1].packet < acc[k][1].packet
    BY <1>2, <1>6, <2>1
  <2>5. cur < q
    BY <1>8, <2>3, <2>4
  <2>6. q \in (cur + 1)..P
    BY <1>1, <2>5
  <2> QED BY <2>2, <2>6
<1>10. ASSUME NEW q \in (cur + 1)..P, Legal(ls[q])
       PROVE  \E k \in (n + 2)..A : acc[k] = Pkt(q)
  <2>1. q \in cur..P /\ q \in 1..P /\ q # cur
    BY <1>1
  <2>2. PICK k \in (n + 1)..A : acc[k] = Pkt(q)
    BY <1>2, <1>10, <2>1
  <2>3. k # n + 1
    <3>1. acc[k][1].packet = q
      BY <1>3, <1>10, <2>1, <2>2
    <3> QED BY <1>8, <2>1, <3>1
  <2>4. k \in (n + 2)..A
    BY <1>1, <2>3
  <2> QED BY <2>2, <2>4
<1>11. \A k, l \in (n + 2)..A : k < l => acc[k][1].packet < acc[l][1].packet
  <2>1. \A k \in (n + 2)..A : k \in (n + 1)..A
    BY <1>1
  <2> QED BY <1>2, <2>1
<1>12. n + 1 <= A /\ (n + 1) + 1 = n + 2
  BY <1>1, <1>6
<1>13. Due(acc, n + 1, cur + 1, ls)
  BY <1>9, <1>10, <1>11, <1>12, Zenon DEF Due, A, P, Pkt
<1> QED BY <1>6, <1>8, <1>13 DEF A, Pkt

\* A packet that was refused is not due.
LEMMA DueSkip ==
  ASSUME NEW ls \in Seq(PkgLens), NEW cur \in 1..Len(ls), ~Legal(ls[cur]),
         NEW acc, NEW n, Due(acc, n, cur, ls)
  PROVE  Due(acc, n, cur + 1, ls)
<1> DEFINE P == Len(ls)
<1>1. P \in Int /\ cur \in Int
  OBVIOUS
<1> HIDE DEF P
<1>2. \A q \in cur..P : q = cur \/ q \in (cur + 1)..P
  BY <1>1
<1>3. \A q \in (cur + 1)..P : q \in cur..P
  BY <1>1
<1>4. \A k \in (n + 1)..Len(acc) :
        \E q \in (cur + 1)..P : Legal(ls[q]) /\ acc[k] = Bytes(q, ls[q])
  <2>1. \A k \in (n + 1)..Len(acc) :
          \E q \in cur..P : Legal(ls[q]) /\ acc[k] = Bytes(q, ls[q])
    BY Zenon DEF Due, P
  <2> QED BY <1>2, <2>1, Zenon
<1> QED BY <1>3, <1>4, Zenon DEF Due, P

\* A packet that is sent is due if the server accepts it.
LEMMA DueAppend ==
  ASSUME NEW ls \in Seq(PkgLens), Len(ls) < MaxPackets, NEW cur \in 1..(Len(ls) + 1),
         NEW acc \in Seq(Seq(Byte)), NEW n \in Nat, Due(acc, n, cur, ls), NEW len \in PkgLens
  PROVE  Due(IF Legal(len) THEN Append(acc, Bytes(Len(ls) + 1, len)) ELSE acc,
             n, cur, Append(ls, len))
<1> DEFINE A == Len(acc)
           P == Len(ls)
           Pkt(q) == Bytes(q, ls[q])
           l2 == Append(ls, len)
           Pkt2(q) == Bytes(q, l2[q])
           new == Bytes(P + 1, len)
           acc2 == Append(acc, new)
<1>1. A \in Int /\ P \in Int /\ n \in Int /\ cur \in Int /\ 1 <= cur /\ cur <= P + 1 /\ 0 <= n
      /\ 0 <= P /\ 0 <= A
  OBVIOUS
<1>2. /\ n <= A
      /\ \A k \in (n + 1)..A : \E q \in cur..P : Legal(ls[q]) /\ acc[k] = Pkt(q)
      /\ \A q \in cur..P : Legal(ls[q]) => \E k \in (n + 1)..A : acc[k] = Pkt(q)
      /\ \A k, l \in (n + 1)..A : k < l => acc[k][1].packet < acc[l][1].packet
  BY Zenon DEF Due
<1>3. \A q \in 1..P : Legal(ls[q]) => Pkt(q)[1].packet = q
  <2>1. Len(ls) <= MaxPackets
    BY <1>1, BoundsAssumption
  <2> QED BY <2>1, Named
<1>4. /\ Len(l2) = P + 1 /\ l2[P + 1] = len
      /\ \A q \in 1..P : l2[q] = ls[q]
  OBVIOUS
<1>5. Pkt2(P + 1) = new
  BY <1>4
<1>6. Legal(len) => new[1].packet = P + 1
  <2> SUFFICES ASSUME Legal(len) PROVE new[1].packet = P + 1
    OBVIOUS
  <2>1. len \in Nat \ {0} /\ P + 1 \in 1..MaxPackets
    BY <1>1, Lengths, BoundsAssumption
  <2>2. 1 \in 1..len
    BY <2>1
  <2>3. new[1] = [packet |-> P + 1, place |-> 1]
    BY <2>1, <2>2, PacketOfBytes
  <2> QED BY <2>3
<1>7. /\ Len(acc2) = A + 1 /\ acc2[A + 1] = new
      /\ \A k \in 1..A : acc2[k] = acc[k]
  OBVIOUS
<1>8. \A q \in 1..P : Pkt2(q) = Pkt(q)
  BY <1>4
<1> HIDE DEF A, P, Pkt, Pkt2, l2, new, acc2
<1>9. \A q \in cur..P : q \in 1..P /\ q \in cur..(P + 1) /\ q < P + 1
  BY <1>1
<1>10. P + 1 \in cur..(P + 1) /\ \A q \in cur..(P + 1) : q = P + 1 \/ q \in cur..P
  BY <1>1
<1>11. \A k \in (n + 1)..A : k \in 1..A /\ k \in (n + 1)..(A + 1)
  BY <1>1
<1>12. CASE Legal(len)
  <2>1. ASSUME NEW k \in (n + 1)..(A + 1)
        PROVE  \E q \in cur..(P + 1) : Legal(l2[q]) /\ acc2[k] = Pkt2(q)
    <3>1. CASE k = A + 1
      BY <1>4, <1>5, <1>7, <1>10, <1>12, <3>1
    <3>2. CASE k # A + 1
      <4>1. k \in (n + 1)..A
        BY <1>1, <3>2
      <4>2. PICK q \in cur..P : Legal(ls[q]) /\ acc[k] = Pkt(q)
        BY <1>2, <4>1
      <4> QED BY <1>4, <1>7, <1>8, <1>9, <1>11, <4>1, <4>2
    <3> QED BY <3>1, <3>2
  <2>2. ASSUME NEW q \in cur..(P + 1), Legal(l2[q])
        PROVE  \E k \in (n + 1)..(A + 1) : acc2[k] = Pkt2(q)
    <3>1. CASE q = P + 1
      <4>1. A + 1 \in (n + 1)..(A + 1)
        BY <1>1, <1>2
      <4> QED BY <1>5, <1>7, <3>1, <4>1
    <3>2. CASE q \in cur..P
      <4>1. PICK k \in (n + 1)..A : acc[k] = Pkt(q)
        BY <1>2, <1>4, <1>9, <2>2, <3>2
      <4> QED BY <1>7, <1>8, <1>9, <1>11, <3>2, <4>1
    <3> QED BY <1>10, <3>1, <3>2
  <2>3. ASSUME NEW k \in (n + 1)..(A + 1), NEW l \in (n + 1)..(A + 1), k < l
        PROVE  acc2[k][1].packet < acc2[l][1].packet
    <3>1. k \in (n + 1)..A
      BY <1>1, <2>3
    <3>2. CASE l = A + 1
      <4>1. PICK q \in cur..P : Legal(ls[q]) /\ acc[k] = Pkt(q)
        BY <1>2, <3>1
      <4>2. acc2[k][1].packet = q /\ q < P + 1
        BY <1>3, <1>7, <1>9, <1>11, <3>1, <4>1
      <4> QED BY <1>6, <1>7, <1>12, <3>2, <4>2
    <3>3. CASE l # A + 1
      <4>1. l \in (n + 1)..A
        BY <1>1, <3>3
      <4> QED BY <1>2, <1>7, <1>11, <2>3, <3>1, <4>1
    <3> QED BY <3>2, <3>3
  <2>4. n <= A + 1
    BY <1>1, <1>2
  <2>5. Due(acc2, n, cur, l2)
    <3>1. /\ n <= Len(acc2)
          /\ \A k \in (n + 1)..Len(acc2) :
               \E q \in cur..Len(l2) : Legal(l2[q]) /\ acc2[k] = Pkt2(q)
          /\ \A q \in cur..Len(l2) :
               Legal(l2[q]) => \E k \in (n + 1)..Len(acc2) : acc2[k] = Pkt2(q)
          /\ \A k, l \in (n + 1)..Len(acc2) : k < l => acc2[k][1].packet < acc2[l][1].packet
      BY <1>4, <1>7, <2>1, <2>2, <2>3, <2>4
    <3> QED BY <3>1, Zenon DEF Due, Pkt2
  <2> QED BY <1>12, <2>5 DEF acc2, l2, new, P
<1>13. CASE ~Legal(len)
  <2>1. ASSUME NEW k \in (n + 1)..A
        PROVE  \E q \in cur..(P + 1) : Legal(l2[q]) /\ acc[k] = Pkt2(q)
    <3>1. PICK q \in cur..P : Legal(ls[q]) /\ acc[k] = Pkt(q)
      BY <1>2
    <3> QED BY <1>4, <1>8, <1>9, <3>1
  <2>2. ASSUME NEW q \in cur..(P + 1), Legal(l2[q])
        PROVE  \E k \in (n + 1)..A : acc[k] = Pkt2(q)
    <3>1. q \in cur..P
      BY <1>4, <1>10, <1>13, <2>2
    <3> QED BY <1>2, <1>4, <1>8, <1>9, <2>2, <3>1
  <2>3. Due(acc, n, cur, l2)
    BY <1>2, <1>4, <2>1, <2>2, Zenon DEF Due, Pkt2, A
  <2> QED BY <1>13, <2>3 DEF l2
<1> QED BY <1>12, <1>13

(* The reactor *)

Stats == {"_PKG_HD_INIT", "_PKG_HD_RECVING", "_PKG_BD_INIT", "_PKG_BD_RECVING"}
RecvType == [curStat : Stats, head : Seq(Byte), body : Seq(Byte), irecvlen : Nat \ {0},
             precvMemPointer : 0..MaxPackets, overrun : BOOLEAN]

\* The receiving state, field by field.
LEMMA RecvFields ==
  ASSUME TypeOK
  PROVE  /\ recv \in RecvType
         /\ recv.curStat \in Stats /\ recv.head \in Seq(Byte) /\ recv.body \in Seq(Byte)
         /\ recv.irecvlen \in Nat \ {0} /\ recv.precvMemPointer \in 0..MaxPackets
         /\ recv.overrun \in BOOLEAN
         /\ lens \in Seq(PkgLens) /\ inflight \in Seq(Byte)
         /\ InHeader <=> ~InBody
<1>1. recv \in RecvType /\ lens \in Seq(PkgLens) /\ inflight \in Seq(Byte)
  BY DEF TypeOK, RecvType, Stats
<1>2. /\ recv.curStat \in Stats /\ recv.head \in Seq(Byte) /\ recv.body \in Seq(Byte)
      /\ recv.irecvlen \in Nat \ {0} /\ recv.precvMemPointer \in 0..MaxPackets
      /\ recv.overrun \in BOOLEAN
  BY <1>1 DEF RecvType
<1> QED BY <1>1, <1>2 DEF InHeader, InBody, Stats

\* The bytes received of the present packet.
Part == IF InBody THEN recv.body ELSE recv.head

\* recv returns n bytes: the stream stays, but n bytes of it have been received.
LEMMA Taking ==
  ASSUME TypeOK, Receiving, NEW n \in 1..Len(inflight), Takes(n)
  PROVE  /\ list = "online" /\ Part \o Received(n) \in Seq(Byte) /\ inflight' \in Seq(Byte)
         /\ Part \in Seq(Byte) /\ Len(Part) \in Nat /\ Stream \in Seq(Byte) /\ Stream # <<>>
         /\ Len(Part \o Received(n)) = Len(Part) + n /\ n <= recv.irecvlen /\ n \in Nat \ {0}
         /\ (Part \o Received(n)) \o inflight' = Stream
         /\ Stream[1].packet = Current /\ Current \in 1..Len(lens)
         /\ PacketLen(lens[Current]) \in 1..Len(Stream)
         /\ \A k \in 1..PacketLen(lens[Current]) : Stream[k] = [packet |-> Current, place |-> k]
<1>1. /\ Part \in Seq(Byte) /\ inflight \in Seq(Byte) /\ lens \in Seq(PkgLens)
      /\ Stream = Part \o inflight
  BY RecvFields DEF Part, Stream
<1>2. /\ list = "online" /\ n <= recv.irecvlen /\ inflight' = SubSeq(inflight, n + 1, Len(inflight))
      /\ Received(n) = SubSeq(inflight, 1, n)
  BY DEF Takes, Received
<1>3. /\ Part \o Received(n) \in Seq(Byte) /\ inflight' \in Seq(Byte)
      /\ Len(Part \o Received(n)) = Len(Part) + n
      /\ (Part \o Received(n)) \o inflight' = Part \o inflight
  <2>1. PICK a \in Seq(Byte), q \in Seq(Byte) : a = Part /\ q = inflight
    BY <1>1
  <2>2. PICK f, r : f = SubSeq(q, 1, n) /\ r = SubSeq(q, n + 1, Len(q))
    OBVIOUS
  <2>3. n \in 1..Len(q)
    BY <2>1
  <2>4. f \in Seq(Byte) /\ r \in Seq(Byte)
    BY <2>2, <2>3, Cut
  <2>5. a \o f \in Seq(Byte) /\ Len(a \o f) = Len(a) + n
    BY <2>2, <2>3, Cut
  <2>6. f \o r = q
    BY <2>2, <2>3, Cut
  <2>7. (a \o f) \o r = a \o (f \o r)
    BY <2>4
  <2>8. (a \o f) \o r = a \o q
    BY <2>6, <2>7, Zenon
  <2> QED BY <1>2, <2>1, <2>2, <2>4, <2>5, <2>8
<1>4. Stream \in Seq(Byte) /\ Len(Stream) = Len(Part) + Len(inflight) /\ Len(Part) \in Nat
  BY <1>1, ConcatProperties
<1>5. n \in Nat \ {0} /\ Stream # <<>>
  <2>1. Len(inflight) \in Nat
    BY <1>1
  <2>2. n \in Nat \ {0} /\ Len(Stream) # 0
    BY <1>4, <2>1
  <2> QED BY <2>2
<1>6. InOrder(Stream, Current, lens)
  BY <1>2 DEF Receiving
<1>7. /\ Current \in 1..Len(lens) /\ PacketLen(lens[Current]) \in 1..Len(Stream)
      /\ \A k \in 1..PacketLen(lens[Current]) : Stream[k] = [packet |-> Current, place |-> k]
  <2>1. PICK s \in Seq(Byte), ls \in Seq(PkgLens), cur \in {Current} :
          s = Stream /\ ls = lens /\ cur = Current
    BY <1>1, <1>4
  <2>2. s # <<>> /\ InOrder(s, cur, ls)
    BY <1>5, <1>6, <2>1
  <2>3. /\ cur \in 1..Len(ls) /\ PacketLen(ls[cur]) \in 1..Len(s)
        /\ \A k \in 1..PacketLen(ls[cur]) : s[k] = [packet |-> cur, place |-> k]
    BY <2>2, BeginsWhole
  <2> QED BY <2>1, <2>3
<1>8. Stream[1].packet = Current
  BY <1>5 DEF Current
<1> QED BY <1>1, <1>2, <1>3, <1>4, <1>5, <1>7, <1>8

\* A complete header is that of the present packet.
LEMMA HeaderComplete ==
  ASSUME TypeOK, Receiving, NEW n \in 1..Len(inflight), Takes(n), InHeader, n = recv.irecvlen
  PROVE  /\ HeaderBytes(n) = Part \o Received(n) /\ Len(HeaderBytes(n)) = m_iLenPkgHeader
         /\ HeaderBytes(n) # <<>> /\ HeaderBytes(n)[1].packet = Current
         /\ Announced(n).packet = Current /\ Announced(n).len = lens[Current]
<1> DEFINE h == Part \o Received(n)
<1>1. HeaderBytes(n) = h /\ ~InBody
  BY RecvFields DEF HeaderBytes, Part
<1>2. Len(h) = m_iLenPkgHeader
  <2>1. list = "online" /\ Len(h) = Len(recv.head) + n
    BY <1>1, Taking DEF Part
  <2> QED BY <2>1 DEF Receiving, Counted
<1>3. /\ h \in Seq(Byte) /\ inflight' \in Seq(Byte) /\ h \o inflight' = Stream
      /\ lens \in Seq(PkgLens) /\ Current \in 1..Len(lens)
      /\ \A k \in 1..PacketLen(lens[Current]) : Stream[k] = [packet |-> Current, place |-> k]
  BY Taking, RecvFields
<1> HIDE DEF h
<1>4. \A k \in 1..Len(h) : h[k] = Stream[k]
  <2>1. \A k \in 1..Len(h) : h[k] = (h \o inflight')[k]
    BY <1>3, Parts
  <2> QED BY <1>3, <2>1
<1>5. /\ m_iLenPkgHeader \in Nat \ {0} /\ m_iLenPkgHeader <= PacketLen(lens[Current])
      /\ PacketLen(lens[Current]) \in Nat
  <2>1. lens[Current] \in PkgLens
    BY <1>3
  <2> QED BY <2>1, Lengths
<1>6. ASSUME NEW k \in 1..m_iLenPkgHeader PROVE h[k].packet = Current
  <2>1. k \in 1..PacketLen(lens[Current])
    BY <1>5
  <2>2. h[k] = [packet |-> Current, place |-> k]
    BY <1>2, <1>3, <1>4, <2>1
  <2> QED BY <2>2
<1>7. 1 \in 1..m_iLenPkgHeader /\ m_iLenPkgHeader \in 1..m_iLenPkgHeader
  BY <1>5
<1>8. h # <<>> /\ h[1].packet = Current /\ Last(h).packet = Current
  <2>1. h # <<>>
    BY <1>2, <1>5
  <2> QED BY <1>2, <1>6, <1>7, <2>1 DEF Last
<1> QED BY <1>1, <1>2, <1>8 DEF Announced, h

\* When a packet is complete, or refused, the rest of the stream begins with the next.
LEMMA Finishing ==
  ASSUME TypeOK, Receiving, NEW n \in 1..Len(inflight), Takes(n),
         Len(Part \o Received(n)) = PacketLen(lens[Current]),
         recv' = Start, lens' = lens
  PROVE  /\ Part \o Received(n) = Bytes(Current, PacketLen(lens[Current]))
         /\ Stream' \in Seq(Byte) /\ Current' = Current + 1
         /\ InOrder(Stream', Current', lens')
<1> DEFINE h == Part \o Received(n)
           t == inflight'
           L == PacketLen(lens[Current])
<1>1. /\ h \in Seq(Byte) /\ t \in Seq(Byte) /\ h \o t = Stream /\ Stream \in Seq(Byte)
      /\ lens \in Seq(PkgLens) /\ Current \in 1..Len(lens) /\ list = "online" /\ Stream # <<>>
      /\ \A k \in 1..L : Stream[k] = [packet |-> Current, place |-> k]
  BY Taking, RecvFields
<1>2. Len(h) = L
  OBVIOUS
<1>3. Stream' = t
  <2>1. Stream' = <<>> \o t
    BY DEF Stream, InBody, Start
  <2> QED BY <1>1, <2>1, ConcatEmptySeq
<1> HIDE DEF h, t, L
<1>4. /\ Len(h \o t) = Len(h) + Len(t)
      /\ \A k \in 1..Len(h) : h[k] = (h \o t)[k]
      /\ \A k \in 1..Len(t) : t[k] = (h \o t)[Len(h) + k]
  BY <1>1, Parts
<1>5. L \in Nat /\ Current \in 1..MaxPackets
  <2>1. lens[Current] \in PkgLens /\ Len(lens) \in Nat /\ Len(lens) <= MaxPackets
    BY <1>1 DEF Receiving
  <2> QED BY <1>1, <2>1, Lengths, BoundsAssumption DEF L
<1>6. h = Bytes(Current, L)
  <2>1. /\ Bytes(Current, L) \in Seq(Byte) /\ Len(Bytes(Current, L)) = L
        /\ \A k \in 1..L : Bytes(Current, L)[k] = [packet |-> Current, place |-> k]
    BY <1>5, PacketOfBytes
  <2>2. \A k \in 1..Len(h) : h[k] = Bytes(Current, L)[k]
    BY <1>1, <1>2, <1>4, <2>1
  <2> QED BY <1>1, <1>2, <2>1, <2>2, SeqEqual
<1>7. InOrder(t, Current + 1, lens)
  <2>1. Len(Stream) = L + Len(t) /\ \A k \in 1..Len(t) : t[k] = Stream[L + k]
    BY <1>1, <1>2, <1>4
  <2>2. InOrder(Stream, Current, lens)
    BY <1>1 DEF Receiving
  <2> QED BY <1>1, <2>1, <2>2, OrderDrop DEF L
<1>8. Current' = Current + 1
  <2>1. IF t = <<>> THEN Current + 1 = Len(lens) + 1
        ELSE t[1] = [packet |-> Current + 1, place |-> 1]
    BY <1>7, Zenon DEF InOrder
  <2>2. Current' = IF t = <<>> THEN Len(lens) + 1 ELSE t[1].packet
    BY <1>3 DEF Current
  <2> QED BY <2>1, <2>2
<1> QED BY <1>1, <1>3, <1>6, <1>7, <1>8 DEF h, L

\* What a step can be.
LEMMA AllSteps ==
  ASSUME [Next]_vars
  PROVE  \/ \E n \in 1..Len(inflight) :
              \/ HeaderPart(n) \/ RefuseHeader(n) \/ HeaderOnly(n) \/ BodyFollows(n)
              \/ BodyPart(n) \/ Body(n)
         \/ Overrun \/ Leave \/ Recycle \/ Crash \/ Accept
         \/ \E len \in PkgLens : Send(len)
         \/ UNCHANGED vars
BY DEF Next, ngx_read_request_handler

\* A packet that is complete has all the bytes its header announced.
LEMMA Completed ==
  ASSUME TypeOK, Receiving, NEW n \in 1..Len(inflight), HeaderOnly(n) \/ Body(n)
  PROVE  /\ Takes(n) /\ recv' = Start /\ lens' = lens /\ accepted' = accepted
         /\ Current \in 1..Len(lens) /\ Legal(lens[Current])
         /\ Len(Part \o Received(n)) = PacketLen(lens[Current])
         /\ Complete(Current, Part \o Received(n))
         /\ recv.precvMemPointer \in {0, Current}
<1>1. /\ Takes(n) /\ n = recv.irecvlen /\ lens' = lens /\ accepted' = accepted
      /\ recv' = Start
  BY DEF HeaderOnly, Body, Complete, clientVars, ngx_wait_request_handler_proc_plast
<1>2. /\ Current \in 1..Len(lens) /\ lens \in Seq(PkgLens) /\ Stream[1].packet = Current
      /\ Len(Part \o Received(n)) = Len(Part) + n /\ list = "online"
      /\ Part \in Seq(Byte) /\ Stream = Part \o inflight /\ inflight \in Seq(Byte)
  BY <1>1, Taking, RecvFields DEF Stream, Part
<1>3. Legal(lens[Current]) => PacketLen(lens[Current]) = lens[Current]
  <2>1. lens[Current] \in PkgLens
    BY <1>2
  <2> QED BY <2>1, Lengths
<1>4. CASE HeaderOnly(n)
  <2>1. InHeader
    BY <1>4 DEF HeaderOnly
  <2>2. /\ HeaderBytes(n) = Part \o Received(n) /\ Len(HeaderBytes(n)) = m_iLenPkgHeader
        /\ Announced(n).packet = Current /\ Announced(n).len = lens[Current]
    BY <1>1, <2>1, HeaderComplete
  <2>3. /\ Legal(Announced(n).len) /\ Announced(n).len = m_iLenPkgHeader
        /\ Complete(Announced(n).packet, HeaderBytes(n))
    BY <1>4 DEF HeaderOnly
  <2>4. recv.precvMemPointer = 0
    BY <1>2, <2>1 DEF Receiving, Counted
  <2> QED BY <1>1, <1>2, <1>3, <2>2, <2>3, <2>4
<1>5. CASE Body(n)
  <2>1. InBody /\ Part = recv.body /\ Complete(recv.precvMemPointer, recv.body \o Received(n))
    BY <1>5 DEF Body, Part
  <2>2. /\ recv.body # <<>> /\ recv.body[1].packet = recv.precvMemPointer
        /\ Legal(lens[recv.precvMemPointer])
        /\ Len(recv.body) + recv.irecvlen = lens[recv.precvMemPointer]
    BY <1>2, <2>1 DEF Receiving, Counted
  <2>3. recv.precvMemPointer = Current
    <3>1. Stream[1] = Part[1]
      <4>1. 1 \in 1..Len(Part)
        BY <1>2, <2>1, <2>2
      <4> QED BY <1>2, <4>1, Parts
    <3> QED BY <1>2, <2>1, <2>2, <3>1
  <2> QED BY <1>1, <1>2, <1>3, <2>1, <2>2, <2>3
<1> QED BY <1>4, <1>5

\* What the handler does with a packet that is complete.
LEMMA HandsOver ==
  ASSUME NEW p, NEW b, Complete(p, b)
  PROVE  /\ UNCHANGED <<preset, m_floodAkEnable, uses>> /\ kicked' = IsFlood
         /\ mem' = [mem EXCEPT ![p] = IF IsFlood THEN "freed" ELSE "pool"]
         /\ IF IsFlood THEN list' = "recy" /\ delivered' = delivered
                       ELSE list' = list /\ delivered' = Append(delivered, b)
         /\ \/ /\ m_floodAkEnable
               /\ \E soon \in BOOLEAN :
                    /\ soon => flood.timed
                    /\ flood' = [FloodAttackCount |-> IF soon THEN flood.FloodAttackCount + 1
                                                      ELSE 0, timed |-> TRUE]
                    /\ hasty' = Append(hasty, soon)
            \/ ~m_floodAkEnable /\ flood' = flood /\ hasty' = hasty
BY DEF Complete, ngx_wait_request_handler_proc_plast, TestFlood, Close, settingVars

(* The types *)

\* Every step keeps the types.
LEMMA TypeStep == TypeOK /\ Receiving /\ [Next]_vars => TypeOK'
<1> SUFFICES ASSUME TypeOK, Receiving, [Next]_vars PROVE TypeOK'
  OBVIOUS
<1> USE DEF settingVars, clientVars
<1> DEFINE Rest == /\ preset \in Nat /\ m_floodAkEnable \in BOOLEAN
                   /\ list \in {"online", "recy", "free", "crashed"}
                   /\ uses \in 1..MaxUses
                   /\ flood \in [FloodAttackCount : Nat, timed : BOOLEAN]
                   /\ accepted \in Seq(Seq(Byte)) /\ delivered \in Seq(Seq(Byte))
                   /\ hasty \in Seq(BOOLEAN) /\ kicked \in BOOLEAN
                   /\ lens \in Seq(PkgLens)
                   /\ mem \in [1..MaxPackets -> {"none", "receiving", "pool", "freed",
                                                 "freed_twice"}]
<1>1. Rest /\ recv \in RecvType /\ inflight \in Seq(Byte)
  BY DEF TypeOK, RecvType, Stats
<1>2. ASSUME Rest', recv' \in RecvType, inflight' \in Seq(Byte) PROVE TypeOK'
  BY <1>2 DEF TypeOK, RecvType, Stats
<1>3. Start \in RecvType
  <2>1. m_iLenPkgHeader \in Nat \ {0} /\ 0 \in 0..MaxPackets
    BY LengthsAssumption, BoundsAssumption
  <2> QED BY <2>1 DEF Start, RecvType, Stats
<1>4. /\ recv.curStat \in Stats /\ recv.head \in Seq(Byte) /\ recv.body \in Seq(Byte)
      /\ recv.irecvlen \in Nat \ {0} /\ recv.precvMemPointer \in 0..MaxPackets
      /\ recv.overrun \in BOOLEAN
      /\ InHeader <=> ~InBody
  BY RecvFields
<1>5. ASSUME NEW n \in 1..Len(inflight), HeaderPart(n) PROVE TypeOK'
  <2>1. Takes(n) /\ InHeader /\ n < recv.irecvlen
        /\ recv' = [recv EXCEPT !.curStat = "_PKG_HD_RECVING", !.head = HeaderBytes(n),
                                !.irecvlen = @ - n]
        /\ UNCHANGED <<preset, m_floodAkEnable, list, uses, flood, mem, lens, accepted,
                       delivered, hasty, kicked>>
    BY <1>5 DEF HeaderPart
  <2>2. inflight' \in Seq(Byte) /\ HeaderBytes(n) \in Seq(Byte) /\ n \in Nat \ {0}
    BY <2>1, <1>4, Taking DEF HeaderBytes, Part
  <2>3. recv.irecvlen - n \in Nat \ {0}
    BY <1>4, <2>1, <2>2
  <2>4. recv' \in RecvType
    BY <1>1, <2>1, <2>2, <2>3 DEF RecvType, Stats
  <2> QED BY <1>1, <1>2, <2>1, <2>2, <2>4
<1>6. ASSUME NEW n \in 1..Len(inflight), RefuseHeader(n) PROVE TypeOK'
  <2>1. Takes(n) /\ recv' = Start
        /\ UNCHANGED <<preset, m_floodAkEnable, list, uses, flood, mem, lens, accepted,
                       delivered, hasty, kicked>>
    BY <1>6 DEF RefuseHeader
  <2>2. inflight' \in Seq(Byte)
    BY <2>1, Taking
  <2> QED BY <1>1, <1>2, <1>3, <2>1, <2>2
<1>7. ASSUME NEW n \in 1..Len(inflight), HeaderOnly(n) \/ Body(n) PROVE TypeOK'
  <2>1. /\ Takes(n) /\ recv' = Start /\ lens' = lens /\ accepted' = accepted
        /\ Current \in 1..Len(lens) /\ Complete(Current, Part \o Received(n))
    BY <1>7, Completed
  <2>2. inflight' \in Seq(Byte) /\ Part \o Received(n) \in Seq(Byte)
    BY <2>1, Taking
  <2>3. PICK b \in Seq(Byte), p \in 1..Len(lens) : b = Part \o Received(n) /\ p = Current
    BY <2>1, <2>2
  <2>4. /\ UNCHANGED <<preset, m_floodAkEnable, uses>> /\ kicked' = IsFlood
        /\ mem' = [mem EXCEPT ![p] = IF IsFlood THEN "freed" ELSE "pool"]
        /\ IF IsFlood THEN list' = "recy" /\ delivered' = delivered
                      ELSE list' = list /\ delivered' = Append(delivered, b)
        /\ \/ /\ m_floodAkEnable
              /\ \E soon \in BOOLEAN :
                   /\ soon => flood.timed
                   /\ flood' = [FloodAttackCount |-> IF soon THEN flood.FloodAttackCount + 1
                                                     ELSE 0, timed |-> TRUE]
                   /\ hasty' = Append(hasty, soon)
           \/ ~m_floodAkEnable /\ flood' = flood /\ hasty' = hasty
    BY <2>1, <2>3, HandsOver
  <2>5. mem' \in [1..MaxPackets -> {"none", "receiving", "pool", "freed", "freed_twice"}]
    BY <1>1, <2>4
  <2>6. list' \in {"online", "recy", "free", "crashed"} /\ delivered' \in Seq(Seq(Byte))
    <3>1. Append(delivered, b) \in Seq(Seq(Byte))
      BY <1>1
    <3> QED BY <1>1, <2>4, <3>1
  <2>7. flood' \in [FloodAttackCount : Nat, timed : BOOLEAN] /\ hasty' \in Seq(BOOLEAN)
    <3>1. flood.FloodAttackCount \in Nat
      BY <1>1
    <3>2. ASSUME NEW soon \in BOOLEAN,
                 flood' = [FloodAttackCount |-> IF soon THEN flood.FloodAttackCount + 1
                                                ELSE 0, timed |-> TRUE],
                 hasty' = Append(hasty, soon)
          PROVE  /\ flood' \in [FloodAttackCount : Nat, timed : BOOLEAN]
                 /\ hasty' \in Seq(BOOLEAN)
      <4>1. Append(hasty, soon) \in Seq(BOOLEAN)
        BY <1>1
      <4>2. (IF soon THEN flood.FloodAttackCount + 1 ELSE 0) \in Nat
        BY <3>1
      <4> QED BY <3>2, <4>1, <4>2
    <3> QED BY <1>1, <2>4, <3>2
  <2>8. kicked' \in BOOLEAN
    BY <2>4 DEF IsFlood
  <2> QED BY <1>1, <1>2, <1>3, <2>1, <2>2, <2>4, <2>5, <2>6, <2>7, <2>8
<1>8. ASSUME NEW n \in 1..Len(inflight), BodyFollows(n) PROVE TypeOK'
  <2>1. /\ Takes(n) /\ InHeader /\ n = recv.irecvlen
        /\ Announced(n).len > m_iLenPkgHeader
        /\ mem' = [mem EXCEPT ![Announced(n).packet] = "receiving"]
        /\ recv' = [recv EXCEPT !.curStat = "_PKG_BD_INIT", !.head = HeaderBytes(n),
                                !.body = HeaderBytes(n),
                                !.irecvlen = Announced(n).len - m_iLenPkgHeader,
                                !.precvMemPointer = Announced(n).packet]
        /\ UNCHANGED <<preset, m_floodAkEnable, list, uses, flood, lens, accepted,
                       delivered, hasty, kicked>>
    BY <1>8 DEF BodyFollows
  <2>2. inflight' \in Seq(Byte) /\ HeaderBytes(n) \in Seq(Byte) /\ Current \in 1..Len(lens)
    BY <2>1, <1>4, Taking DEF HeaderBytes, Part
  <2>3. Announced(n).packet = Current /\ Announced(n).len = lens[Current]
    BY <2>1, HeaderComplete
  <2>4. lens[Current] - m_iLenPkgHeader \in Nat \ {0} /\ Current \in 0..MaxPackets
    <3>1. lens[Current] \in PkgLens /\ Len(lens) \in Nat /\ Len(lens) <= MaxPackets
      BY <1>1, <2>2 DEF Receiving
    <3>2. lens[Current] \in Nat /\ m_iLenPkgHeader \in Nat /\ MaxPackets \in Nat
      BY <3>1, Lengths, BoundsAssumption
    <3> QED BY <2>1, <2>2, <2>3, <3>1, <3>2
  <2>5. recv' \in RecvType
    BY <1>1, <2>1, <2>2, <2>3, <2>4 DEF RecvType, Stats
  <2>6. mem' \in [1..MaxPackets -> {"none", "receiving", "pool", "freed", "freed_twice"}]
    BY <1>1, <2>1
  <2> QED BY <1>1, <1>2, <2>1, <2>2, <2>5, <2>6
<1>9. ASSUME NEW n \in 1..Len(inflight), BodyPart(n) PROVE TypeOK'
  <2>1. Takes(n) /\ InBody /\ n < recv.irecvlen
        /\ recv' = [recv EXCEPT !.curStat = "_PKG_BD_RECVING", !.body = recv.body \o Received(n),
                                !.irecvlen = recv.irecvlen - n]
        /\ UNCHANGED <<preset, m_floodAkEnable, list, uses, flood, mem, lens, accepted,
                       delivered, hasty, kicked>>
    BY <1>9 DEF BodyPart
  <2>2. inflight' \in Seq(Byte) /\ recv.body \o Received(n) \in Seq(Byte) /\ n \in Nat \ {0}
    BY <2>1, Taking DEF Part
  <2>3. recv.irecvlen - n \in Nat \ {0}
    BY <1>4, <2>1, <2>2
  <2>4. recv' \in RecvType
    BY <1>1, <2>1, <2>2, <2>3 DEF RecvType, Stats
  <2> QED BY <1>1, <1>2, <2>1, <2>2, <2>4
<1>10. CASE Overrun
  BY <1>10, <1>1, <1>2 DEF Overrun, Close, RecvType, Stats
<1>11. CASE Leave
  BY <1>11, <1>1, <1>2 DEF Leave, Close
<1>12. CASE Recycle
  <2>1. 0 \in 0..MaxPackets
    BY BoundsAssumption
  <2>2. recv' \in RecvType
    BY <1>12, <1>1, <2>1 DEF Recycle, PutOneToFree, RecvType, Stats
  <2>3. mem' \in [1..MaxPackets -> {"none", "receiving", "pool", "freed", "freed_twice"}]
    BY <1>12, <1>1 DEF Recycle, PutOneToFree
  <2> QED BY <1>12, <1>1, <1>2, <2>2, <2>3 DEF Recycle
<1>13. CASE Crash
  BY <1>13, <1>1, <1>2 DEF Crash
<1>14. CASE Accept
  <2>1. uses + 1 \in 1..MaxUses
    BY <1>14, <1>1, BoundsAssumption DEF Accept
  <2>2. NoFlood \in [FloodAttackCount : Nat, timed : BOOLEAN]
    BY DEF NoFlood
  <2>3. /\ accepted' \in Seq(Seq(Byte)) /\ delivered' \in Seq(Seq(Byte))
        /\ hasty' \in Seq(BOOLEAN) /\ inflight' \in Seq(Byte)
    BY <1>14 DEF Accept
  <2>4. /\ uses' = uses + 1 /\ flood' = NoFlood /\ recv' = Start /\ list' = "online"
        /\ kicked' = FALSE /\ UNCHANGED <<preset, m_floodAkEnable, mem, lens>>
    BY <1>14 DEF Accept, FloodOfNext
  <2> QED BY <1>1, <1>2, <1>3, <2>1, <2>2, <2>3, <2>4
<1>15. ASSUME NEW len \in PkgLens, Send(len) PROVE TypeOK'
  <2>1. /\ lens' = Append(lens, len) /\ Len(lens) < MaxPackets
        /\ inflight' = inflight \o Bytes(Len(lens'), PacketLen(len))
        /\ accepted' = IF Legal(len) THEN Append(accepted, Bytes(Len(lens'), PacketLen(len)))
                       ELSE accepted
        /\ UNCHANGED <<preset, m_floodAkEnable, list, uses, recv, flood, mem, delivered, hasty,
                       kicked>>
    BY <1>15 DEF Send
  <2>2. lens' \in Seq(PkgLens) /\ Len(lens') \in 1..MaxPackets /\ PacketLen(len) \in Nat
    <3>1. Len(lens) \in Nat /\ Len(lens') = Len(lens) + 1 /\ lens' \in Seq(PkgLens)
      BY <1>1, <2>1
    <3> QED BY <2>1, <3>1, Lengths, BoundsAssumption
  <2>3. Bytes(Len(lens'), PacketLen(len)) \in Seq(Byte)
    BY <2>2, PacketOfBytes
  <2>4. inflight' \in Seq(Byte)
    BY <1>1, <2>1, <2>3, ConcatProperties
  <2>5. accepted' \in Seq(Seq(Byte))
    BY <1>1, <2>1, <2>3
  <2> QED BY <1>1, <1>2, <2>1, <2>2, <2>4, <2>5
<1>16. CASE UNCHANGED vars
  BY <1>16, <1>1, <1>2 DEF vars
<1> QED
  BY AllSteps, <1>5, <1>6, <1>7, <1>8, <1>9, <1>10, <1>11, <1>12, <1>13, <1>14, <1>15, <1>16

(* The packets *)

\* Bytes move from the socket to a buffer: the stream and its first packet stay.
LEMMA StreamStays ==
  ASSUME Stream' = Stream, lens' = lens
  PROVE  Current' = Current
BY DEF Current

\* Every step keeps the stream in order, and what is due.
LEMMA ReceivingStep == TypeOK /\ Receiving /\ [Next]_vars => Receiving'
<1> SUFFICES ASSUME TypeOK, Receiving, [Next]_vars PROVE Receiving'
  OBVIOUS
<1> USE DEF settingVars, clientVars
<1> DEFINE Kept == /\ Counted /\ InOrder(Stream, Current, lens)
                   /\ Due(accepted, Len(delivered), Current, lens)
<1>1. /\ lens \in Seq(PkgLens) /\ accepted \in Seq(Seq(Byte)) /\ delivered \in Seq(Seq(Byte))
      /\ recv \in RecvType /\ inflight \in Seq(Byte)
      /\ Len(lens) <= MaxPackets /\ (list = "online" => Kept)
      /\ Len(delivered) \in Nat /\ Len(lens) \in Nat
      /\ (list = "free" => recv.precvMemPointer = 0)
  BY RecvFields DEF TypeOK, Receiving
<1>2. ASSUME Len(lens') <= MaxPackets, list' = "online" => Kept',
             list' = "free" => recv'.precvMemPointer = 0
      PROVE  Receiving'
  BY <1>2 DEF Receiving
<1> HIDE DEF Kept
<1>3. /\ recv.curStat \in Stats /\ recv.head \in Seq(Byte) /\ recv.body \in Seq(Byte)
      /\ recv.irecvlen \in Nat \ {0} /\ recv.precvMemPointer \in 0..MaxPackets
      /\ InHeader <=> ~InBody
  BY RecvFields
<1>4. ASSUME NEW n \in 1..Len(inflight), HeaderPart(n) PROVE Receiving'
  <2>1. Takes(n) /\ InHeader /\ n < recv.irecvlen
        /\ recv' = [recv EXCEPT !.curStat = "_PKG_HD_RECVING", !.head = HeaderBytes(n),
                                !.irecvlen = @ - n]
        /\ UNCHANGED <<list, lens, accepted, delivered>>
    BY <1>4 DEF HeaderPart
  <2>2. /\ Part = recv.head /\ HeaderBytes(n) = Part \o Received(n) /\ list = "online"
        /\ Len(HeaderBytes(n)) = Len(recv.head) + n /\ n \in Nat /\ Len(recv.head) \in Nat
        /\ HeaderBytes(n) \o inflight' = Stream
    BY <1>3, <2>1, Taking DEF HeaderBytes, Part
  <2>3. /\ recv'.curStat = "_PKG_HD_RECVING" /\ recv'.head = HeaderBytes(n)
        /\ recv'.irecvlen = recv.irecvlen - n /\ recv'.precvMemPointer = recv.precvMemPointer
    BY <1>1, <2>1 DEF RecvType
  <2>4. InHeader' /\ ~InBody'
    BY <2>3 DEF InHeader, InBody
  <2>5. Stream' = Stream /\ Current' = Current
    BY <2>1, <2>2, <2>3, <2>4, StreamStays DEF Stream
  <2>6. Counted'
    <3>1. recv.precvMemPointer = 0 /\ Len(recv.head) + recv.irecvlen = m_iLenPkgHeader
      BY <1>1, <2>1, <2>2 DEF Kept, Counted
    <3>2. (Len(recv.head) + n) + (recv.irecvlen - n) = Len(recv.head) + recv.irecvlen
      BY <1>3, <2>2
    <3> QED BY <2>2, <2>3, <2>4, <3>1, <3>2 DEF Counted
  <2> QED BY <1>1, <1>2, <2>1, <2>2, <2>5, <2>6 DEF Kept
<1>5. Start.precvMemPointer = 0 /\ (recv' = Start => Counted')
  <2>1. ASSUME recv' = Start PROVE Counted'
    <3>1. /\ recv'.curStat = "_PKG_HD_INIT" /\ recv'.head = <<>>
          /\ recv'.irecvlen = m_iLenPkgHeader /\ recv'.precvMemPointer = 0
      BY <2>1 DEF Start
    <3>2. ~InBody' /\ Len(recv'.head) + m_iLenPkgHeader = m_iLenPkgHeader
      BY <3>1, LengthsAssumption DEF InBody
    <3> QED BY <3>1, <3>2 DEF Counted
  <2> QED BY <2>1 DEF Start
<1>6. ASSUME NEW n \in 1..Len(inflight), RefuseHeader(n) PROVE Receiving'
  <2>1. /\ Takes(n) /\ InHeader /\ n = recv.irecvlen /\ ~Legal(Announced(n).len)
        /\ recv' = Start /\ UNCHANGED <<list, lens, accepted, delivered>>
    BY <1>6 DEF RefuseHeader
  <2>2. /\ Len(Part \o Received(n)) = m_iLenPkgHeader
        /\ Announced(n).len = lens[Current]
    BY <2>1, HeaderComplete
  <2>3. list = "online" /\ Current \in 1..Len(lens)
    BY <2>1, Taking
  <2>4. m_iLenPkgHeader = PacketLen(lens[Current])
    BY <2>1, <2>2 DEF PacketLen
  <2>5. Current' = Current + 1 /\ InOrder(Stream', Current', lens')
    BY <2>1, <2>2, <2>4, Finishing
  <2>6. Due(accepted', Len(delivered'), Current', lens')
    <3>1. PICK c \in 1..Len(lens), acc \in Seq(Seq(Byte)), n0 \in Nat, ls \in Seq(PkgLens) :
            c = Current /\ acc = accepted /\ n0 = Len(delivered) /\ ls = lens
      BY <1>1, <2>3
    <3>2. Due(acc, n0, c, ls) /\ ~Legal(ls[c])
      BY <1>1, <2>1, <2>2, <2>3, <3>1 DEF Kept
    <3>3. Due(acc, n0, c + 1, ls)
      BY <3>1, <3>2, DueSkip
    <3> QED BY <2>1, <2>5, <3>1, <3>3
  <2> QED BY <1>1, <1>2, <1>5, <2>1, <2>3, <2>5, <2>6 DEF Kept
<1>7. ASSUME NEW n \in 1..Len(inflight), HeaderOnly(n) \/ Body(n) PROVE Receiving'
  <2>1. /\ Takes(n) /\ recv' = Start /\ lens' = lens /\ accepted' = accepted
        /\ Current \in 1..Len(lens) /\ Legal(lens[Current])
        /\ Len(Part \o Received(n)) = PacketLen(lens[Current])
        /\ Complete(Current, Part \o Received(n))
    BY <1>7, Completed
  <2>2. /\ list = "online" /\ Current' = Current + 1 /\ InOrder(Stream', Current', lens')
    BY <2>1, Taking, Finishing
  <2>3. list' = "recy" \/ (list' = list /\ delivered' = Append(delivered, Part \o Received(n)))
    BY <2>1, HandsOver
  <2>4. CASE list' = "recy"
    BY <1>1, <1>2, <2>1, <2>4
  <2>5. CASE list' = list /\ delivered' = Append(delivered, Part \o Received(n))
    <3>1. PICK c \in 1..Len(lens), acc \in Seq(Seq(Byte)), n0 \in Nat, ls \in Seq(PkgLens) :
            c = Current /\ acc = accepted /\ n0 = Len(delivered) /\ ls = lens
      BY <1>1, <2>1
    <3>2. Due(acc, n0, c, ls) /\ Legal(ls[c]) /\ c \in 1..Len(ls) /\ Len(ls) <= MaxPackets
      BY <1>1, <2>1, <2>2, <3>1 DEF Kept
    <3>3. Due(acc, n0 + 1, c + 1, ls)
      BY <3>1, <3>2, DueNext
    <3>4. Len(delivered') = n0 + 1
      BY <1>1, <2>5, <3>1
    <3> QED BY <1>1, <1>2, <1>5, <2>1, <2>2, <2>5, <3>1, <3>3, <3>4 DEF Kept
  <2> QED BY <2>3, <2>4, <2>5
<1>8. ASSUME NEW n \in 1..Len(inflight), BodyFollows(n) PROVE Receiving'
  <2>1. /\ Takes(n) /\ InHeader /\ n = recv.irecvlen /\ Legal(Announced(n).len)
        /\ recv' = [recv EXCEPT !.curStat = "_PKG_BD_INIT", !.head = HeaderBytes(n),
                                !.body = HeaderBytes(n),
                                !.irecvlen = Announced(n).len - m_iLenPkgHeader,
                                !.precvMemPointer = Announced(n).packet]
        /\ UNCHANGED <<list, lens, accepted, delivered>>
    BY <1>8 DEF BodyFollows
  <2>2. /\ HeaderBytes(n) = Part \o Received(n) /\ Len(HeaderBytes(n)) = m_iLenPkgHeader
        /\ HeaderBytes(n) # <<>> /\ HeaderBytes(n)[1].packet = Current
        /\ Announced(n).packet = Current /\ Announced(n).len = lens[Current]
    BY <2>1, HeaderComplete
  <2>3. /\ list = "online" /\ HeaderBytes(n) \o inflight' = Stream /\ Current \in 1..Len(lens)
    BY <2>1, <2>2, Taking
  <2>4. /\ recv'.curStat = "_PKG_BD_INIT" /\ recv'.body = HeaderBytes(n)
        /\ recv'.irecvlen = lens[Current] - m_iLenPkgHeader
        /\ recv'.precvMemPointer = Current
    BY <1>1, <2>1, <2>2 DEF RecvType
  <2>5. InBody' /\ ~InHeader'
    BY <2>4 DEF InHeader, InBody
  <2>6. Stream' = Stream /\ Current' = Current
    BY <2>1, <2>3, <2>4, <2>5, StreamStays DEF Stream
  <2>7. Counted'
    <3>1. m_iLenPkgHeader + (lens[Current] - m_iLenPkgHeader) = lens[Current]
      <4>1. PICK c \in 1..Len(lens), ls \in Seq(PkgLens) : c = Current /\ ls = lens
        BY <1>1, <2>3
      <4>2. ls[c] \in PkgLens
        BY <4>1
      <4>3. ls[c] \in Int /\ m_iLenPkgHeader \in Int
        BY <4>2, Lengths
      <4> QED BY <4>1, <4>3
    <3> QED BY <2>1, <2>2, <2>3, <2>4, <2>5, <3>1 DEF Counted
  <2> QED BY <1>1, <1>2, <2>1, <2>3, <2>6, <2>7 DEF Kept
<1>9. ASSUME NEW n \in 1..Len(inflight), BodyPart(n) PROVE Receiving'
  <2>1. Takes(n) /\ InBody /\ n < recv.irecvlen
        /\ recv' = [recv EXCEPT !.curStat = "_PKG_BD_RECVING", !.body = recv.body \o Received(n),
                                !.irecvlen = recv.irecvlen - n]
        /\ UNCHANGED <<list, lens, accepted, delivered>>
    BY <1>9 DEF BodyPart
  <2>2. /\ Part = recv.body /\ list = "online" /\ n \in Nat /\ Len(recv.body) \in Nat
        /\ Len(recv.body \o Received(n)) = Len(recv.body) + n
        /\ (recv.body \o Received(n)) \o inflight' = Stream
        /\ recv.body \o Received(n) \in Seq(Byte)
        /\ Stream[1].packet = Current /\ inflight' \in Seq(Byte)
    BY <2>1, Taking DEF Part
  <2>3. /\ recv'.curStat = "_PKG_BD_RECVING" /\ recv'.body = recv.body \o Received(n)
        /\ recv'.irecvlen = recv.irecvlen - n /\ recv'.precvMemPointer = recv.precvMemPointer
    BY <1>1, <2>1 DEF RecvType
  <2>4. InBody' /\ ~InHeader'
    BY <2>3 DEF InHeader, InBody
  <2>5. Stream' = Stream /\ Current' = Current
    BY <2>1, <2>2, <2>3, <2>4, StreamStays DEF Stream
  <2>6. Counted'
    <3>1. /\ recv.body # <<>> /\ recv.body[1].packet = recv.precvMemPointer
          /\ recv.precvMemPointer \in 1..Len(lens) /\ Legal(lens[recv.precvMemPointer])
          /\ Len(recv.body) + recv.irecvlen = lens[recv.precvMemPointer]
      BY <1>1, <2>1, <2>2 DEF Kept, Counted
    <3>2. (Len(recv.body) + n) + (recv.irecvlen - n) = Len(recv.body) + recv.irecvlen
      BY <1>3, <2>2
    <3>3. PICK h \in Seq(Byte), t \in Seq(Byte), b \in Seq(Byte) :
            h = recv.body \o Received(n) /\ t = inflight' /\ b = recv.body
      BY <1>3, <2>2
    <3>4. h # <<>> /\ h[1].packet = recv.precvMemPointer
      <4>1. 1 \in 1..Len(b) /\ 1 \in 1..Len(h)
        BY <2>2, <3>1, <3>3
      <4>2. b[1] = Stream[1]
        <5>1. Stream = b \o inflight
          BY <2>1, <3>3 DEF Stream
        <5> QED BY <1>1, <4>1, <5>1, Parts
      <4>3. h[1] = Stream[1]
        <5>1. Stream = h \o t
          BY <2>2, <3>3
        <5> QED BY <4>1, <5>1, Parts
      <4> QED BY <3>1, <3>3, <4>1, <4>2, <4>3
    <3> QED BY <2>1, <2>2, <2>3, <2>4, <3>1, <3>2, <3>3, <3>4 DEF Counted
  <2> QED BY <1>1, <1>2, <2>1, <2>2, <2>5, <2>6 DEF Kept
<1>10. CASE Overrun \/ Leave \/ Crash
  <2>1. list' \in {"recy", "crashed"} /\ lens' = lens
    BY <1>10 DEF Overrun, Leave, Crash, Close
  <2> QED BY <1>1, <1>2, <2>1
<1>11. CASE Recycle
  <2>1. list' = "free" /\ lens' = lens /\ recv'.precvMemPointer = 0
    BY <1>11, <1>1 DEF Recycle, PutOneToFree, RecvType
  <2> QED BY <1>1, <1>2, <2>1
<1>12. CASE Accept
  <2>1. /\ list' = "online" /\ lens' = lens /\ recv' = Start /\ inflight' = <<>>
        /\ accepted' = <<>> /\ delivered' = <<>>
    BY <1>12 DEF Accept
  <2>2. Stream' = <<>> \o <<>>
    BY <2>1 DEF Stream, InBody, Start
  <2>3. Stream' = <<>> /\ Current' = Len(lens) + 1
    BY <2>1, <2>2 DEF Current
  <2>4. PICK P \in Nat : P = Len(lens)
    BY <1>1
  <2>5. InOrder(Stream', Current', lens')
    BY <2>1, <2>3, <2>4 DEF InOrder
  <2>6. Due(accepted', Len(delivered'), Current', lens')
    BY <2>1, <2>3, <2>4 DEF Due
  <2> QED BY <1>1, <1>2, <1>5, <2>1, <2>5, <2>6 DEF Kept
<1>13. ASSUME NEW len \in PkgLens, Send(len) PROVE Receiving'
  <2>1. /\ list = "online" /\ lens' = Append(lens, len) /\ Len(lens) < MaxPackets
        /\ inflight' = inflight \o Bytes(Len(lens'), PacketLen(len))
        /\ accepted' = IF Legal(len) THEN Append(accepted, Bytes(Len(lens'), PacketLen(len)))
                       ELSE accepted
        /\ UNCHANGED <<list, recv, delivered>>
    BY <1>13 DEF Send
  <2>a. PICK s, cur : s = Stream /\ cur = Current
    OBVIOUS
  <2>2. PICK ls \in Seq(PkgLens), q \in Seq(Byte), a \in Seq(Byte), acc \in Seq(Seq(Byte)),
             n0 \in Nat :
          /\ ls = lens /\ q = inflight /\ a = Part /\ s = Stream /\ cur = Current
          /\ acc = accepted /\ n0 = Len(delivered)
    <3>1. Part \in Seq(Byte)
      BY <1>3 DEF Part
    <3> QED BY <1>1, <2>a, <3>1
  <2>3. PICK b : b = Bytes(Len(ls) + 1, PacketLen(len))
    OBVIOUS
  <2>4. /\ Len(lens') = Len(ls) + 1 /\ Len(ls) + 1 \in 1..MaxPackets
        /\ PacketLen(len) \in Nat \ {0}
    BY <1>1, <2>1, <2>2, Lengths, BoundsAssumption
  <2>5. /\ b \in Seq(Byte) /\ Len(b) = PacketLen(len)
        /\ \A k \in 1..Len(b) : b[k] = [packet |-> Len(ls) + 1, place |-> k]
    BY <2>3, <2>4, PacketOfBytes
  <2>6. s = a \o q /\ s \in Seq(Byte)
    BY <2>2, ConcatProperties DEF Stream, Part
  <2>7. Stream' = s \o b
    <3>1. Stream' = a \o (q \o b)
      BY <2>1, <2>2, <2>3, <2>4 DEF Stream, Part, InBody
    <3>2. PICK u : u = q \o b
      OBVIOUS
    <3>3. b # <<>>
      BY <2>4, <2>5
    <3>4. \A h, t : h = a \o q /\ t = q \o b => h \o b = a \o t
      BY <2>5, <3>3, Added
    <3>5. s \o b = a \o u
      BY <2>6, <3>2, <3>4, Zenon
    <3> QED BY <3>1, <3>2, <3>5
  <2>8. InOrder(s, cur, ls) /\ Due(acc, n0, cur, ls) /\ Counted
    BY <1>1, <2>1, <2>2 DEF Kept
  <2>9. InOrder(s \o b, cur, Append(ls, len))
    BY <2>5, <2>6, <2>8, OrderAppend
  <2>10. Current' = cur
    <3>1. s \o b # <<>>
      <4>1. b # <<>>
        BY <2>4, <2>5
      <4> QED BY <2>5, <2>6, <4>1, Added
    <3>2. (s \o b)[1] = [packet |-> cur, place |-> 1]
      BY <2>9, <3>1, Zenon DEF InOrder
    <3> QED BY <2>7, <3>1, <3>2 DEF Current
  <2>11. cur \in 1..(Len(ls) + 1)
    <3>1. CASE s = <<>>
      <4>1. cur = Len(ls) + 1
        BY <2>8, <3>1, Zenon DEF InOrder
      <4> QED BY <4>1
    <3>2. CASE s # <<>>
      <4>1. cur \in 1..Len(ls)
        BY <2>6, <2>8, <3>2, BeginsWhole
      <4> QED BY <4>1
    <3> QED BY <3>1, <3>2
  <2>12. Due(accepted', Len(delivered'), Current', lens')
    <3>1. Due(IF Legal(len) THEN Append(acc, Bytes(Len(ls) + 1, len)) ELSE acc,
              n0, cur, Append(ls, len))
      BY <2>1, <2>2, <2>8, <2>11, DueAppend
    <3>2. Legal(len) => PacketLen(len) = len
      BY Lengths
    <3>3. accepted' = IF Legal(len) THEN Append(acc, Bytes(Len(ls) + 1, len)) ELSE acc
      BY <2>1, <2>2, <2>4, <3>2
    <3> QED BY <2>1, <2>2, <2>10, <3>1, <3>3
  <2>13. Counted'
    <3>1. \A p \in 1..Len(lens) : p \in 1..Len(lens') /\ lens'[p] = lens[p]
      BY <1>1, <2>1
    <3> QED BY <2>1, <2>8, <3>1 DEF Counted, InHeader, InBody
  <2>14. Len(lens') <= MaxPackets /\ list' = "online"
    BY <2>1, <2>4, BoundsAssumption
  <2> QED BY <1>2, <2>1, <2>2, <2>7, <2>9, <2>10, <2>12, <2>13, <2>14 DEF Kept
<1>14. CASE UNCHANGED vars
  BY <1>14 DEF vars, Receiving, Counted, InHeader, InBody, Stream, Current
<1> QED
  BY AllSteps, <1>4, <1>6, <1>7, <1>8, <1>9, <1>10, <1>11, <1>12, <1>13, <1>14

(* The buffers *)

\* The bytes still to come fit into the room there is.
Fits == list = "online" => recv.irecvlen <= Room

\* In the header that is dataHeadInfo, in the body the buffer of the packet.
LEMMA RoomEnough == TypeOK /\ Receiving => Fits
<1> SUFFICES ASSUME TypeOK, Receiving, list = "online" PROVE recv.irecvlen <= Room
  BY DEF Fits
<1>1. /\ recv.head \in Seq(Byte) /\ recv.body \in Seq(Byte) /\ recv.irecvlen \in Nat \ {0}
      /\ lens \in Seq(PkgLens) /\ (InHeader <=> ~InBody)
  BY RecvFields
<1>2. Counted
  BY DEF Receiving
<1>3. CASE InHeader
  <2>1. Len(recv.head) \in Nat /\ Len(recv.head) + recv.irecvlen = m_iLenPkgHeader
    BY <1>1, <1>2, <1>3 DEF Counted
  <2>2. m_iLenPkgHeader \in Nat /\ m_iLenPkgHeader <= _DATA_BUFSIZE_ /\ _DATA_BUFSIZE_ \in Nat
    BY LengthsAssumption
  <2>3. Room = _DATA_BUFSIZE_ - Len(recv.head)
    BY <1>3 DEF Room
  <2> QED BY <1>1, <2>1, <2>2, <2>3
<1>4. CASE InBody
  <2>1. /\ Len(recv.body) \in Nat /\ recv.precvMemPointer \in 1..Len(lens)
        /\ Len(recv.body) + recv.irecvlen = lens[recv.precvMemPointer]
    BY <1>1, <1>2, <1>4 DEF Counted
  <2>2. Room = lens[recv.precvMemPointer] - Len(recv.body)
    BY <1>1, <1>4 DEF Room
  <2> QED BY <1>1, <2>1, <2>2
<1> QED BY <1>1, <1>3, <1>4

\* Every step keeps the buffers.
LEMMA BuffersStep ==
  TypeOK /\ Receiving /\ BuffersKept /\ [Next]_vars /\ TypeOK' /\ Receiving' => BuffersKept'
<1>0. TypeOK' /\ Receiving' => Fits'
  BY RoomEnough, PTL
<1> SUFFICES ASSUME TypeOK, Receiving, BuffersKept, [Next]_vars, TypeOK', Receiving'
             PROVE  BuffersKept'
  OBVIOUS
<1> USE DEF settingVars, clientVars
<1> DEFINE Owned == \A p \in 1..MaxPackets :
                      /\ mem[p] # "freed_twice"
                      /\ mem[p] = "receiving" <=> recv.precvMemPointer = p
           Unharmed == preset = 0 => ~recv.overrun
<1>1. /\ Owned /\ Unharmed /\ preset \in Nat /\ recv \in RecvType
      /\ mem \in [1..MaxPackets -> {"none", "receiving", "pool", "freed", "freed_twice"}]
      /\ (list = "free" => recv.precvMemPointer = 0)
      /\ Len(lens) <= MaxPackets /\ Len(lens) \in Nat
  <2>1. lens \in Seq(PkgLens) /\ recv \in RecvType
    BY RecvFields
  <2>2. Len(lens) \in Nat
    BY <2>1
  <2>3. Owned /\ Unharmed
    BY DEF BuffersKept
  <2>4. /\ preset \in Nat
        /\ mem \in [1..MaxPackets -> {"none", "receiving", "pool", "freed", "freed_twice"}]
    BY DEF TypeOK
  <2>5. (list = "free" => recv.precvMemPointer = 0) /\ Len(lens) <= MaxPackets
    BY DEF Receiving
  <2> HIDE DEF Owned, Unharmed
  <2> QED BY <2>1, <2>2, <2>3, <2>4, <2>5
<1>2. list' = "online" => (recv.irecvlen <= Room)'
  BY <1>0 DEF Fits
<1>3. ASSUME Owned', Unharmed' PROVE BuffersKept'
  BY <1>2, <1>3 DEF BuffersKept
<1>4. Start.precvMemPointer = 0 /\ ~Start.overrun
  BY DEF Start
<1>5. \A p \in 1..MaxPackets : p # 0
  OBVIOUS
<1>6. ASSUME NEW n \in 1..Len(inflight), HeaderPart(n) \/ BodyPart(n) PROVE BuffersKept'
  <2>1. recv'.precvMemPointer = recv.precvMemPointer /\ recv'.overrun = recv.overrun
        /\ preset' = preset /\ mem' = mem
    BY <1>1, <1>6 DEF HeaderPart, BodyPart, RecvType
  <2> QED BY <1>1, <1>3, <2>1
<1>7. ASSUME NEW n \in 1..Len(inflight), RefuseHeader(n) PROVE BuffersKept'
  <2>1. recv' = Start /\ preset' = preset /\ mem' = mem /\ InHeader /\ Takes(n)
    BY <1>7 DEF RefuseHeader
  <2>2. recv.precvMemPointer = 0
    BY <2>1, Taking DEF Receiving, Counted
  <2> QED BY <1>1, <1>3, <1>4, <2>1, <2>2
<1>8. ASSUME NEW n \in 1..Len(inflight), HeaderOnly(n) \/ Body(n) PROVE BuffersKept'
  <2>1. /\ recv' = Start /\ Current \in 1..Len(lens) /\ recv.precvMemPointer \in {0, Current}
        /\ Complete(Current, Part \o Received(n))
    BY <1>8, Completed
  <2>2. PICK c \in 1..MaxPackets : c = Current
    BY <1>1, <2>1, BoundsAssumption
  <2>3. /\ preset' = preset
        /\ mem' = [mem EXCEPT ![c] = IF IsFlood THEN "freed" ELSE "pool"]
    BY <2>1, <2>2, HandsOver
  <2>4. mem'[c] \in {"freed", "pool"} /\ \A p \in 1..MaxPackets : p # c => mem'[p] = mem[p]
    BY <1>1, <2>2, <2>3
  <2>5. Owned'
    BY <1>1, <1>4, <1>5, <2>1, <2>2, <2>4
  <2>6. Unharmed'
    BY <1>4, <2>1
  <2> QED BY <1>3, <2>5, <2>6
<1>9. ASSUME NEW n \in 1..Len(inflight), BodyFollows(n) PROVE BuffersKept'
  <2>1. /\ Takes(n) /\ InHeader /\ n = recv.irecvlen
        /\ mem' = [mem EXCEPT ![Announced(n).packet] = "receiving"]
        /\ recv'.precvMemPointer = Announced(n).packet /\ recv'.overrun = recv.overrun
        /\ preset' = preset
    BY <1>1, <1>9 DEF BodyFollows, RecvType
  <2>2. /\ recv.precvMemPointer = 0 /\ Announced(n).packet = Current
        /\ Current \in 1..Len(lens)
    BY <2>1, Taking, HeaderComplete DEF Receiving, Counted
  <2>3. PICK c \in 1..MaxPackets : c = Current
    BY <1>1, <2>2, BoundsAssumption
  <2>4. /\ mem' = [mem EXCEPT ![c] = "receiving"]
        /\ recv'.precvMemPointer = c
    BY <2>1, <2>2, <2>3
  <2>5. mem'[c] = "receiving" /\ \A p \in 1..MaxPackets : p # c => mem'[p] = mem[p]
    BY <1>1, <2>3, <2>4
  <2>6. Owned'
    BY <1>1, <1>5, <2>2, <2>4, <2>5
  <2>7. Unharmed'
    BY <1>1, <2>1
  <2> QED BY <1>3, <2>6, <2>7
<1>10. CASE Overrun
  <2>1. /\ list = "online" /\ preset > Room /\ preset' = preset /\ mem' = mem
        /\ recv'.precvMemPointer = recv.precvMemPointer
    BY <1>1, <1>10 DEF Overrun, RecvType
  <2>2. preset # 0
    <3>1. recv.irecvlen <= Room /\ recv.irecvlen \in Nat \ {0} /\ Room \in Int
      <4>1. /\ Len(recv.head) \in Nat /\ Len(recv.body) \in Nat /\ recv.irecvlen \in Nat \ {0}
            /\ (InHeader <=> ~InBody) /\ _DATA_BUFSIZE_ \in Nat
        BY RecvFields, LengthsAssumption
      <4>2. InBody => lens[recv.precvMemPointer] \in PkgLens
        BY <2>1, RecvFields DEF Receiving, Counted
      <4>3. Room \in Int
        BY <4>1, <4>2, Lengths DEF Room
      <4> QED BY <2>1, <4>1, <4>3, RoomEnough DEF Fits
    <3> QED BY <2>1, <3>1
  <2> QED BY <1>1, <1>3, <2>1, <2>2
<1>11. CASE Leave \/ Crash
  <2>1. recv' = recv /\ mem' = mem /\ preset' = preset
    BY <1>11 DEF Leave, Crash
  <2> QED BY <1>1, <1>3, <2>1
<1>12. CASE Recycle
  <2>1. /\ ~recv.overrun /\ preset' = preset /\ recv'.precvMemPointer = 0
        /\ recv'.overrun = recv.overrun
        /\ mem' = [p \in 1..MaxPackets |->
                     IF p # recv.precvMemPointer THEN mem[p]
                     ELSE IF mem[p] = "receiving" THEN "freed" ELSE "freed_twice"]
    BY <1>1, <1>12 DEF Recycle, PutOneToFree, RecvType
  <2>2. ASSUME NEW p \in 1..MaxPackets
        PROVE  mem'[p] # "freed_twice" /\ mem'[p] # "receiving"
    <3>1. mem'[p] = IF p # recv.precvMemPointer THEN mem[p]
                    ELSE IF mem[p] = "receiving" THEN "freed" ELSE "freed_twice"
      BY <2>1
    <3>2. mem[p] # "freed_twice" /\ (mem[p] = "receiving" <=> recv.precvMemPointer = p)
      BY <1>1
    <3> QED BY <3>1, <3>2
  <2>3. Owned'
    BY <1>5, <2>1, <2>2
  <2> QED BY <1>3, <2>1, <2>3
<1>13. CASE Accept
  <2>1. recv' = Start /\ mem' = mem /\ preset' = preset /\ list = "free"
    BY <1>13 DEF Accept
  <2> QED BY <1>1, <1>3, <1>4, <2>1
<1>14. ASSUME NEW len \in PkgLens, Send(len) PROVE BuffersKept'
  <2>1. recv' = recv /\ mem' = mem /\ preset' = preset
    BY <1>14 DEF Send
  <2> QED BY <1>1, <1>3, <2>1
<1>15. CASE UNCHANGED vars
  BY <1>15, <1>1, <1>3 DEF vars
<1> QED
  BY AllSteps, <1>6, <1>7, <1>8, <1>9, <1>10, <1>11, <1>12, <1>13, <1>14, <1>15

(* The flood test *)

\* When the last n packets are hasty and the one before is not, and there was no run of
\* kc hasty packets before the last packet, there is one now exactly if n >= kc.
LEMMA LastRun ==
  ASSUME NEW H \in Seq(BOOLEAN), NEW n \in Nat, NEW kc \in Nat \ {0}, n <= Len(H),
         \A j \in 1..Len(H) : j > Len(H) - n => H[j],
         n < Len(H) => ~H[Len(H) - n],
         \A i \in 0..(Len(H) - 1 - kc) : \E j \in 1..kc : ~H[i + j]
  PROVE  n >= kc <=> \E i \in 0..(Len(H) - kc) : \A j \in 1..kc : H[i + j]
<1> DEFINE L == Len(H)
<1>1. L \in Int /\ n \in Int /\ kc \in Int /\ 0 <= n /\ 1 <= kc /\ n <= L
  OBVIOUS
<1>2. /\ \A j \in 1..L : j > L - n => H[j]
      /\ n < L => ~H[L - n]
      /\ \A i \in 0..(L - 1 - kc) : \E j \in 1..kc : ~H[i + j]
  OBVIOUS
<1> HIDE DEF L
<1>3. ASSUME n >= kc PROVE \E i \in 0..(L - kc) : \A j \in 1..kc : H[i + j]
  <2>1. L - kc \in 0..(L - kc)
    BY <1>1, <1>3
  <2>2. ASSUME NEW j \in 1..kc PROVE H[(L - kc) + j]
    <3>1. (L - kc) + j \in 1..L /\ (L - kc) + j > L - n
      BY <1>1, <1>3
    <3> QED BY <1>2, <3>1
  <2> QED BY <2>1, <2>2
<1>4. ASSUME NEW i \in 0..(L - kc), \A j \in 1..kc : H[i + j], ~(n >= kc) PROVE FALSE
  <2>1. CASE i = L - kc
    <3>1. n < L /\ kc - n \in 1..kc /\ i + (kc - n) = L - n
      BY <1>1, <1>4, <2>1
    <3>2. H[i + (kc - n)]
      BY <1>4, <3>1
    <3> QED BY <1>2, <3>1, <3>2
  <2>2. CASE i # L - kc
    <3>1. i \in 0..(L - 1 - kc)
      BY <1>1, <2>2
    <3> QED BY <1>2, <1>4, <3>1
  <2> QED BY <2>1, <2>2
<1> QED BY <1>3, <1>4 DEF L

\* The count goes on or begins again with the packet that is complete.
LEMMA RunGoesOn ==
  ASSUME NEW H \in Seq(BOOLEAN), NEW n \in Nat, n <= Len(H), NEW soon \in BOOLEAN, NEW m,
         \A j \in 1..Len(H) : j > Len(H) - n => H[j],
         n < Len(H) => ~H[Len(H) - n],
         m = IF soon THEN n + 1 ELSE 0
  PROVE  LET G == Append(H, soon) IN
         /\ G \in Seq(BOOLEAN) /\ m \in Nat /\ m <= Len(G) /\ Len(G) = Len(H) + 1
         /\ \A j \in 1..Len(H) : G[j] = H[j]
         /\ \A j \in 1..Len(G) : j > Len(G) - m => G[j]
         /\ m < Len(G) => ~G[Len(G) - m]
<1> DEFINE L == Len(H)
           G == Append(H, soon)
<1>1. L \in Int /\ n \in Int /\ 0 <= n /\ n <= L /\ 0 <= L
  OBVIOUS
<1>2. /\ G \in Seq(BOOLEAN) /\ Len(G) = L + 1 /\ G[L + 1] = soon
      /\ \A j \in 1..L : G[j] = H[j]
  OBVIOUS
<1>3. /\ \A j \in 1..L : j > L - n => H[j]
      /\ n < L => ~H[L - n]
  OBVIOUS
<1>4. m = IF soon THEN n + 1 ELSE 0
  OBVIOUS
<1> HIDE DEF L, G
<1>5. m \in Nat /\ m <= L + 1
  BY <1>1, <1>4
<1>6. ASSUME NEW j \in 1..(L + 1), j > (L + 1) - m PROVE G[j]
  <2>1. soon /\ m = n + 1
    BY <1>1, <1>4, <1>6
  <2>2. CASE j = L + 1
    BY <1>2, <2>1, <2>2
  <2>3. CASE j # L + 1
    <3>1. j \in 1..L /\ j > L - n
      BY <1>1, <1>6, <2>1, <2>3
    <3> QED BY <1>2, <1>3, <3>1
  <2> QED BY <2>2, <2>3
<1>7. ASSUME m < L + 1 PROVE ~G[(L + 1) - m]
  <2>1. CASE soon
    <3>1. m = n + 1 /\ n < L /\ (L + 1) - m = L - n /\ L - n \in 1..L
      BY <1>1, <1>4, <1>7, <2>1
    <3> QED BY <1>2, <1>3, <3>1
  <2>2. CASE ~soon
    <3>1. (L + 1) - m = L + 1
      BY <1>1, <1>4, <2>2
    <3> QED BY <1>2, <2>2, <3>1
  <2> QED BY <2>1, <2>2
<1>8. /\ m <= Len(G)
      /\ \A j \in 1..Len(G) : j > Len(G) - m => G[j]
      /\ m < Len(G) => ~G[Len(G) - m]
  BY <1>2, <1>5, <1>6, <1>7
<1> QED BY <1>2, <1>5, <1>8 DEF G, L

\* Every step keeps the count, and kicks who is to be kicked.
LEMMA FloodStep ==
  TypeOK /\ Receiving /\ FloodCounted /\ FloodKicks /\ [Next]_vars => FloodCounted' /\ FloodKicks'
<1> SUFFICES ASSUME TypeOK, Receiving, FloodCounted, FloodKicks, [Next]_vars
             PROVE  FloodCounted' /\ FloodKicks'
  OBVIOUS
<1> USE DEF settingVars, clientVars
<1>1. ASSUME UNCHANGED <<m_floodAkEnable, flood, hasty, kicked>>,
             list' = "online" => list = "online"
      PROVE  FloodCounted' /\ FloodKicks'
  BY <1>1 DEF FloodCounted, FloodKicks
<1>2. ASSUME NEW n \in 1..Len(inflight),
             HeaderPart(n) \/ RefuseHeader(n) \/ BodyFollows(n) \/ BodyPart(n)
      PROVE  FloodCounted' /\ FloodKicks'
  BY <1>1, <1>2 DEF HeaderPart, RefuseHeader, BodyFollows, BodyPart
<1>3. ASSUME NEW n \in 1..Len(inflight), HeaderOnly(n) \/ Body(n)
      PROVE  FloodCounted' /\ FloodKicks'
  <2>1. Takes(n) /\ Complete(Current, Part \o Received(n))
    BY <1>3, Completed
  <2>2. list = "online"
    BY <2>1 DEF Takes
  <2>3. /\ m_floodAkEnable' = m_floodAkEnable /\ kicked' = IsFlood
        /\ IsFlood => list' = "recy"
        /\ \/ /\ m_floodAkEnable
              /\ \E soon \in BOOLEAN :
                   /\ soon => flood.timed
                   /\ flood' = [FloodAttackCount |-> IF soon THEN flood.FloodAttackCount + 1
                                                     ELSE 0, timed |-> TRUE]
                   /\ hasty' = Append(hasty, soon)
           \/ ~m_floodAkEnable /\ flood' = flood /\ hasty' = hasty
    BY <2>1, HandsOver
  <2>4. CASE ~m_floodAkEnable
    BY <2>3, <2>4 DEF FloodCounted, FloodKicks
  <2>5. CASE m_floodAkEnable
    <3>1. PICK soon \in BOOLEAN :
            /\ flood' = [FloodAttackCount |-> IF soon THEN flood.FloodAttackCount + 1 ELSE 0,
                         timed |-> TRUE]
            /\ hasty' = Append(hasty, soon)
      BY <2>3, <2>5
    <3>2. PICK H \in Seq(BOOLEAN), k \in Nat, kc \in Nat \ {0} :
            H = hasty /\ k = flood.FloodAttackCount /\ kc = m_floodKickCount
      BY FloodAssumption DEF TypeOK
    <3>3. PICK G, m : G = Append(H, soon) /\ m = IF soon THEN k + 1 ELSE 0
      OBVIOUS
    <3>4. flood'.FloodAttackCount = m /\ hasty' = G
      BY <3>1, <3>2, <3>3
    <3>5. /\ k <= Len(H) /\ ~kicked
          /\ \A j \in 1..Len(H) : j > Len(H) - k => H[j]
          /\ k < Len(H) => ~H[Len(H) - k]
      BY <2>2, <2>5, <3>2 DEF FloodCounted
    <3>6. /\ G \in Seq(BOOLEAN) /\ m \in Nat /\ m <= Len(G) /\ Len(G) = Len(H) + 1
          /\ \A j \in 1..Len(H) : G[j] = H[j]
          /\ \A j \in 1..Len(G) : j > Len(G) - m => G[j]
          /\ m < Len(G) => ~G[Len(G) - m]
      BY <3>3, <3>5, RunGoesOn
    <3>7. kicked' <=> m >= kc
      BY <2>3, <2>5, <3>2, <3>4 DEF IsFlood
    <3>8. FloodCounted'
      <4>1. kicked' => list' # "online"
        BY <2>3
      <4> QED BY <3>2, <3>4, <3>6, <3>7, <4>1 DEF FloodCounted
    <3>9. ASSUME NEW i \in 0..(Len(G) - 1 - kc) PROVE \E j \in 1..kc : ~G[i + j]
      <4>1. i \in 0..(Len(H) - kc)
        BY <3>6
      <4>2. \E j \in 1..kc : ~H[i + j]
        BY <2>5, <3>2, <3>5, <4>1, Zenon DEF FloodKicks
      <4>3. \A j \in 1..kc : i + j \in 1..Len(H)
        BY <4>1
      <4> QED BY <3>6, <4>2, <4>3
    <3>10. m >= kc <=> \E i \in 0..(Len(G) - kc) : \A j \in 1..kc : G[i + j]
      BY <3>6, <3>9, LastRun
    <3>11. FloodKicks'
      BY <3>2, <3>4, <3>7, <3>10, Zenon DEF FloodKicks
    <3> QED BY <3>8, <3>11
  <2> QED BY <2>4, <2>5
<1>4. CASE Overrun \/ Leave \/ Recycle \/ Crash
  BY <1>1, <1>4 DEF Overrun, Leave, Recycle, Crash, Close
<1>5. CASE Accept
  <2>1. flood'.FloodAttackCount = 0 /\ hasty' = <<>> /\ kicked' = FALSE
    BY <1>5 DEF Accept, FloodOfNext, NoFlood
  <2>2. m_floodKickCount \in Nat \ {0}
    BY FloodAssumption
  <2>3. ~(0 >= m_floodKickCount) /\ \A i \in 0..(0 - m_floodKickCount) : FALSE
    BY <2>2
  <2>4. FloodCounted'
    BY <2>1, <2>3 DEF FloodCounted
  <2>5. FloodKicks'
    BY <2>1, <2>3 DEF FloodKicks
  <2> QED BY <2>4, <2>5
<1>6. ASSUME NEW len \in PkgLens, Send(len) PROVE FloodCounted' /\ FloodKicks'
  BY <1>1, <1>6 DEF Send
<1>7. CASE UNCHANGED vars
  BY <1>1, <1>7 DEF vars
<1> QED
  BY AllSteps, <1>2, <1>3, <1>4, <1>5, <1>6, <1>7

(* The theorems *)

\* The program begins with an empty stream, an empty buffer and nothing that is due.
LEMMA InitIInv == Init => IInv
<1> SUFFICES ASSUME Init PROVE IInv
  OBVIOUS
<1>1. /\ preset \in Presets /\ m_floodAkEnable \in FloodTests /\ list = "online" /\ uses = 1
      /\ recv = Start /\ flood = NoFlood /\ mem = [p \in 1..MaxPackets |-> "none"]
      /\ lens = <<>> /\ accepted = <<>> /\ inflight = <<>> /\ delivered = <<>> /\ hasty = <<>>
      /\ kicked = FALSE
  BY DEF Init
<1>2. /\ m_iLenPkgHeader \in Nat \ {0} /\ m_iLenPkgHeader <= _DATA_BUFSIZE_
      /\ _DATA_BUFSIZE_ \in Nat /\ MaxPackets \in Nat /\ 1 \in 1..MaxUses
      /\ m_floodKickCount \in Nat \ {0} /\ preset \in Nat /\ m_floodAkEnable \in BOOLEAN
  BY <1>1, LengthsAssumption, FloodAssumption, BoundsAssumption
<1>3. /\ recv.curStat = "_PKG_HD_INIT" /\ recv.head = <<>> /\ recv.body = <<>>
      /\ recv.irecvlen = m_iLenPkgHeader /\ recv.precvMemPointer = 0 /\ ~recv.overrun
  BY <1>1 DEF Start
<1>4. InHeader /\ ~InBody
  BY <1>3 DEF InHeader, InBody
<1>5. TypeOK
  <2>1. recv \in [curStat : {"_PKG_HD_INIT", "_PKG_HD_RECVING", "_PKG_BD_INIT",
                             "_PKG_BD_RECVING"},
                  head : Seq(Byte), body : Seq(Byte), irecvlen : Nat \ {0},
                  precvMemPointer : 0..MaxPackets, overrun : BOOLEAN]
    BY <1>1, <1>2 DEF Start
  <2>2. flood \in [FloodAttackCount : Nat, timed : BOOLEAN]
    BY <1>1 DEF NoFlood
  <2>3. /\ lens \in Seq(PkgLens) /\ accepted \in Seq(Seq(Byte)) /\ inflight \in Seq(Byte)
        /\ delivered \in Seq(Seq(Byte)) /\ hasty \in Seq(BOOLEAN)
    BY <1>1
  <2>4. mem \in [1..MaxPackets -> {"none", "receiving", "pool", "freed", "freed_twice"}]
    BY <1>1
  <2>5. /\ preset \in Nat /\ m_floodAkEnable \in BOOLEAN /\ uses \in 1..MaxUses
        /\ list \in {"online", "recy", "free", "crashed"} /\ kicked \in BOOLEAN
    BY <1>1, <1>2
  <2> QED BY <2>1, <2>2, <2>3, <2>4, <2>5 DEF TypeOK
<1>6. Receiving
  <2>1. Len(lens) = 0 /\ Len(delivered) = 0 /\ Len(accepted) = 0
    BY <1>1
  <2>2. Stream = <<>> \o <<>>
    BY <1>1, <1>3, <1>4 DEF Stream
  <2>3. Stream = <<>> /\ Current = 1
    BY <2>1, <2>2 DEF Current
  <2>4. Counted
    BY <1>2, <1>3, <1>4 DEF Counted
  <2>5. InOrder(Stream, Current, lens)
    BY <2>1, <2>3 DEF InOrder
  <2>6. Due(accepted, Len(delivered), Current, lens)
    BY <2>1, <2>3 DEF Due
  <2> QED BY <1>1, <1>2, <2>1, <2>4, <2>5, <2>6 DEF Receiving
<1>7. BuffersKept
  <2>1. Room = _DATA_BUFSIZE_ - 0
    BY <1>3, <1>4 DEF Room
  <2> QED BY <1>1, <1>2, <1>3, <2>1 DEF BuffersKept
<1>8. FloodCounted /\ FloodKicks
  <2>1. flood.FloodAttackCount = 0 /\ Len(hasty) = 0
    BY <1>1 DEF NoFlood
  <2>2. ~(0 >= m_floodKickCount) /\ \A i \in 0..(0 - m_floodKickCount) : FALSE
    BY <1>2
  <2> QED BY <1>1, <2>1, <2>2 DEF FloodCounted, FloodKicks
<1> QED BY <1>5, <1>6, <1>7, <1>8 DEF IInv

\* However recv cuts the stream, it stays the packets that were sent, in their order.
THEOREM Invariant == Spec => []IInv
<1>1. IInv /\ [Next]_vars => IInv'
  BY TypeStep, ReceivingStep, BuffersStep, FloodStep DEF IInv
<1> QED BY InitIInv, <1>1, PTL DEF Spec

\* ngx_read_request_handler keeps the receiving state of a connection well formed,
\* whatever number of bytes recv returns.
THEOREM TypeCorrect == Spec => []TypeOK
BY Invariant, PTL DEF IInv

\* recv never gets more room than there is behind precvbuf, and the buffer of a packet is
\* given away or freed once, also when the connection goes in the middle of the packet.
THEOREM BuffersRight == Spec => []BuffersKept
BY Invariant, PTL DEF IInv

\* TestFlood kicks a client exactly when m_floodKickCount packets in a row came too soon.
THEOREM FloodRight == Spec => []FloodKicks
BY Invariant, PTL DEF IInv

\* Every step is one of the channel, or none: a packet that is complete is the next one
\* that the client sent and the server accepts, the whole of it.
LEMMA StepsImplement == IInv /\ [Next]_vars => [Channel!Next]_(Channel!vars)
<1> SUFFICES ASSUME IInv, [Next]_vars PROVE Channel!Next \/ UNCHANGED Channel!vars
  OBVIOUS
<1> USE DEF settingVars, clientVars, Channel!vars
<1>1. /\ TypeOK /\ Receiving
      /\ lens \in Seq(PkgLens) /\ accepted \in Seq(Seq(Byte)) /\ delivered \in Seq(Seq(Byte))
      /\ Len(lens) \in Nat
  BY DEF IInv, TypeOK
<1>2. ASSUME accepted' = accepted, delivered' = delivered, list' = list
      PROVE  Channel!Next \/ UNCHANGED Channel!vars
  BY <1>2
<1>3. ASSUME accepted' = accepted, delivered' = delivered, list' # "online"
      PROVE  Channel!Next \/ UNCHANGED Channel!vars
  BY <1>3 DEF Channel!Next, Channel!Close
<1>4. ASSUME NEW n \in 1..Len(inflight),
             HeaderPart(n) \/ RefuseHeader(n) \/ BodyFollows(n) \/ BodyPart(n)
      PROVE  Channel!Next \/ UNCHANGED Channel!vars
  BY <1>2, <1>4 DEF HeaderPart, RefuseHeader, BodyFollows, BodyPart
<1>5. ASSUME NEW n \in 1..Len(inflight), HeaderOnly(n) \/ Body(n)
      PROVE  Channel!Next \/ UNCHANGED Channel!vars
  <2>1. /\ Takes(n) /\ recv' = Start /\ lens' = lens /\ accepted' = accepted
        /\ Current \in 1..Len(lens) /\ Legal(lens[Current])
        /\ Len(Part \o Received(n)) = PacketLen(lens[Current])
        /\ Complete(Current, Part \o Received(n))
    BY <1>1, <1>5, Completed
  <2>2. list = "online" /\ Part \o Received(n) = Bytes(Current, PacketLen(lens[Current]))
    BY <1>1, <2>1, Taking, Finishing
  <2>3. \/ list' = "recy" /\ delivered' = delivered
        \/ list' = list /\ delivered' = Append(delivered, Part \o Received(n))
    BY <2>1, HandsOver
  <2>4. CASE list' = "recy" /\ delivered' = delivered
    BY <1>3, <2>1, <2>4
  <2>5. CASE list' = list /\ delivered' = Append(delivered, Part \o Received(n))
    <3>1. PICK c \in 1..Len(lens), acc \in Seq(Seq(Byte)), n0 \in Nat, ls \in Seq(PkgLens) :
            c = Current /\ acc = accepted /\ n0 = Len(delivered) /\ ls = lens
      BY <1>1, <2>1
    <3>2. Due(acc, n0, c, ls) /\ Legal(ls[c]) /\ c \in 1..Len(ls) /\ Len(ls) <= MaxPackets
      BY <1>1, <2>1, <2>2, <3>1 DEF Receiving
    <3>3. n0 < Len(acc) /\ acc[n0 + 1] = Bytes(c, ls[c])
      BY <3>1, <3>2, DueNext
    <3>4. ls[c] \in PkgLens
      BY <3>2
    <3>5. PacketLen(ls[c]) = ls[c]
      BY <3>2, <3>4, Lengths
    <3>6. delivered' = Append(delivered, accepted[Len(delivered) + 1])
      BY <2>2, <2>5, <3>1, <3>3, <3>5
    <3>7. Channel!Deliver
      BY <2>1, <2>2, <2>5, <3>1, <3>3, <3>6 DEF Channel!Deliver
    <3> QED BY <3>7 DEF Channel!Next
  <2> QED BY <2>3, <2>4, <2>5
<1>6. CASE Overrun \/ Leave \/ Crash
  BY <1>3, <1>6 DEF Overrun, Leave, Crash, Close
<1>7. CASE Recycle
  <2>1. list # "online" /\ list' # "online" /\ accepted' = accepted /\ delivered' = delivered
    BY <1>7 DEF Recycle
  <2> QED BY <2>1
<1>8. CASE Accept
  BY <1>8 DEF Accept, Channel!Next, Channel!Reopen
<1>9. ASSUME NEW len \in PkgLens, Send(len)
      PROVE  Channel!Next \/ UNCHANGED Channel!vars
  <2>1. /\ list = "online" /\ list' = list /\ delivered' = delivered
        /\ lens' = Append(lens, len) /\ Len(lens) < MaxPackets
        /\ accepted' = IF Legal(len) THEN Append(accepted, Bytes(Len(lens'), PacketLen(len)))
                       ELSE accepted
    BY <1>9 DEF Send
  <2>2. CASE Legal(len)
    <3>1. Len(lens') \in 1..MaxPackets /\ PacketLen(len) = len
      <4>1. Len(lens') = Len(lens) + 1
        BY <1>1, <2>1
      <4> QED BY <1>1, <2>1, <2>2, <4>1, Lengths, BoundsAssumption
    <3>2. accepted' = Append(accepted, Bytes(Len(lens'), len))
      BY <2>1, <2>2, <3>1
    <3>3. Bytes(Len(lens'), len) \in {Bytes(p, l) : p \in 1..MaxPackets, l \in PkgLens}
      BY <3>1
    <3>4. Channel!Send
      BY <2>1, <3>2, <3>3 DEF Channel!Send
    <3> QED BY <3>4 DEF Channel!Next
  <2>3. CASE ~Legal(len)
    BY <1>2, <2>1, <2>3
  <2> QED BY <2>2, <2>3
<1>10. CASE UNCHANGED vars
  BY <1>2, <1>10 DEF vars
<1> QED
  BY AllSteps, <1>4, <1>5, <1>6, <1>7, <1>8, <1>9, <1>10

\* What the thread pool gets from ngx_read_request_handler are the packets of the present
\* client that the server accepts, whole, in their order, none twice and none left out.
THEOREM SafelyImplements == Spec => Channel!Safe
<1>1. Init => Channel!Init
  BY DEF Init, Channel!Init
<1> QED BY <1>1, StepsImplement, Invariant, PTL DEF Spec, Channel!Safe
=============================================================================
