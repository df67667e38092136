---------------------------- MODULE Startup_proofs ----------------------------
(***************************************************************************)
(* For every number of workers, Processes keeps its types, the master does *)
(* not forget a worker that has ended, and workers are forked in turn.     *)
(* The start of the program, with any nginx.conf, any ports and any        *)
(* failures, does with master and workers what Processes allows, so that   *)
(* this holds for the whole program.  A worker that is ready is the one    *)
(* that the file describes, and what Load finds in a file is what is       *)
(* written in it.                                                          *)
(***************************************************************************)
EXTENDS Startup, QueueFacts, FiniteSetTheorems, SequenceTheorems, TLAPS

(* Processes *)

\* The types, and where the master stands in the list of workers, are needed to
\* keep each other.
ProcessesIInv == TypeOK /\ ForkedInTurn

\* The invariant holds at first.
LEMMA InitProcessesIInv == Init => ProcessesIInv
<1> SUFFICES ASSUME Init PROVE ProcessesIInv
  OBVIOUS
<1>1. TypeOK
  BY WorkersAssumption DEF Init, TypeOK, Workers
<1>2. ForkedInTurn
  BY WorkersAssumption DEF Init, ForkedInTurn, Workers
<1> QED
  BY <1>1, <1>2 DEF ProcessesIInv

\* Every step keeps the invariant.
LEMMA NextProcessesIInv == ProcessesIInv /\ [Next]_vars => ProcessesIInv'
<1> SUFFICES ASSUME ProcessesIInv, [Next]_vars PROVE ProcessesIInv'
  OBVIOUS
<1> USE WorkersAssumption DEF ProcessesIInv, TypeOK, ForkedInTurn, Workers
<1>0. ASSUME NEW n \in 0..MaxWorkers, StartMaster(n) PROVE ProcessesIInv'
  BY <1>0 DEF StartMaster
<1>1. CASE ngx_spawn_process
  BY <1>1 DEF ngx_spawn_process
<1>2. CASE AllForked
  BY <1>2 DEF AllForked
<1>3. CASE ngx_signal_handler
  BY <1>3 DEF ngx_signal_handler
<1>4. CASE Reap
  BY <1>4 DEF Reap
<1>5. CASE NobodyToReap
  BY <1>5 DEF NobodyToReap
<1>6. ASSUME NEW w \in Workers, ngx_worker_process_init(w) PROVE ProcessesIInv'
  BY <1>6 DEF ngx_worker_process_init
<1>7. ASSUME NEW w \in Workers, Ends(w) PROVE ProcessesIInv'
  BY <1>7 DEF Ends
<1>8. CASE UNCHANGED vars
  BY <1>8 DEF vars
<1> QED
  BY <1>0, <1>1, <1>2, <1>3, <1>4, <1>5, <1>6, <1>7, <1>8
  DEF Next, ngx_master_process_cycle, ngx_process_get_status

\* The state of Processes has its types, whatever the number of workers.
THEOREM TypeCorrect == Spec => []TypeOK
<1>1. ProcessesIInv => TypeOK
  BY DEF ProcessesIInv
<1> QED
  BY InitProcessesIInv, NextProcessesIInv, <1>1, PTL DEF Spec

\* The loop of ngx_start_worker_processes gives each worker its turn exactly once
\* before the master waits for signals.
THEOREM EachItsTurn == Spec => []ForkedInTurn
<1>1. ProcessesIInv => ForkedInTurn
  BY DEF ProcessesIInv
<1> QED
  BY InitProcessesIInv, NextProcessesIInv, <1>1, PTL DEF Spec

\* Signals that merge do not make the master forget a worker that has ended: a
\* step that makes a zombie raises SIGCHLD, and the handler, which clears it, does
\* not leave waitpid while there is a zombie.
THEOREM ZombiesHeard == Spec => []NoZombieForgotten
<1>1. Init => NoZombieForgotten
  BY DEF Init, NoZombieForgotten
<1>2. TypeOK /\ NoZombieForgotten /\ [Next]_vars => NoZombieForgotten'
  <2> SUFFICES ASSUME TypeOK, NoZombieForgotten, [Next]_vars PROVE NoZombieForgotten'
    OBVIOUS
  <2> USE DEF TypeOK, NoZombieForgotten
  <2>0. ASSUME NEW n \in 0..MaxWorkers, StartMaster(n) PROVE NoZombieForgotten'
    BY <2>0 DEF StartMaster
  <2>1. CASE ngx_spawn_process
    BY <2>1 DEF ngx_spawn_process
  <2>2. CASE AllForked
    BY <2>2 DEF AllForked
  <2>3. CASE ngx_signal_handler
    BY <2>3 DEF ngx_signal_handler
  <2>4. CASE Reap
    BY <2>4 DEF Reap
  <2>5. CASE NobodyToReap
    BY <2>5 DEF NobodyToReap
  <2>6. ASSUME NEW w \in Workers, ngx_worker_process_init(w) PROVE NoZombieForgotten'
    BY <2>6 DEF ngx_worker_process_init
  <2>7. ASSUME NEW w \in Workers, Ends(w) PROVE NoZombieForgotten'
    BY <2>7 DEF Ends
  <2>8. CASE UNCHANGED vars
    BY <2>8 DEF vars
  <2> QED
    BY <2>0, <2>1, <2>2, <2>3, <2>4, <2>5, <2>6, <2>7, <2>8
    DEF Next, ngx_master_process_cycle, ngx_process_get_status
<1> QED
  BY <1>1, <1>2, TypeCorrect, PTL DEF Spec

(* What Load makes of a file *)

SettingItem == [ItemName : Seq(Token), ItemContent : Seq(Token)]

\* What is left of a text from a place on.
LEMMA RestOfText ==
  ASSUME NEW S, NEW s \in Seq(S), NEW i \in Nat \ {0}
  PROVE  /\ From(s, i) \in Seq(S)
         /\ Len(From(s, i)) = IF i <= Len(s) THEN Len(s) - i + 1 ELSE 0
BY PartOfList DEF From

\* Trimming leaves a text.
LEMMA Trimmed ==
  ASSUME NEW s \in Seq(Token)
  PROVE  /\ \A T : Chop(s, T) \in Seq(Token)
         /\ Rtrim(s) \in Seq(Token) /\ Ltrim(s) \in Seq(Token)
<1>1. ASSUME NEW T PROVE Chop(s, T) \in Seq(Token)
  <2>1. PICK l, P : l = Len(s) /\ P = {0} \cup Places(s, Token \ T)
    OBVIOUS
  <2>0. l \in Nat
    BY <2>1
  <2>2. P \in SUBSET (0..l) /\ P # {}
    BY <2>1 DEF Places
  <2>3. Max(P) \in P
    BY <2>0, <2>2, MaxAmong
  <2>4. PICK n \in 0..Len(s) : n = Max(P)
    BY <2>1, <2>2, <2>3
  <2>5. 1 \in Nat \ {0}
    OBVIOUS
  <2>6. SubSeq(s, 1, n) \in Seq(Token)
    BY <2>4, <2>5, PartOfList
  <2> QED BY <2>1, <2>4, <2>6 DEF Chop
<1>2. PICK n : n = Min({Len(s) + 1} \cup Places(s, Token \ {"space"}))
  OBVIOUS
<1>3. n \in Nat \ {0}
  <2>1. {Len(s) + 1} \cup Places(s, Token \ {"space"}) \in SUBSET (Nat \ {0})
    BY DEF Places
  <2> QED BY <1>2, <2>1, MinAmong
<1>4. Ltrim(s) \in Seq(Token)
  BY <1>2, <1>3, RestOfText DEF Ltrim
<1> QED BY <1>1, <1>4 DEF Rtrim

\* fgets takes something of what is left of a file, and not more than that.
LEMMA PieceFacts ==
  ASSUME NEW f \in Seq(Token), f # <<>>
  PROVE  Piece(f) \in Seq(Token) /\ Len(Piece(f)) \in 1..Len(f)
<1> DEFINE T == Places(f, {"newline"}) \cup {LineMax, Len(f)}
<1>1. PICK n : n = Min(T)
  OBVIOUS
<1>2. Len(f) \in Nat \ {0}
  OBVIOUS
<1>3. n \in 1..Len(f)
  <2>1. T \in SUBSET (Nat \ {0}) /\ Len(f) \in T
    BY <1>2, MaxAssumption DEF Places
  <2> HIDE DEF T
  <2>2. n \in T /\ n <= Len(f)
    BY <1>1, <2>1, MinAmong
  <2> QED BY <1>2, <2>1, <2>2
<1>4. Piece(f) = SubSeq(f, 1, n)
  BY <1>1 DEF Piece
<1> QED BY <1>3, <1>4, PartOfList

\* A line with "=" makes a setting.
LEMMA ItemTyped ==
  ASSUME NEW line \in Seq(Token), Places(line, {"="}) # {}
  PROVE  Item(line) \in SettingItem
<1>1. PICK eq \in 1..Len(line) : eq = Min(Places(line, {"="}))
  <2>1. Places(line, {"="}) \in SUBSET (1..Len(line)) /\ 1..Len(line) \in SUBSET Nat
    BY DEF Places
  <2>2. Places(line, {"="}) \in SUBSET Nat
    BY <2>1
  <2>3. Min(Places(line, {"="})) \in Places(line, {"="})
    BY <2>2, MinAmong
  <2> QED BY <2>1, <2>3
<1>2. PICK content \in Seq(Token) : content = Ltrim(Rtrim(From(line, eq + 1)))
  <2>1. From(line, eq + 1) \in Seq(Token)
    BY RestOfText
  <2>2. Rtrim(From(line, eq + 1)) \in Seq(Token)
    BY <2>1, Trimmed
  <2>3. Ltrim(Rtrim(From(line, eq + 1))) \in Seq(Token)
    BY <2>2, Trimmed
  <2> QED BY <2>3
<1>3. PICK name \in Seq(Token) : name = SubSeq(line, 1, eq - 1)
  <2>1. PICK n \in 0..Len(line) : n = eq - 1
    OBVIOUS
  <2>2. 1 \in Nat \ {0}
    OBVIOUS
  <2>3. SubSeq(line, 1, n) \in Seq(Token)
    BY <2>2, PartOfList
  <2> QED BY <2>1, <2>3
<1>4. ItemName(name, content) \in Seq(Token)
  <2>1. CASE Len(name) < NameMax
    BY <2>1 DEF ItemName
  <2>2. CASE ~(Len(name) < NameMax)
    <3>1. NameMax \in 0..Len(name)
      BY <2>2, MaxAssumption
    <3>2. SubSeq(name, 1, NameMax) \in Seq(Token)
      BY <3>1, PartOfList
    <3>3. SubSeq(name, 1, NameMax) \o content \in Seq(Token)
      BY <3>2, ConcatProperties
    <3> QED BY <2>2, <3>3 DEF ItemName
  <2> QED BY <2>1, <2>2
<1>5. Rtrim(ItemName(name, content)) \in Seq(Token)
  BY <1>4, Trimmed
<1>6. Item(line) = [ItemName |-> Rtrim(ItemName(name, content)), ItemContent |-> content]
  BY <1>1, <1>2, <1>3 DEF Item
<1> QED BY <1>2, <1>5, <1>6 DEF SettingItem

\* A line makes one setting or none.
LEMMA ItemsTyped ==
  ASSUME NEW piece \in Seq(Token)
  PROVE  Items(piece) \in Seq(SettingItem)
<1>1. PICK line \in Seq(Token) : line = Chop(piece, {"newline", "cr", "space"})
  BY Trimmed
<1>2. CASE Items(piece) = <<>>
  BY <1>2
<1>3. CASE Places(line, {"="}) # {} /\ Items(piece) = <<Item(line)>>
  <2>1. Item(line) \in SettingItem
    BY <1>3, ItemTyped
  <2> QED BY <1>3, <2>1
<1> QED BY <1>1, <1>2, <1>3 DEF Items

\* What is left of a file when Load has taken a piece.
Left(f) == From(f, Len(Piece(f)) + 1)

\* It is a shorter file.
LEMMA LeftIsShorter ==
  ASSUME NEW f \in Seq(Token), f # <<>>
  PROVE  Left(f) \in Seq(Token) /\ Len(Left(f)) \in Nat /\ Len(Left(f)) < Len(f)
<1>1. PICK n \in 1..Len(f) : n = Len(Piece(f))
  BY PieceFacts
<1>2. PICK k \in Nat \ {0} : k = n + 1
  OBVIOUS
<1>3. From(f, k) \in Seq(Token) /\ Len(From(f, k)) = IF k <= Len(f) THEN Len(f) - k + 1 ELSE 0
  BY RestOfText
<1>4. Left(f) = From(f, k)
  BY <1>1, <1>2 DEF Left
<1> QED BY <1>1, <1>2, <1>3, <1>4

\* One round of the loop of Load, with what the later ones make of the rest.
Round(f, rest) == IF f = <<>> THEN <<>> ELSE Items(Piece(f)) \o rest

\* The files of at most n tokens, and a table of what Load makes of them.
Short(n) == {f \in Seq(Token) : Len(f) <= n}
Table(g, n) == g = [f \in Short(n) |-> Round(f, g[Left(f)])]

\* A round makes settings.
LEMMA RoundTyped ==
  ASSUME NEW f \in Seq(Token), NEW rest \in Seq(SettingItem)
  PROVE  Round(f, rest) \in Seq(SettingItem)
<1>1. CASE f = <<>>
  BY <1>1 DEF Round
<1>2. CASE f # <<>>
  <2>1. Piece(f) \in Seq(Token)
    BY <1>2, PieceFacts
  <2>2. PICK items \in Seq(SettingItem) : items = Items(Piece(f))
    BY <2>1, ItemsTyped
  <2>3. items \o rest \in Seq(SettingItem)
    BY ConcatProperties
  <2> QED BY <1>2, <2>2, <2>3 DEF Round
<1> QED BY <1>1, <1>2

\* Two tables agree, and what they say are settings.
LEMMA TablesAgree ==
  ASSUME NEW g, NEW h, NEW n \in Nat, NEW m \in Nat, Table(g, n), Table(h, m),
         NEW f \in Short(n) \cap Short(m)
  PROVE  g[f] = h[f] /\ g[f] \in Seq(SettingItem)
<1> DEFINE Good(e) == g[e] = h[e] /\ g[e] \in Seq(SettingItem)
           Bad == {e \in Short(n) \cap Short(m) : ~Good(e)}
           L == {Len(e) : e \in Bad}
<1> SUFFICES ASSUME Bad # {} PROVE FALSE
  OBVIOUS
<1>1. L \in SUBSET Nat /\ L # {}
  <2>1. ASSUME NEW l \in L PROVE l \in Nat
    <3>1. PICK e \in Bad : l = Len(e)
      BY <2>1
    <3> QED BY <3>1 DEF Short
  <2>2. PICK e : e \in Bad
    OBVIOUS
  <2>3. Len(e) \in L
    BY <2>2
  <2> HIDE DEF L
  <2> QED BY <2>1, <2>3
<1>2. PICK l \in L : \A k \in L : l <= k
  <2> HIDE DEF L
  <2> QED BY <1>1, LeastNumber
<1>3. PICK e \in Bad : Len(e) = l
  BY <1>2
<1>4. e \in Seq(Token) /\ Len(e) <= n /\ Len(e) <= m /\ Len(e) \in Nat
  BY <1>3 DEF Short
<1>5. g[e] = Round(e, g[Left(e)]) /\ h[e] = Round(e, h[Left(e)])
  BY <1>3 DEF Table
<1>6. CASE e = <<>>
  <2>1. g[e] = <<>> /\ h[e] = <<>>
    BY <1>5, <1>6 DEF Round
  <2>2. <<>> \in Seq(SettingItem)
    OBVIOUS
  <2>3. Good(e)
    BY <2>1, <2>2
  <2> HIDE DEF Good
  <2> QED BY <1>3, <2>3
<1>7. CASE e # <<>>
  <2>1. Left(e) \in Seq(Token) /\ Len(Left(e)) \in Nat /\ Len(Left(e)) < Len(e)
    BY <1>4, <1>7, LeftIsShorter
  <2>2. Left(e) \in Short(n) \cap Short(m)
    BY <1>4, <2>1 DEF Short
  <2>3. Left(e) \notin Bad
    <3>1. ASSUME Left(e) \in Bad PROVE Len(Left(e)) \in L
      BY <3>1
    <3> HIDE DEF L, Bad
    <3> QED BY <1>2, <1>3, <1>4, <2>1, <3>1
  <2>4. Good(Left(e))
    BY <2>2, <2>3
  <2>5. g[e] = h[e]
    BY <1>5, <2>4
  <2>6. g[e] \in Seq(SettingItem)
    BY <1>4, <1>5, <2>4, RoundTyped
  <2> QED BY <1>3, <2>5, <2>6
<1> QED BY <1>6, <1>7

\* There is a table for every length.
LEMMA TableExists ==
  ASSUME NEW N \in Nat
  PROVE  \E g : Table(g, N)
<1> DEFINE T == {n \in Nat : \E g : Table(g, n)}
<1>1. 0 \in T
  <2> DEFINE g == [f \in Short(0) |-> <<>>]
  <2>1. ASSUME NEW f \in Short(0) PROVE Round(f, g[Left(f)]) = <<>>
    <3>1. f = <<>>
      BY DEF Short
    <3> QED BY <3>1 DEF Round
  <2>2. g = [f \in Short(0) |-> Round(f, g[Left(f)])]
    <3>1. ASSUME NEW f \in Short(0) PROVE g[f] = Round(f, g[Left(f)])
      BY <2>1
    <3>2. g = [f \in Short(0) |-> g[f]]
      OBVIOUS
    <3> HIDE DEF g
    <3> QED BY <3>1, <3>2
  <2>3. Table(g, 0)
    BY <2>2 DEF Table
  <2> QED BY <2>3
<1>2. ASSUME NEW n \in 0..(N - 1), n \in T PROVE n + 1 \in T
  <2>1. PICK g : Table(g, n)
    BY <1>2
  <2> DEFINE h == [f \in Short(n + 1) |-> Round(f, g[Left(f)])]
  <2>2. \A f \in Short(n) : f \in Short(n + 1) /\ h[f] = g[f]
    <3>1. ASSUME NEW f \in Short(n) PROVE f \in Short(n + 1)
      BY DEF Short
    <3>2. ASSUME NEW f \in Short(n) PROVE g[f] = Round(f, g[Left(f)])
      BY <2>1 DEF Table
    <3> QED BY <3>1, <3>2
  <2>3. h = [f \in Short(n + 1) |-> h[f]]
    OBVIOUS
  <2>4. \A f \in Short(n + 1) : h[f] = Round(f, g[Left(f)])
    OBVIOUS
  <2> HIDE DEF h
  <2>5. ASSUME NEW f \in Short(n + 1) PROVE h[f] = Round(f, h[Left(f)])
    <3>1. CASE f = <<>>
      BY <2>4, <3>1 DEF Round
    <3>2. CASE f # <<>>
      <4>1. f \in Seq(Token) /\ Len(f) <= n + 1 /\ Len(f) \in Nat
        BY DEF Short
      <4>2. Left(f) \in Seq(Token) /\ Len(Left(f)) \in Nat /\ Len(Left(f)) < Len(f)
        BY <3>2, <4>1, LeftIsShorter
      <4>3. Left(f) \in Short(n)
        BY <4>1, <4>2 DEF Short
      <4> QED BY <2>2, <2>4, <4>3
    <3> QED BY <3>1, <3>2
  <2>6. Table(h, n + 1)
    BY <2>3, <2>5 DEF Table
  <2> QED BY <2>6
<1>3. 0..N \subseteq T
  <2> HIDE DEF T
  <2>1. T \in SUBSET Nat
    BY DEF T
  <2> QED BY <1>1, <1>2, <2>1, StepByStep
<1> QED BY <1>3

\* Load is what the loop of CConfig::Load computes, for every file.
LEMMA LoadIsTheLoop ==
  Load = [f \in Seq(Token) |-> Round(f, Load[Left(f)])]
<1> DEFINE T(n) == CHOOSE g : Table(g, n)
           L == [f \in Seq(Token) |-> T(Len(f))[f]]
<1>1. ASSUME NEW n \in Nat PROVE Table(T(n), n)
  BY TableExists
<1>2. \A f \in Seq(Token) : L[f] = T(Len(f))[f]
  OBVIOUS
<1>3. L = [f \in Seq(Token) |-> L[f]]
  OBVIOUS
<1> HIDE DEF T, L
<1>4. ASSUME NEW f \in Seq(Token) PROVE L[f] = Round(f, L[Left(f)])
  <2>1. PICK n \in Nat : n = Len(f)
    OBVIOUS
  <2>2. T(n)[f] = Round(f, T(n)[Left(f)])
    <3>1. f \in Short(n)
      BY <2>1 DEF Short
    <3>2. Table(T(n), n)
      BY <1>1
    <3> QED BY <3>1, <3>2 DEF Table
  <2>3. L[f] = T(n)[f]
    BY <1>2, <2>1
  <2>4. CASE f = <<>>
    BY <2>2, <2>3, <2>4 DEF Round
  <2>5. CASE f # <<>>
    <3>1. PICK m \in Nat : m = Len(Left(f)) /\ m < n
      BY <2>1, <2>5, LeftIsShorter
    <3>2. Left(f) \in Seq(Token)
      BY <2>5, LeftIsShorter
    <3>3. Left(f) \in Short(n) \cap Short(m)
      BY <3>1, <3>2 DEF Short
    <3>4. Table(T(n), n) /\ Table(T(m), m)
      BY <1>1
    <3>5. T(n)[Left(f)] = T(m)[Left(f)]
      BY <3>3, <3>4, TablesAgree
    <3>6. L[Left(f)] = T(m)[Left(f)]
      BY <1>2, <3>1, <3>2
    <3> QED BY <2>2, <2>3, <3>5, <3>6
  <2> QED BY <2>4, <2>5
<1>5. L = [f \in Seq(Token) |-> Round(f, L[Left(f)])]
  BY <1>3, <1>4
<1>6. \E M : M = [f \in Seq(Token) |-> Round(f, M[Left(f)])]
  BY <1>5
<1>7. Load = CHOOSE M : M = [f \in Seq(Token) |-> Round(f, M[Left(f)])]
  BY DEF Load, Round, Left
<1> HIDE DEF Load
<1> QED BY <1>6, <1>7

\* Load makes settings of every file.
LEMMA LoadTyped ==
  ASSUME NEW f \in Seq(Token)
  PROVE  Load[f] \in Seq(SettingItem)
<1>1. PICK n \in Nat : n = Len(f)
  OBVIOUS
<1> DEFINE g == [e \in Short(n) |-> Load[e]]
<1>2. \A e \in Short(n) : g[e] = Load[e]
  OBVIOUS
<1>3. g = [e \in Short(n) |-> g[e]]
  OBVIOUS
<1> HIDE DEF g
<1>4. ASSUME NEW e \in Short(n) PROVE g[e] = Round(e, g[Left(e)])
  <2>1. e \in Seq(Token) /\ Len(e) <= n /\ Len(e) \in Nat
    BY DEF Short
  <2>2. g[e] = Round(e, Load[Left(e)])
    <3>1. Load[e] = Round(e, Load[Left(e)])
      BY <2>1, LoadIsTheLoop
    <3> QED BY <1>2, <3>1
  <2>3. CASE e = <<>>
    BY <2>2, <2>3 DEF Round
  <2>4. CASE e # <<>>
    <3>1. Left(e) \in Seq(Token) /\ Len(Left(e)) \in Nat /\ Len(Left(e)) < Len(e)
      BY <2>1, <2>4, LeftIsShorter
    <3>2. Left(e) \in Short(n)
      BY <2>1, <3>1 DEF Short
    <3> QED BY <1>2, <2>2, <3>2
  <2> QED BY <2>3, <2>4
<1>5. Table(g, n)
  BY <1>3, <1>4 DEF Table
<1>6. f \in Short(n) \cap Short(n)
  BY <1>1 DEF Short
<1>7. g[f] \in Seq(SettingItem)
  BY <1>5, <1>6, TablesAgree
<1> QED BY <1>2, <1>6, <1>7

(* Numbers *)

\* The table of what the digits up to each place make.
Values(s, f, n) ==
  f = [i \in 0..n |-> IF i = 0 THEN 0 ELSE 10 * f[i - 1] + Digits[s[i]]]

\* There is one.
LEMMA ValuesExist ==
  ASSUME NEW s, NEW N \in Nat
  PROVE  \E f : Values(s, f, N)
<1> DEFINE T == {n \in Nat : \E f : Values(s, f, n)}
<1>1. 0 \in T
  <2> DEFINE f == [i \in 0..0 |-> 0]
  <2>1. Values(s, f, 0)
    BY DEF Values
  <2> QED BY <2>1
<1>2. ASSUME NEW n \in 0..(N - 1), n \in T PROVE n + 1 \in T
  <2>1. PICK f : Values(s, f, n)
    BY <1>2
  <2> DEFINE more == 10 * f[n] + Digits[s[n + 1]]
             g == [i \in 0..(n + 1) |-> IF i = n + 1 THEN more ELSE f[i]]
  <2>2. \A i \in 0..n : g[i] = f[i]
    OBVIOUS
  <2>3. ASSUME NEW i \in 0..(n + 1)
        PROVE  g[i] = IF i = 0 THEN 0 ELSE 10 * g[i - 1] + Digits[s[i]]
    <3>1. CASE i = n + 1
      <4>1. i # 0 /\ i - 1 = n /\ n \in 0..n
        BY <3>1
      <4>2. g[i] = more /\ g[i - 1] = f[n]
        BY <2>2, <3>1, <4>1
      <4> HIDE DEF g
      <4> QED BY <3>1, <4>1, <4>2
    <3>2. CASE i \in 0..n
      <4>1. i = 0 \/ i - 1 \in 0..n
        BY <3>2
      <4>2. f[i] = IF i = 0 THEN 0 ELSE 10 * f[i - 1] + Digits[s[i]]
        BY <2>1, <3>2 DEF Values
      <4> HIDE DEF g
      <4> QED BY <2>2, <3>2, <4>1, <4>2
    <3> QED BY <3>1, <3>2
  <2>4. g = [i \in 0..(n + 1) |-> g[i]]
    OBVIOUS
  <2> HIDE DEF g
  <2>5. Values(s, g, n + 1)
    BY <2>3, <2>4 DEF Values
  <2> QED BY <2>5
<1>3. 0..N \subseteq T
  <2> HIDE DEF T
  <2>1. T \in SUBSET Nat
    BY DEF T
  <2> QED BY <1>1, <1>2, <2>1, StepByStep
<1> QED BY <1>3

\* Digits make a number.
LEMMA NumberTyped ==
  ASSUME NEW s \in Seq(DOMAIN Digits)
  PROVE  Number(s) \in Nat
<1> DEFINE N == Len(s)
           f == CHOOSE f : Values(s, f, N)
<1>1. N \in Nat /\ \A i \in 1..N : Digits[s[i]] \in Nat
  <2>1. \A d \in DOMAIN Digits : Digits[d] \in Nat
    BY DEF Digits
  <2>2. \A i \in 1..N : s[i] \in DOMAIN Digits
    OBVIOUS
  <2> QED BY <2>1, <2>2
<1>2. Values(s, f, N) /\ Number(s) = f[N]
  <2>1. Values(s, f, N)
    BY <1>1, ValuesExist
  <2>2. Number(s) = f[N]
    BY DEF Number, Values
  <2> QED BY <2>1, <2>2
<1> HIDE DEF N, f
<1> DEFINE G == {n \in Nat : f[n] \in Nat}
<1>3. 0 \in G
  <2>1. f[0] = 0
    BY <1>1, <1>2 DEF Values
  <2> QED BY <2>1
<1>4. ASSUME NEW n \in 0..(N - 1), n \in G PROVE n + 1 \in G
  <2>1. n + 1 \in 0..N /\ n + 1 \in 1..N /\ n + 1 # 0 /\ (n + 1) - 1 = n
    BY <1>1
  <2>2. f[n + 1] = 10 * f[n] + Digits[s[n + 1]]
    BY <1>2, <2>1 DEF Values
  <2>3. PICK d \in Nat : d = Digits[s[n + 1]]
    BY <1>1, <2>1
  <2>4. PICK p \in Nat : p = f[n]
    BY <1>4
  <2>5. f[n + 1] \in Nat
    BY <2>2, <2>3, <2>4
  <2> QED BY <2>5
<1>5. 0..N \subseteq G
  <2>1. G \in SUBSET Nat
    OBVIOUS
  <2> HIDE DEF G
  <2> QED BY <1>1, <1>3, <1>4, <2>1, StepByStep
<1>6. N \in 0..N
  BY <1>1
<1> QED BY <1>2, <1>5, <1>6

\* atoi makes a number of any text.
LEMMA AtoiTyped ==
  ASSUME NEW s \in Seq(Token)
  PROVE  atoi(s) \in Nat
<1> DEFINE P == {Len(s) + 1} \cup Places(s, Token \ Blanks)
<1>1. PICK i \in Nat \ {0} : i = Min(P)
  <2>1. P \in SUBSET (Nat \ {0}) /\ P # {}
    BY DEF Places
  <2> HIDE DEF P
  <2>2. Min(P) \in P
    BY <2>1, MinAmong
  <2> QED BY <2>1, <2>2
<1>2. PICK front \in Seq(Token) : front = From(s, i)
  BY RestOfText
<1> DEFINE Q == {Len(front) + 1} \cup Places(front, Token \ DOMAIN Digits)
<1>3. PICK n \in 0..Len(front) : n = Min(Q) - 1 /\ \A k \in Q : n < k
  <2>1. Q \in SUBSET (1..(Len(front) + 1)) /\ Q \in SUBSET Nat /\ Q # {} /\ Len(front) \in Nat
    BY DEF Places
  <2> HIDE DEF Q
  <2>2. Min(Q) \in Q /\ \A k \in Q : Min(Q) <= k
    BY <2>1, MinAmong
  <2>3. PICK q \in 1..(Len(front) + 1) : q = Min(Q)
    BY <2>1, <2>2
  <2>4. q - 1 \in 0..Len(front)
    BY <2>1
  <2>5. \A k \in Q : q - 1 < k
    BY <2>1, <2>2, <2>3
  <2> QED BY <2>3, <2>4, <2>5
<1>4. \A k \in 1..n : front[k] \in DOMAIN Digits
  <2> SUFFICES ASSUME NEW k \in 1..n, front[k] \notin DOMAIN Digits PROVE FALSE
    OBVIOUS
  <2>1. k \in 1..Len(front) /\ front[k] \in Token
    OBVIOUS
  <2>2. k \in Q
    BY <2>1 DEF Places
  <2> HIDE DEF Q
  <2>3. n < k
    BY <1>3, <2>2
  <2> QED BY <2>3
<1>5. SubSeq(front, 1, n) \in Seq(DOMAIN Digits)
  <2>1. n \in Int /\ 1 \in Int /\ \A k \in 1..n : front[k] \in DOMAIN Digits
    BY <1>4
  <2> QED BY <2>1, SubSeqProperties
<1>6. atoi(s) = Number(SubSeq(front, 1, n))
  BY <1>1, <1>2, <1>3 DEF atoi
<1> QED BY <1>5, <1>6, NumberTyped

\* The numbers that GetIntDefault finds are numbers.
LEMMA GetIntTyped ==
  ASSUME NEW conf \in Seq(SettingItem), NEW name, NEW def \in Nat
  PROVE  GetIntDefault(conf, name, def) \in Nat
<1>1. CASE Found(conf, name) = {}
  BY <1>1 DEF GetIntDefault
<1>2. CASE Found(conf, name) # {}
  <2>1. PICK T : T = Found(conf, name)
    OBVIOUS
  <2>2. T \in SUBSET (1..Len(conf)) /\ T \in SUBSET Nat /\ T # {}
    BY <1>2, <2>1 DEF Found
  <2>3. Min(T) \in T
    BY <2>2, MinAmong
  <2>4. PICK i \in 1..Len(conf) : i = Min(T)
    BY <2>2, <2>3
  <2>5. conf[i].ItemContent \in Seq(Token)
    <3>1. conf[i] \in SettingItem
      OBVIOUS
    <3> QED BY <3>1 DEF SettingItem
  <2>6. GetIntDefault(conf, name, def) = atoi(conf[i].ItemContent)
    BY <1>2, <2>1, <2>4 DEF GetIntDefault
  <2> QED BY <2>5, <2>6, AtoiTyped
<1> QED BY <1>1, <1>2

\* The text of a file is a text.
LEMMA FilesTyped ==
  ASSUME NEW any \in Files
  PROVE  any.kind \in {"missing", "directory", "file"} /\ any.text \in Seq(Token)
<1>1. \/ any \in [kind : {"missing", "directory"}, text : {<<>>}]
      \/ any \in [kind : {"file"}, text : Seq(Token)]
  BY FilesAssumption
<1>2. <<>> \in Seq(Token)
  OBVIOUS
<1> QED BY <1>1, <1>2

\* What main may go by are settings.
LEMMA ItemListsTyped ==
  ASSUME NEW conf \in ItemLists
  PROVE  conf \in Seq(SettingItem)
<1>1. CASE conf = <<>>
  BY <1>1
<1>2. ASSUME NEW any \in Files, conf = Loaded[any.text] PROVE conf \in Seq(SettingItem)
  <2>1. any.text \in Seq(Token)
    BY FilesTyped
  <2>2. Loaded[any.text] = Load[any.text]
    BY DEF Loaded
  <2> QED BY <1>2, <2>1, <2>2, LoadTyped
<1> QED BY <1>1, <1>2 DEF ItemLists

(* The settings *)

\* Before the file is read the settings are the defaults.
LEMMA InitReadFromFile == StartInit => ReadFromFile
BY DEF StartInit, ReadFromFile, ItemLists

\* What each step of main does with the place where main stands, the file and the settings.
LEMMA MainSteps ==
  ASSUME [StartNext]_allVars
  PROVE  \/ LoadFile
         \/ /\ \/ ngx_init_signals \/ ReadConf \/ OpenListeningSocket \/ AllSocketsOpen
               \/ ngx_daemon \/ LeaveTerminal
            /\ main' # "Load" /\ UNCHANGED <<m_ConfigItemList, vars, init>>
         \/ /\ StartCycle \/ Master \/ \E w \in Workers : Worker(w)
            /\ UNCHANGED <<main, file, m_ConfigItemList, setting, m_ListenSocketList>>
         \/ UNCHANGED allVars
<1>1. ngx_init_signals \/ ReadConf \/ OpenListeningSocket \/ AllSocketsOpen
        \/ ngx_daemon \/ LeaveTerminal =>
          main' # "Load" /\ UNCHANGED <<m_ConfigItemList, vars, init>>
  BY DEF ngx_init_signals, ReadConf, OpenListeningSocket, Listens, AllSocketsOpen,
         ngx_daemon, LeaveTerminal, ParentReturns, Goto, Return
<1>2. StartCycle \/ Master =>
        UNCHANGED <<main, file, m_ConfigItemList, setting, m_ListenSocketList>>
  BY DEF StartCycle, Master, startVars
<1>3. ASSUME NEW w \in Workers, Worker(w)
      PROVE  UNCHANGED <<main, file, m_ConfigItemList, setting, m_ListenSocketList>>
  BY <1>3 DEF Worker, CreatePool, Initialize_subproc, ngx_epoll_init, WorkerEnds, Started
<1>4. LoadForEver => UNCHANGED allVars
  BY DEF LoadForEver
<1> QED
  BY <1>1, <1>2, <1>3, <1>4 DEF StartNext, Main

\* Loading is the one step that changes the settings, and no step goes back to it.
LEMMA NextReadFromFile == ReadFromFile /\ [StartNext]_allVars => ReadFromFile'
<1> SUFFICES ASSUME ReadFromFile, [StartNext]_allVars PROVE ReadFromFile'
  OBVIOUS
<1> USE DEF ReadFromFile
<1>1. CASE LoadFile
  <2>1. file \in Files
    BY <1>1 DEF LoadFile
  <2>2. m_ConfigItemList' \in {m_ConfigItemList, Loaded[file.text]}
    BY <1>1 DEF LoadFile
  <2>3. main' # "Load"
    BY <1>1 DEF LoadFile, Return, Goto
  <2> QED
    BY <2>1, <2>2, <2>3 DEF ItemLists
<1>2. CASE main' # "Load" /\ UNCHANGED m_ConfigItemList
  BY <1>2
<1>3. CASE UNCHANGED <<main, file, m_ConfigItemList>>
  BY <1>3
<1>4. CASE UNCHANGED allVars
  BY <1>4, <1>3 DEF allVars, startVars
<1> QED
  BY <1>1, <1>2, <1>3, <1>4, MainSteps

\* Whatever main asks for is a number.
LEMMA ConfTyped ==
  ASSUME ReadFromFile, NEW name, NEW def \in Nat
  PROVE  Conf(name, def) \in Nat
<1>1. m_ConfigItemList \in Seq(SettingItem)
  BY ItemListsTyped DEF ReadFromFile
<1> QED BY <1>1, GetIntTyped DEF Conf

\* The numbers that main goes by are those of some nginx.conf.
LEMMA CountsOfFile ==
  ASSUME ReadFromFile
  PROVE  /\ Conf("WorkerProcesses", 1) \in 0..MaxWorkers
         /\ Conf("ListenPortCount", 1) \in Nat
         /\ Conf("ProcMsgRecvWorkThreadCount", 5) \in Nat
<1>1. \A name : \A def \in Nat : Conf(name, def) \in Nat
  BY ConfTyped
<1> QED BY <1>1, FilesAskForFewWorkers DEF ReadFromFile, Conf

\* The settings that main goes by are those of nginx.conf, or the defaults.
THEOREM SettingsOfTheFile == StartSpec => []ReadFromFile
BY InitReadFromFile, NextReadFromFile, PTL DEF StartSpec

(* Master and workers *)

\* A step of the program is one of Processes, or none of its business: main hands it
\* the number of workers, and a worker is ready when its last step is done.
LEMMA StepsImplement == ReadFromFile /\ [StartNext]_allVars => [Next]_vars
<1> SUFFICES ASSUME ReadFromFile, [StartNext]_allVars PROVE [Next]_vars
  OBVIOUS
<1>1. LoadFile \/ ngx_init_signals \/ ReadConf \/ OpenListeningSocket \/ AllSocketsOpen
        \/ ngx_daemon \/ LeaveTerminal \/ LoadForEver => UNCHANGED vars
  BY DEF LoadFile, ngx_init_signals, ReadConf, OpenListeningSocket, AllSocketsOpen,
         ngx_daemon, LeaveTerminal, LoadForEver, allVars
<1>2. StartCycle => Next
  BY CountsOfFile DEF StartCycle, Next
<1>3. Master => Next
  BY DEF Master, Next
<1>4. ASSUME NEW w \in Workers, Worker(w) PROVE Next \/ UNCHANGED vars
  <2>1. CreatePool(w) \/ Initialize_subproc(w) => UNCHANGED vars
    BY DEF CreatePool, Initialize_subproc, Started
  <2>2. ngx_epoll_init(w) => ngx_worker_process_init(w)
    BY DEF ngx_epoll_init
  <2>3. WorkerEnds(w) => Ends(w)
    BY DEF WorkerEnds
  <2> QED
    BY <1>4, <2>1, <2>2, <2>3 DEF Worker, Next
<1>5. UNCHANGED allVars => UNCHANGED vars
  BY DEF allVars
<1> QED
  BY <1>1, <1>2, <1>3, <1>4, <1>5 DEF StartNext, Main

\* The whole program, from the loading of nginx.conf on, implements Processes.
THEOREM StartImplements == StartSpec => Spec
<1>1. StartInit => Init
  BY DEF StartInit
<1> QED
  BY <1>1, StepsImplement, SettingsOfTheFile, PTL DEF StartSpec, Spec

\* Whatever the file says and whatever fails in the start, the master forgets no
\* worker that has ended.
THEOREM StartForgetsNoZombie == StartSpec => []NoZombieForgotten
BY StartImplements, ZombiesHeard, PTL

(* The settings and the sockets *)

\* main reads the settings before it uses them, and they do not change then.
LEMMA SettingsStep == SettingsRead /\ [StartNext]_allVars => SettingsRead'
<1> SUFFICES ASSUME SettingsRead, [StartNext]_allVars PROVE SettingsRead'
  OBVIOUS
<1> DEFINE early == {"Load", "ngx_init_signals", "ReadConf", "returned"}
<1>1. ASSUME main' \in early PROVE SettingsRead'
  BY <1>1 DEF SettingsRead
<1>2. ASSUME main \notin early, UNCHANGED <<setting, m_ConfigItemList>> PROVE SettingsRead'
  BY <1>2 DEF SettingsRead, Conf
<1>3. CASE LoadFile \/ ngx_init_signals
  BY <1>3, <1>1 DEF LoadFile, ngx_init_signals, Goto, Return
<1>4. CASE ReadConf
  <2>1. /\ setting'.m_ListenPortCount = Conf("ListenPortCount", 1)
        /\ setting'.m_ifkickTimeCount = Conf("Sock_WaitTimeEnable", 0)
        /\ m_ConfigItemList' = m_ConfigItemList
    BY <1>4 DEF ReadConf
  <2> QED BY <2>1 DEF SettingsRead, Conf
<1>5. CASE OpenListeningSocket \/ AllSocketsOpen \/ ngx_daemon \/ LeaveTerminal
  BY <1>5, <1>2 DEF OpenListeningSocket, AllSocketsOpen, ngx_daemon, LeaveTerminal
<1>6. CASE UNCHANGED <<main, m_ConfigItemList, setting>>
  BY <1>6 DEF SettingsRead, Conf
<1> QED
  BY <1>3, <1>4, <1>5, <1>6, MainSteps DEF allVars, startVars

\* A list is one of what stands in it, also with one more element.
LEMMA ListGrows ==
  ASSUME NEW s, s \in Seq(ToSet(s)), NEW x
  PROVE  LET t == Append(s, x) IN
         /\ t \in Seq(ToSet(t)) /\ Len(s) \in Nat /\ Len(t) = Len(s) + 1
         /\ t[Len(s) + 1] = x /\ \A i \in 1..Len(s) : t[i] = s[i]
<1> DEFINE t == Append(s, x)
           S == ToSet(s) \cup {x}
<1>1. s \in Seq(S)
  <2>1. Len(s) \in Nat /\ s \in [1..Len(s) -> ToSet(s)]
    OBVIOUS
  <2>2. s \in [1..Len(s) -> S]
    BY <2>1
  <2> QED BY <2>1, <2>2
<1>2. /\ t \in Seq(S) /\ Len(s) \in Nat /\ Len(t) = Len(s) + 1 /\ t[Len(s) + 1] = x
      /\ \A i \in 1..Len(s) : t[i] = s[i]
  <2> HIDE DEF S
  <2>1. x \in S
    BY DEF S
  <2> QED BY <1>1, <2>1
<1>3. t \in Seq(ToSet(t))
  <2> HIDE DEF t, S
  <2>1. Len(t) \in Nat /\ t \in [1..Len(t) -> S] /\ DOMAIN t = 1..Len(t)
    BY <1>2
  <2>2. \A i \in 1..Len(t) : t[i] \in ToSet(t)
    BY <2>1 DEF ToSet
  <2>3. t \in [1..Len(t) -> ToSet(t)]
    BY <2>1, <2>2
  <2> QED BY <2>1, <2>3
<1> QED BY <1>2, <1>3

\* main opens the sockets in turn, and goes on when there are enough.
LEMMA SocketsStep ==
  ReadFromFile /\ SettingsRead /\ SocketsInTurn /\ [StartNext]_allVars => SocketsInTurn'
<1> SUFFICES ASSUME ReadFromFile, SettingsRead, SocketsInTurn, [StartNext]_allVars
             PROVE  SocketsInTurn'
  OBVIOUS
<1> DEFINE Bound(conf, s) == \A i \in 1..Len(s) :
             s[i].bound = GetIntDefault(conf, PortNames[i], DefaultPort) % PortSpace
<1>1. /\ m_ListenSocketList \in Seq(ToSet(m_ListenSocketList)) /\ Opened \in Nat
      /\ Bound(m_ConfigItemList, m_ListenSocketList)
  <2>1. m_ListenSocketList \in Seq(ToSet(m_ListenSocketList))
    BY DEF SocketsInTurn
  <2> QED BY <2>1 DEF SocketsInTurn, Opened, Conf
<1>2. ASSUME UNCHANGED <<m_ListenSocketList, m_ConfigItemList>>,
             main' \in {"Load", "ngx_init_signals", "ReadConf"} => m_ListenSocketList = <<>>,
             main' = "ngx_open_listening_sockets" => Opened <= setting'.m_ListenPortCount,
             main' \in {"ngx_daemon", "setsid", "ngx_master_process_cycle"} =>
               Opened = setting'.m_ListenPortCount
      PROVE  SocketsInTurn'
  BY <1>1, <1>2 DEF SocketsInTurn, Opened, Conf
<1>3. CASE LoadFile
  <2>1. m_ListenSocketList = <<>> /\ m_ListenSocketList' = <<>>
    BY <1>3 DEF LoadFile, SocketsInTurn
  <2>2. main' \in {"returned", "ngx_init_signals"}
    BY <1>3 DEF LoadFile, Goto, Return
  <2>3. <<>> \in Seq(ToSet(<<>>)) /\ Len(<<>>) = 0
    OBVIOUS
  <2> QED BY <2>1, <2>2, <2>3 DEF SocketsInTurn, Opened
<1>4. CASE ngx_init_signals
  <2>1. /\ main' \in {"ReadConf", "returned"} /\ m_ListenSocketList = <<>>
        /\ UNCHANGED <<m_ListenSocketList, m_ConfigItemList>>
    BY <1>4 DEF ngx_init_signals, Goto, Return, SocketsInTurn
  <2> QED BY <1>2, <2>1
<1>5. CASE ReadConf
  <2>1. /\ main' = "ngx_open_listening_sockets" /\ m_ListenSocketList = <<>>
        /\ setting'.m_ListenPortCount = Conf("ListenPortCount", 1)
        /\ UNCHANGED <<m_ListenSocketList, m_ConfigItemList>>
    BY <1>5 DEF ReadConf, Goto, SocketsInTurn
  <2>2. Opened = 0 /\ Opened <= setting'.m_ListenPortCount
    BY <2>1, CountsOfFile DEF Opened
  <2> QED BY <1>2, <2>1, <2>2
<1>6. CASE OpenListeningSocket
  <2>1. /\ main = "ngx_open_listening_sockets" /\ Opened < setting.m_ListenPortCount
        /\ UNCHANGED <<m_ConfigItemList, setting>>
    BY <1>6 DEF OpenListeningSocket
  <2>2. setting.m_ListenPortCount \in Nat
    BY <2>1, CountsOfFile DEF SettingsRead
  <2>3. CASE Return("1") /\ UNCHANGED m_ListenSocketList
    <3>1. main' = "returned"
      BY <2>3 DEF Return
    <3> QED BY <1>2, <2>1, <2>3, <3>1
  <2>4. CASE Listens(Conf(PortNames[Opened + 1], DefaultPort))
    <3>1. PICK reuseport \in BOOLEAN :
            m_ListenSocketList' =
              Append(m_ListenSocketList,
                     [port |-> Conf(PortNames[Opened + 1], DefaultPort),
                      bound |-> Conf(PortNames[Opened + 1], DefaultPort) % PortSpace,
                      reuseport |-> reuseport])
      BY <2>4 DEF Listens
    <3>2. main' = "ngx_open_listening_sockets"
      BY <2>4 DEF Listens, Goto
    <3>3. PICK s, x : /\ s = m_ListenSocketList
                      /\ x = [port |-> Conf(PortNames[Opened + 1], DefaultPort),
                              bound |-> Conf(PortNames[Opened + 1], DefaultPort) % PortSpace,
                              reuseport |-> reuseport]
      OBVIOUS
    <3>4. PICK t : t = Append(s, x)
      OBVIOUS
    <3>5. /\ t \in Seq(ToSet(t)) /\ Len(s) \in Nat /\ Len(t) = Len(s) + 1
          /\ t[Len(s) + 1] = x /\ \A i \in 1..Len(s) : t[i] = s[i]
      BY <1>1, <3>3, <3>4, ListGrows
    <3>6. m_ListenSocketList' = t /\ Opened = Len(s) /\ Opened' = Len(s) + 1
      BY <3>1, <3>3, <3>4, <3>5 DEF Opened
    <3>7. x.bound = Conf(PortNames[Len(s) + 1], DefaultPort) % PortSpace
      BY <3>3, <3>6
    <3>8. Bound(m_ConfigItemList, t)
      <4>1. \A i \in 1..Len(t) : i \in 1..Len(s) \/ i = Len(s) + 1
        BY <3>5
      <4> QED BY <1>1, <3>3, <3>5, <3>7, <4>1 DEF Conf
    <3>9. Opened' <= setting'.m_ListenPortCount
      BY <1>1, <2>1, <2>2, <3>6
    <3> QED BY <2>1, <3>2, <3>5, <3>6, <3>8, <3>9 DEF SocketsInTurn, Opened, Conf
  <2> QED BY <1>6, <2>3, <2>4 DEF OpenListeningSocket
<1>7. CASE AllSocketsOpen
  <2>1. /\ main = "ngx_open_listening_sockets" /\ Opened >= setting.m_ListenPortCount
        /\ main' \in {"returned", "ngx_daemon"}
        /\ UNCHANGED <<m_ListenSocketList, m_ConfigItemList, setting>>
    BY <1>7 DEF AllSocketsOpen, Goto, Return
  <2>2. setting.m_ListenPortCount \in Nat /\ Opened <= setting.m_ListenPortCount
    BY <2>1, CountsOfFile DEF SettingsRead, SocketsInTurn
  <2>3. Opened = setting'.m_ListenPortCount
    BY <1>1, <2>1, <2>2
  <2> QED BY <1>2, <2>1, <2>3
<1>8. CASE ngx_daemon \/ LeaveTerminal
  <2>1. /\ main \in {"ngx_daemon", "setsid"}
        /\ main' \in {"setsid", "ngx_master_process_cycle", "returned"}
        /\ UNCHANGED <<m_ListenSocketList, m_ConfigItemList, setting>>
    BY <1>8 DEF ngx_daemon, LeaveTerminal, Goto, Return, ParentReturns
  <2>2. Opened = setting'.m_ListenPortCount
    BY <2>1 DEF SocketsInTurn
  <2> QED BY <1>2, <2>1, <2>2
<1>9. CASE UNCHANGED <<main, m_ConfigItemList, setting, m_ListenSocketList>>
  BY <1>9 DEF SocketsInTurn, Opened, Conf
<1> QED
  BY <1>3, <1>4, <1>5, <1>6, <1>7, <1>8, <1>9, MainSteps DEF allVars, startVars

(* The workers *)

\* The threads of a worker are lists.
LEMMA ThreadsOfWorker ==
  ASSUME NEW n \in Nat, NEW own \in Seq(Thread)
  PROVE  LET pool == [t \in 1..n |-> "ThreadFunc"] IN
         /\ pool \in Seq(Thread) /\ Len(pool) = n /\ <<>> \o pool = pool
         /\ pool \o own \in Seq(Thread) /\ Len(pool \o own) = n + Len(own)
         /\ \A t \in 1..n : (pool \o own)[t] = "ThreadFunc"
         /\ \A t \in 1..Len(own) : (pool \o own)[n + t] = own[t]
<1> DEFINE pool == [t \in 1..n |-> "ThreadFunc"]
<1>1. pool \in [1..n -> Thread]
  BY DEF Thread
<1>2. pool \in Seq(Thread) /\ Len(pool) = n /\ \A t \in 1..n : pool[t] = "ThreadFunc"
  BY <1>1
<1> HIDE DEF pool
<1>3. <<>> \o pool = pool
  BY <1>2, ConcatEmptySeq
<1>4. /\ pool \o own \in Seq(Thread) /\ Len(pool \o own) = n + Len(own) /\ Len(own) \in Nat
      /\ \A i \in 1..(n + Len(own)) : (pool \o own)[i] = IF i <= n THEN pool[i] ELSE own[i - n]
  <2>1. /\ pool \o own \in Seq(Thread) /\ Len(pool \o own) = Len(pool) + Len(own)
        /\ \A i \in 1..(Len(pool) + Len(own)) :
             (pool \o own)[i] = IF i <= Len(pool) THEN pool[i] ELSE own[i - Len(pool)]
    BY <1>2, ConcatProperties
  <2> QED BY <1>2, <2>1
<1>5. ASSUME NEW t \in 1..n PROVE (pool \o own)[t] = "ThreadFunc"
  <2>1. t \in 1..(n + Len(own)) /\ t <= n
    BY <1>4
  <2> QED BY <1>2, <1>4, <2>1
<1>6. ASSUME NEW t \in 1..Len(own) PROVE (pool \o own)[n + t] = own[t]
  <2>1. n + t \in 1..(n + Len(own)) /\ ~(n + t <= n) /\ (n + t) - n = t
    BY <1>4
  <2> QED BY <1>4, <2>1
<1> QED BY <1>2, <1>3, <1>4, <1>5, <1>6 DEF pool

\* Beside the pool there is the timer thread or not.
LEMMA SocketThreadsAre ==
  SocketThreads =
    IF Conf("Sock_WaitTimeEnable", 0) = 1
    THEN <<"ServerSendQueueThread", "ServerRecyConnectionThread", "ServerTimerQueueMonitorThread">>
    ELSE <<"ServerSendQueueThread", "ServerRecyConnectionThread">>
<1> DEFINE two == <<"ServerSendQueueThread", "ServerRecyConnectionThread">>
           one == <<"ServerTimerQueueMonitorThread">>
<1>1. two \o <<>> = two
  <2>1. two \in Seq({"ServerSendQueueThread", "ServerRecyConnectionThread"})
    OBVIOUS
  <2> QED BY <2>1, ConcatEmptySeq
<1>2. two \o one = <<"ServerSendQueueThread", "ServerRecyConnectionThread",
                     "ServerTimerQueueMonitorThread">>
  <2> DEFINE three == <<"ServerSendQueueThread", "ServerRecyConnectionThread",
                       "ServerTimerQueueMonitorThread">>
  <2>1. two \in Seq(Thread) /\ one \in Seq(Thread) /\ three \in Seq(Thread)
    BY DEF Thread
  <2>2. Len(two) = 2 /\ Len(one) = 1 /\ Len(three) = 3
    OBVIOUS
  <2>3. three[1] = two[1] /\ three[2] = two[2] /\ three[3] = one[1]
    OBVIOUS
  <2> HIDE DEF two, one, three
  <2>4. PICK u \in Seq(Thread) :
          /\ u = two \o one /\ Len(u) = Len(two) + Len(one)
          /\ \A i \in 1..(Len(two) + Len(one)) :
               u[i] = IF i <= Len(two) THEN two[i] ELSE one[i - Len(two)]
    <3>1. PICK x \in Seq(Thread), y \in Seq(Thread) : x = two /\ y = one
      BY <2>1
    <3>2. /\ x \o y \in Seq(Thread) /\ Len(x \o y) = Len(x) + Len(y)
          /\ \A i \in 1..(Len(x) + Len(y)) :
               (x \o y)[i] = IF i <= Len(x) THEN x[i] ELSE y[i - Len(x)]
      BY ConcatProperties
    <3>3. PICK u \in Seq(Thread) : u = x \o y
      BY <3>2
    <3>4. u = two \o one
      BY <3>1, <3>3
    <3> QED BY <3>1, <3>2, <3>3, <3>4
  <2>5. Len(u) = 3 /\ u[1] = two[1] /\ u[2] = two[2] /\ u[3] = one[1]
    <3>1. \A i \in 1..3 : u[i] = IF i <= 2 THEN two[i] ELSE one[i - 2]
      BY <2>2, <2>4
    <3> QED BY <2>2, <2>4, <3>1
  <2>6. \A i \in 1..Len(u) : u[i] = three[i]
    <3>1. \A i \in 1..Len(u) : i = 1 \/ i = 2 \/ i = 3
      BY <2>5
    <3> QED BY <2>3, <2>5, <3>1
  <2>7. u = three
    BY <2>1, <2>2, <2>5, <2>6, SeqEqual
  <2> QED BY <2>4, <2>7 DEF three
<1> QED BY <1>1, <1>2 DEF SocketThreads

\* The threads that a worker has started are lists too, and it starts them in two steps.
LEMMA ThreadsOfStart ==
  ASSUME ReadFromFile
  PROVE  /\ PoolThreads \in Seq(Thread) /\ SocketThreads \in Seq(Thread)
         /\ <<>> \o PoolThreads = PoolThreads
<1>1. PICK n \in Nat : n = Conf("ProcMsgRecvWorkThreadCount", 5)
  BY CountsOfFile
<1>2. PICK own \in Seq(Thread) : TRUE
  <2>1. <<>> \in Seq(Thread)
    BY EmptySeq
  <2> QED BY <2>1
<1>3. PoolThreads \in Seq(Thread) /\ <<>> \o PoolThreads = PoolThreads
  <2>1. PoolThreads = [t \in 1..n |-> "ThreadFunc"]
    BY <1>1 DEF PoolThreads
  <2> QED BY <2>1, <1>2, ThreadsOfWorker
<1>4. SocketThreads \in Seq(Thread)
  <2>1. <<"ServerSendQueueThread", "ServerRecyConnectionThread">> \in Seq(Thread)
    BY DEF Thread
  <2>2. <<"ServerSendQueueThread", "ServerRecyConnectionThread",
          "ServerTimerQueueMonitorThread">> \in Seq(Thread)
    BY DEF Thread
  <2> QED BY <2>1, <2>2, SocketThreadsAre
<1> QED BY <1>3, <1>4

\* The next stage of a worker's start, with further threads.
LEMMA NextStage ==
  ASSUME NEW pc, NEW ts, NEW e, NEW pc2, NEW more,
         NEW both, both = ts \o more,
         NEW r, r = [pc |-> pc, threads |-> ts, epoll |-> e],
         NEW r2, r2 = [r EXCEPT !.pc = pc2, !.threads = @ \o more]
  PROVE  r2 = [pc |-> pc2, threads |-> both, epoll |-> e]
OBVIOUS

\* Each worker starts what nginx.conf asks for, step by step, and what it has started goes
\* when it ends.
LEMMA WorkersStep ==
  /\ TypeOK /\ ForkedInTurn
  /\ ReadFromFile /\ SettingsRead /\ SocketsInTurn /\ WorkersInTurn /\ [StartNext]_allVars
  => WorkersInTurn'
<1> SUFFICES ASSUME TypeOK, ForkedInTurn, ReadFromFile, SettingsRead, SocketsInTurn,
                    WorkersInTurn, [StartNext]_allVars
             PROVE  WorkersInTurn'
  OBVIOUS
<1> DEFINE cycle == main = "ngx_master_process_cycle"
<1>1. /\ (master # "main" => cycle) /\ init = [w \in Workers |-> init[w]]
      /\ \A w \in Workers : InitInTurn(w)
      /\ \A w \in Workers : worker[w] \in {"starting", "running"} => cycle
  BY DEF WorkersInTurn
<1>2. worker = [w \in Workers |-> worker[w]]
  BY DEF TypeOK
<1>3. ASSUME ~cycle
      PROVE  /\ master = "main" /\ \A w \in Workers : worker[w] \notin {"starting", "running"}
             /\ \A w \in Workers : init[w] = Untouched
  BY <1>1, <1>3 DEF InitInTurn
<1>4. CASE ~cycle /\ UNCHANGED <<worker, master, init>>
  BY <1>1, <1>3, <1>4 DEF WorkersInTurn, InitInTurn
<1>5. ASSUME UNCHANGED <<m_ConfigItemList, m_ListenSocketList>>
      PROVE  PoolThreads' = PoolThreads /\ SocketThreads' = SocketThreads
  BY <1>5 DEF PoolThreads, SocketThreads, Conf
<1>6. CASE UNCHANGED <<worker, master, init, main, m_ConfigItemList, m_ListenSocketList>>
  BY <1>1, <1>5, <1>6 DEF WorkersInTurn, InitInTurn
<1>7. CASE UNCHANGED <<main, m_ConfigItemList, setting, m_ListenSocketList>>
           /\ (StartCycle \/ Master \/ \E w \in Workers : Worker(w))
  <2> DEFINE Moves(w) == \A x \in Workers : x # w =>
               worker'[x] = worker[x] /\ init'[x] = init[x]
  <2>1. PoolThreads' = PoolThreads /\ SocketThreads' = SocketThreads /\ (cycle' <=> cycle)
        /\ m_ListenSocketList' = m_ListenSocketList
    BY <1>5, <1>7
  <2>2. ASSUME NEW w \in Workers, cycle, init' = [x \in Workers |-> init'[x]], Moves(w),
               InitInTurn(w)'
        PROVE  WorkersInTurn'
    BY <1>1, <2>1, <2>2 DEF WorkersInTurn, InitInTurn
  <2>3. CASE StartCycle
    BY <1>1, <2>1, <2>3 DEF StartCycle, StartMaster, startVars, WorkersInTurn, InitInTurn
  <2>4. CASE Master
    <3>1. init' = init /\ ngx_master_process_cycle
      BY <2>4 DEF Master, startVars
    <3>2. CASE ngx_spawn_process
      <4>1. /\ cycle /\ inum \in Workers
            /\ \E outcome \in {"starting", "failed"} : worker' = [worker EXCEPT ![inum] = outcome]
        <5>1. inum \in 0..(MaxWorkers - 1)
          BY <3>2, WorkersAssumption DEF ngx_spawn_process, TypeOK
        <5> QED BY <1>1, <3>2, <5>1 DEF ngx_spawn_process, Workers
      <4>2. init[inum] = Untouched
        <5>1. worker[inum] = "none"
          BY <4>1, WorkersAssumption DEF ForkedInTurn, TypeOK, Workers
        <5> QED BY <1>1, <4>1, <5>1 DEF InitInTurn
      <4>3. PICK w \in Workers : w = inum
        BY <4>1
      <4>4. /\ worker'[w] \in {"starting", "failed"}
            /\ \A x \in Workers : x # w => worker'[x] = worker[x]
        BY <1>2, <4>1, <4>3
      <4>5. InitInTurn(w)'
        BY <3>1, <4>2, <4>3, <4>4 DEF InitInTurn
      <4> QED BY <1>1, <2>2, <3>1, <4>1, <4>4, <4>5
    <3>3. CASE AllForked \/ ngx_signal_handler \/ NobodyToReap
      <4>1. worker' = worker /\ cycle
        BY <1>1, <3>3 DEF AllForked, ngx_signal_handler, NobodyToReap
      <4> QED BY <1>1, <2>1, <3>1, <4>1 DEF WorkersInTurn, InitInTurn
    <3>4. CASE Reap
      <4>1. PICK w \in Workers : worker[w] = "zombie" /\ worker' = [worker EXCEPT ![w] = "reaped"]
        BY <3>4 DEF Reap
      <4>2. worker'[w] = "reaped" /\ \A x \in Workers : x # w => worker'[x] = worker[x]
        BY <1>2, <4>1
      <4>3. InitInTurn(w)'
        BY <1>1, <3>1, <4>1, <4>2 DEF InitInTurn
      <4>4. cycle
        BY <1>1, <3>4 DEF Reap
      <4> QED BY <1>1, <2>2, <3>1, <4>2, <4>3, <4>4
    <3> QED BY <3>1, <3>2, <3>3, <3>4 DEF ngx_master_process_cycle, ngx_process_get_status
  <2>5. ASSUME NEW w \in Workers, Worker(w) PROVE WorkersInTurn'
    <3>1. InitInTurn(w) /\ Untouched = [pc |-> "Create", threads |-> <<>>, epoll |-> <<>>]
      BY <1>1 DEF Untouched
    <3>2. /\ PoolThreads \in Seq(Thread) /\ SocketThreads \in Seq(Thread)
          /\ <<>> \o PoolThreads = PoolThreads
      BY ThreadsOfStart
    <3>3. PICK pool \in Seq(Thread), own \in Seq(Thread) :
            pool = PoolThreads /\ own = SocketThreads /\ <<>> \o pool = pool
      BY <3>2
    <3>4. CASE CreatePool(w)
      <4>1. /\ worker[w] = "starting" /\ init[w].pc = "Create" /\ worker' = worker
            /\ init' = [init EXCEPT ![w].pc = "Initialize_subproc", ![w].threads = @ \o pool]
        BY <3>3, <3>4 DEF CreatePool, InitAt, Started, vars, PoolThreads
      <4>2. init[w] = [pc |-> "Create", threads |-> <<>>, epoll |-> <<>>]
        BY <3>1, <4>1 DEF InitInTurn
      <4>3. init'[w] = [pc |-> "Initialize_subproc", threads |-> <<>> \o pool, epoll |-> <<>>]
        <5>1. init'[w] = [init[w] EXCEPT !.pc = "Initialize_subproc", !.threads = @ \o pool]
          BY <1>1, <4>1
        <5>2. PICK r, r2, e, none : r = init[w] /\ r2 = init'[w] /\ e = <<>> /\ none = <<>>
          OBVIOUS
        <5>3. r2 = [r EXCEPT !.pc = "Initialize_subproc", !.threads = @ \o pool]
          BY <5>1, <5>2
        <5>4. r = [pc |-> "Create", threads |-> none, epoll |-> e]
          BY <4>2, <5>2
        <5>5. PICK both : both = none \o pool
          OBVIOUS
        <5> HIDE <5>2
        <5>6. r2 = [pc |-> "Initialize_subproc", threads |-> both, epoll |-> e]
          BY ONLY <5>3, <5>4, <5>5, NextStage
        <5> QED BY <5>2, <5>5, <5>6
      <4>4. Moves(w) /\ init' = [x \in Workers |-> init'[x]]
        BY <1>1, <4>1
      <4>5. InitInTurn(w)'
        BY <2>1, <3>3, <4>1, <4>3 DEF InitInTurn
      <4> QED BY <1>1, <2>2, <4>1, <4>4, <4>5
    <3>5. CASE Initialize_subproc(w)
      <4>1. cycle
        BY <1>1, <3>5 DEF Initialize_subproc, InitAt
      <4>2. setting.m_ifkickTimeCount = Conf("Sock_WaitTimeEnable", 0)
        BY <4>1 DEF SettingsRead
      <4>3. /\ worker[w] = "starting" /\ init[w].pc = "Initialize_subproc" /\ worker' = worker
            /\ init' = [init EXCEPT ![w].pc = "ngx_epoll_init", ![w].threads = @ \o own]
        BY <3>3, <3>5, <4>2 DEF Initialize_subproc, InitAt, Started, vars, SocketThreads
      <4>4. init[w] = [pc |-> "Initialize_subproc", threads |-> pool, epoll |-> <<>>]
        BY <3>1, <3>3, <4>3 DEF InitInTurn
      <4>5. init'[w] = [pc |-> "ngx_epoll_init", threads |-> pool \o own, epoll |-> <<>>]
        <5>1. init'[w] = [init[w] EXCEPT !.pc = "ngx_epoll_init", !.threads = @ \o own]
          BY <1>1, <4>3
        <5>2. PICK r, r2, e, both :
                r = init[w] /\ r2 = init'[w] /\ e = <<>> /\ both = pool \o own
          OBVIOUS
        <5>3. r2 = [r EXCEPT !.pc = "ngx_epoll_init", !.threads = @ \o own]
          BY <5>1, <5>2
        <5>4. r = [pc |-> "Initialize_subproc", threads |-> pool, epoll |-> e]
          BY <4>4, <5>2
        <5>5. both = pool \o own
          BY <5>2
        <5> HIDE <5>2
        <5>6. r2 = [pc |-> "ngx_epoll_init", threads |-> both, epoll |-> e]
          BY ONLY <5>3, <5>4, <5>5, NextStage
        <5> QED BY <5>2, <5>6
      <4>6. Moves(w) /\ init' = [x \in Workers |-> init'[x]]
        BY <1>1, <4>3
      <4>7. InitInTurn(w)'
        BY <2>1, <3>3, <4>3, <4>5 DEF InitInTurn
      <4> QED BY <2>2, <4>1, <4>3, <4>6, <4>7
    <3>6. CASE ngx_epoll_init(w)
      <4>1. /\ worker[w] = "starting" /\ init[w].pc = "ngx_epoll_init"
            /\ worker' = [worker EXCEPT ![w] = "running"]
            /\ init' = [init EXCEPT ![w].epoll = m_ListenSocketList]
        BY <3>6 DEF ngx_epoll_init, InitAt, ngx_worker_process_init
      <4>2. init[w] = [pc |-> "ngx_epoll_init", threads |-> pool \o own, epoll |-> <<>>]
        <5>1. init[w] = [pc |-> "ngx_epoll_init", threads |-> PoolThreads \o SocketThreads,
                         epoll |-> <<>>]
          <6> DEFINE second ==
                       [pc |-> "Initialize_subproc", threads |-> PoolThreads, epoll |-> <<>>]
                     third == [pc |-> "ngx_epoll_init", threads |-> PoolThreads \o SocketThreads,
                               epoll |-> <<>>]
          <6>1. Untouched.pc = "Create" /\ second.pc = "Initialize_subproc"
            BY DEF Untouched
          <6>2. init[w] \in {Untouched, second, third}
            BY <3>1, <4>1 DEF InitInTurn
          <6> HIDE DEF second, third
          <6>3. init[w] = third
            BY <4>1, <6>1, <6>2
          <6> QED BY <6>3 DEF third
        <5> QED BY <3>3, <5>1
      <4>3. init'[w] = [pc |-> "ngx_epoll_init", threads |-> pool \o own,
                        epoll |-> m_ListenSocketList]
        <5>1. init'[w] = [init[w] EXCEPT !.epoll = m_ListenSocketList]
          BY <1>1, <4>1
        <5>2. PICK both : both = pool \o own
          OBVIOUS
        <5>3. init[w] = [pc |-> "ngx_epoll_init", threads |-> both, epoll |-> <<>>]
          BY <4>2, <5>2
        <5>4. init'[w] = [pc |-> "ngx_epoll_init", threads |-> both, epoll |-> m_ListenSocketList]
          BY <5>1, <5>3
        <5> QED BY <5>2, <5>4
      <4>4. worker'[w] = "running" /\ Moves(w) /\ init' = [x \in Workers |-> init'[x]]
        BY <1>1, <1>2, <4>1
      <4>5. InitInTurn(w)'
        BY <2>1, <3>3, <4>3, <4>4 DEF InitInTurn
      <4> QED BY <1>1, <2>2, <4>1, <4>4, <4>5
    <3>7. CASE WorkerEnds(w)
      <4>1. /\ worker[w] \in {"starting", "running"} /\ worker' = [worker EXCEPT ![w] = "zombie"]
            /\ init' = [init EXCEPT ![w] = Untouched]
        BY <3>7 DEF WorkerEnds, Ends
      <4>2. /\ worker'[w] = "zombie" /\ init'[w] = Untouched /\ Moves(w)
            /\ init' = [x \in Workers |-> init'[x]]
        BY <1>1, <1>2, <4>1
      <4>3. InitInTurn(w)'
        BY <4>2 DEF InitInTurn
      <4> QED BY <1>1, <2>2, <4>1, <4>2, <4>3
    <3> QED BY <2>5, <3>4, <3>5, <3>6, <3>7 DEF Worker
  <2> QED BY <1>7, <2>3, <2>4, <2>5
<1>8. CASE LoadFile
  BY <1>4, <1>8 DEF LoadFile, vars
<1>9. CASE /\ \/ ngx_init_signals \/ ReadConf \/ OpenListeningSocket \/ AllSocketsOpen
              \/ ngx_daemon \/ LeaveTerminal
           /\ UNCHANGED <<vars, init>>
  <2>1. ~cycle
    BY <1>9 DEF ngx_init_signals, ReadConf, OpenListeningSocket, AllSocketsOpen,
                ngx_daemon, LeaveTerminal
  <2> QED BY <1>4, <1>9, <2>1 DEF vars
<1>10. CASE UNCHANGED allVars
  BY <1>6, <1>10 DEF allVars, startVars, vars
<1> QED
  BY <1>7, <1>8, <1>9, <1>10, MainSteps

\* The start keeps the settings, the sockets and the workers.
THEOREM StartInvariant == StartSpec => []StartIInv
<1>1. StartInit => StartIInv
  <2> SUFFICES ASSUME StartInit PROVE StartIInv
    OBVIOUS
  <2>1. /\ main = "Load" /\ m_ListenSocketList = <<>> /\ master = "main"
        /\ worker = [w \in Workers |-> "none"] /\ init = [w \in Workers |-> Untouched]
    BY DEF StartInit, Init
  <2>2. <<>> \in Seq(ToSet(<<>>)) /\ Len(<<>>) = 0
    OBVIOUS
  <2>3. SettingsRead /\ SocketsInTurn
    BY <2>1, <2>2 DEF SettingsRead, SocketsInTurn, Opened
  <2>4. WorkersInTurn
    BY <2>1 DEF WorkersInTurn, InitInTurn
  <2> QED BY <2>3, <2>4, InitReadFromFile DEF StartIInv
<1>2. TypeOK /\ ForkedInTurn /\ StartIInv /\ [StartNext]_allVars => StartIInv'
  BY NextReadFromFile, SettingsStep, SocketsStep, WorkersStep DEF StartIInv
<1>3. StartSpec => [](TypeOK /\ ForkedInTurn)
  BY StartImplements, TypeCorrect, EachItsTurn, PTL
<1> QED BY <1>1, <1>2, <1>3, PTL DEF StartSpec

\* A worker that is ready listens on the ports that nginx.conf names, and has the threads
\* it asks for, whatever failed in the other workers and in earlier steps.
THEOREM ReadyAsConfigured == StartSpec => []RunsAsConfigured
<1>1. StartIInv => RunsAsConfigured
  <2> SUFFICES ASSUME StartIInv, NEW w \in Workers, worker[w] = "running"
               PROVE  /\ Len(init[w].epoll) = setting.m_ListenPortCount
                      /\ \A i \in DOMAIN init[w].epoll :
                           init[w].epoll[i].bound = Conf(PortNames[i], DefaultPort) % PortSpace
                      /\ Conf("Sock_WaitTimeEnable", 0) = 1 <=>
                           "ServerTimerQueueMonitorThread" \in ToSet(init[w].threads)
                      /\ Cardinality({t \in DOMAIN init[w].threads :
                                        init[w].threads[t] = "ThreadFunc"})
                           = Conf("ProcMsgRecvWorkThreadCount", 5)
    BY DEF RunsAsConfigured
  <2>1. /\ main = "ngx_master_process_cycle"
        /\ init[w] = [pc |-> "ngx_epoll_init", threads |-> PoolThreads \o SocketThreads,
                      epoll |-> m_ListenSocketList]
    BY DEF StartIInv, WorkersInTurn, InitInTurn
  <2>2. /\ m_ListenSocketList \in Seq(ToSet(m_ListenSocketList))
        /\ Opened = setting.m_ListenPortCount
        /\ \A i \in 1..Opened :
             m_ListenSocketList[i].bound = Conf(PortNames[i], DefaultPort) % PortSpace
    BY <2>1 DEF StartIInv, SocketsInTurn
  <2>3. DOMAIN m_ListenSocketList = 1..Opened
    BY <2>2 DEF Opened
  <2>4. PICK n \in Nat : n = Conf("ProcMsgRecvWorkThreadCount", 5)
    BY CountsOfFile DEF StartIInv
  <2>5. PICK own \in Seq(Thread) : own = SocketThreads
    BY ThreadsOfStart DEF StartIInv
  <2>6. PICK s : s = [t \in 1..n |-> "ThreadFunc"] \o own
    OBVIOUS
  <2>7. init[w].threads = s
    BY <2>1, <2>4, <2>5, <2>6 DEF PoolThreads
  <2>8. /\ s \in Seq(Thread) /\ Len(s) = n + Len(own) /\ Len(own) \in Nat
        /\ \A t \in 1..n : s[t] = "ThreadFunc"
        /\ \A t \in 1..Len(own) : s[n + t] = own[t]
    <3>1. /\ [t \in 1..n |-> "ThreadFunc"] \o own \in Seq(Thread)
          /\ Len([t \in 1..n |-> "ThreadFunc"] \o own) = n + Len(own)
          /\ \A t \in 1..n : ([k \in 1..n |-> "ThreadFunc"] \o own)[t] = "ThreadFunc"
          /\ \A t \in 1..Len(own) : ([k \in 1..n |-> "ThreadFunc"] \o own)[n + t] = own[t]
      BY ThreadsOfWorker
    <3>2. Len(own) \in Nat
      OBVIOUS
    <3> QED BY <2>6, <3>1, <3>2, Zenon
  <2>9. DOMAIN s = 1..(n + Len(own))
    BY <2>8
  <2>10. own = IF Conf("Sock_WaitTimeEnable", 0) = 1
               THEN <<"ServerSendQueueThread", "ServerRecyConnectionThread",
                      "ServerTimerQueueMonitorThread">>
               ELSE <<"ServerSendQueueThread", "ServerRecyConnectionThread">>
    BY <2>5, SocketThreadsAre
  <2>11. /\ Conf("Sock_WaitTimeEnable", 0) = 1 =>
              Len(own) = 3 /\ own[3] = "ServerTimerQueueMonitorThread"
         /\ Conf("Sock_WaitTimeEnable", 0) # 1 => Len(own) = 2
         /\ own[1] = "ServerSendQueueThread" /\ own[2] = "ServerRecyConnectionThread"
    BY <2>10
  <2>12. \A t \in 1..(n + Len(own)) : t \in 1..n \/ (t - n \in 1..Len(own) /\ s[t] = own[t - n])
    <3> TAKE t \in 1..(n + Len(own))
    <3>1. t \in 1..n \/ (t - n \in 1..Len(own) /\ n + (t - n) = t)
      BY <2>8
    <3> QED BY <2>8, <3>1
  <2>13. \A t \in 1..Len(own) : t \in {1, 2, 3} /\ own[t] # "ThreadFunc"
    <3>1. CASE Conf("Sock_WaitTimeEnable", 0) = 1
      <4>1. Len(own) = 3
        BY <2>11, <3>1
      <4>2. \A t \in 1..Len(own) : t \in {1, 2, 3}
        BY <4>1
      <4> QED BY <2>11, <3>1, <4>2
    <3>2. CASE Conf("Sock_WaitTimeEnable", 0) # 1
      <4>1. Len(own) = 2
        BY <2>11, <3>2
      <4>2. \A t \in 1..Len(own) : t \in {1, 2}
        BY <4>1
      <4> QED BY <2>11, <3>2, <4>2
    <3> QED BY <3>1, <3>2
  <2>14. {t \in DOMAIN s : s[t] = "ThreadFunc"} = 1..n
    <3>1. \A t \in 1..n : t \in 1..(n + Len(own))
      BY <2>8
    <3> QED BY <2>8, <2>9, <2>12, <2>13, <3>1
  <2>15. Cardinality(1..n) = n
    BY FS_Interval
  <2>16. Conf("Sock_WaitTimeEnable", 0) = 1 <=> "ServerTimerQueueMonitorThread" \in ToSet(s)
    <3>1. CASE Conf("Sock_WaitTimeEnable", 0) = 1
      <4>1. n + 3 \in DOMAIN s /\ s[n + 3] = "ServerTimerQueueMonitorThread"
        <5>1. Len(own) = 3 /\ own[3] = "ServerTimerQueueMonitorThread"
          BY <2>11, <3>1
        <5>2. 3 \in 1..Len(own) /\ n + 3 \in 1..(n + Len(own))
          BY <5>1
        <5> QED BY <2>8, <2>9, <5>1, <5>2
      <4> QED BY <3>1, <4>1 DEF ToSet
    <3>2. CASE Conf("Sock_WaitTimeEnable", 0) # 1
      <4>1. \A t \in 1..Len(own) : own[t] # "ServerTimerQueueMonitorThread"
        <5>1. Len(own) = 2
          BY <2>11, <3>2
        <5>2. \A t \in 1..Len(own) : t \in {1, 2}
          BY <5>1
        <5> QED BY <2>11, <5>2
      <4>2. \A t \in DOMAIN s : s[t] # "ServerTimerQueueMonitorThread"
        BY <2>8, <2>9, <2>12, <4>1
      <4> QED BY <3>2, <4>2 DEF ToSet
    <3> QED BY <3>1, <3>2
  <2>17. Cardinality({t \in DOMAIN init[w].threads : init[w].threads[t] = "ThreadFunc"})
           = Conf("ProcMsgRecvWorkThreadCount", 5)
    BY <2>4, <2>7, <2>14, <2>15
  <2>18. /\ init[w].epoll = m_ListenSocketList
         /\ Len(init[w].epoll) = setting.m_ListenPortCount
         /\ \A i \in DOMAIN init[w].epoll :
              init[w].epoll[i].bound = Conf(PortNames[i], DefaultPort) % PortSpace
    <3>1. init[w].epoll = m_ListenSocketList
      BY <2>1
    <3> QED BY <2>2, <2>3, <3>1 DEF Opened
  <2> QED BY <2>7, <2>16, <2>17, <2>18
<1> QED BY StartInvariant, <1>1, PTL

(* The types of the start *)

\* What main keeps has its types, besides what it loaded.
MainTypes ==
  /\ file.kind \in {"missing", "directory", "file"} /\ file.text \in Seq(Token)
  /\ main \in {"Load", "ngx_init_signals", "ReadConf", "ngx_open_listening_sockets",
               "ngx_daemon", "setsid", "ngx_master_process_cycle", "returned"}
  /\ code \in [{"first", "daemon"} -> {Running, "0", "1", "2"}]
  /\ \A x \in DOMAIN setting : setting[x] \in Nat
  /\ m_ListenSocketList \in Seq(Listening)

\* It has them at first.
LEMMA InitMainTypes == StartInit => MainTypes
<1> SUFFICES ASSUME StartInit PROVE MainTypes
  OBVIOUS
<1>1. file.kind \in {"missing", "directory", "file"} /\ file.text \in Seq(Token)
  BY FilesTyped DEF StartInit
<1>2. code \in [{"first", "daemon"} -> {Running, "0", "1", "2"}]
  BY DEF StartInit
<1>3. \A x \in DOMAIN setting : setting[x] \in Nat
  BY DEF StartInit, Unread
<1>4. main = "Load" /\ m_ListenSocketList = <<>> /\ <<>> \in Seq(Listening)
  BY DEF StartInit
<1> QED BY <1>1, <1>2, <1>3, <1>4 DEF MainTypes

\* The largest of two numbers is one of them.
LEMMA LargerOfTwo ==
  ASSUME NEW a \in Nat, NEW b \in Nat
  PROVE  Max({a, b}) \in Nat
<1>1. a + b \in Nat /\ {a, b} \in SUBSET (0..(a + b)) /\ {a, b} # {}
  OBVIOUS
<1>2. Max({a, b}) \in {a, b}
  BY <1>1, MaxAmong
<1> QED BY <1>2

\* What main reads is numbers.
LEMMA ReadConfTyped ==
  ASSUME ReadFromFile, ReadConf
  PROVE  \A x \in DOMAIN setting' : setting'[x] \in Nat
<1>1. \A name : \A def \in Nat : Conf(name, def) \in Nat
  BY ConfTyped
<1>2. Max({5, Conf("Sock_MaxWaitTime", 0)}) \in Nat
  <2>1. Conf("Sock_MaxWaitTime", 0) \in Nat /\ 5 \in Nat
    BY <1>1
  <2> QED BY <2>1, LargerOfTwo
<1>3. PICK c \in Nat, p \in Nat, r \in Nat, k \in Nat, t \in Nat :
        /\ c = Conf("worker_connections", 1) /\ p = Conf("ListenPortCount", 1)
        /\ r = Conf("Sock_RecyConnectionWaitTime", 60) /\ k = Conf("Sock_WaitTimeEnable", 0)
        /\ t = Max({5, Conf("Sock_MaxWaitTime", 0)})
  BY <1>1, <1>2
<1>4. PICK o \in Nat, e \in Nat, i \in Nat, n \in Nat :
        /\ o = Conf("Sock_TimeOutKick", 0) /\ e = Conf("Sock_FloodAttackKickEnable", 0)
        /\ i = Conf("Sock_FloodTimeInterval", 100) /\ n = Conf("Sock_FloodKickCounter", 10)
  BY <1>1
<1>5. setting' = [m_worker_connections |-> c, m_ListenPortCount |-> p,
                  m_RecyConnectionWaitTime |-> r, m_ifkickTimeCount |-> k,
                  m_iWaitTime |-> t, m_ifTimeOutKick |-> o, m_floodAkEnable |-> e,
                  m_floodTimeInterval |-> i, m_floodKickCount |-> n]
  BY <1>3, <1>4, Zenon DEF ReadConf
<1> QED BY <1>5

\* A socket that listens has its port and what the port is taken for.
LEMMA ListensTyped ==
  ASSUME NEW iport \in Nat, NEW reuseport \in BOOLEAN
  PROVE  [port |-> iport, bound |-> iport % PortSpace, reuseport |-> reuseport] \in Listening
<1>1. iport % PortSpace \in Nat
  BY PortsAssumption
<1> QED BY <1>1 DEF Listening

\* No step of main makes anything else of it.
LEMMA NextMainTypes == ReadFromFile /\ MainTypes /\ [StartNext]_allVars => MainTypes'
<1> SUFFICES ASSUME ReadFromFile, MainTypes, [StartNext]_allVars PROVE MainTypes'
  OBVIOUS
<1>1. /\ \A n \in {"1", "2"} : Return(n) =>
             main' = "returned" /\ code' \in [{"first", "daemon"} -> {Running, "0", "1", "2"}]
      /\ \A pc : ParentReturns(pc) =>
             main' = pc /\ code' \in [{"first", "daemon"} -> {Running, "0", "1", "2"}]
      /\ \A pc : Goto(pc) =>
             main' = pc /\ code' \in [{"first", "daemon"} -> {Running, "0", "1", "2"}]
  <2>1. code \in [{"first", "daemon"} -> {Running, "0", "1", "2"}]
    BY DEF MainTypes
  <2> QED BY <2>1 DEF Return, ParentReturns, Goto
<1>2. CASE LoadFile
  <2>1. /\ main' \in {"returned", "ngx_init_signals"}
        /\ code' \in [{"first", "daemon"} -> {Running, "0", "1", "2"}]
    BY <1>1, <1>2 DEF LoadFile
  <2>2. file'.kind = "missing" /\ file'.text = <<>> /\ <<>> \in Seq(Token)
    BY <1>2 DEF LoadFile, NoFile
  <2>3. UNCHANGED <<setting, m_ListenSocketList>>
    BY <1>2 DEF LoadFile
  <2> QED BY <2>1, <2>2, <2>3 DEF MainTypes
<1>3. CASE ReadConf
  <2>1. main' = "ngx_open_listening_sockets" /\ UNCHANGED <<file, m_ListenSocketList>>
    BY <1>1, <1>3 DEF ReadConf
  <2>2. code' \in [{"first", "daemon"} -> {Running, "0", "1", "2"}]
    BY <1>1, <1>3 DEF ReadConf
  <2> QED BY <1>3, <2>1, <2>2, ReadConfTyped DEF MainTypes
<1>4. CASE OpenListeningSocket
  <2>1. /\ main' \in {"ngx_open_listening_sockets", "returned"}
        /\ code' \in [{"first", "daemon"} -> {Running, "0", "1", "2"}]
        /\ UNCHANGED <<file, setting>>
    BY <1>1, <1>4 DEF OpenListeningSocket, Listens
  <2>2. m_ListenSocketList' \in Seq(Listening)
    <3>1. CASE UNCHANGED m_ListenSocketList
      BY <3>1 DEF MainTypes
    <3>2. CASE Listens(Conf(PortNames[Opened + 1], DefaultPort))
      <4>1. PICK iport \in Nat : iport = Conf(PortNames[Opened + 1], DefaultPort)
        BY ConfTyped, PortsAssumption
      <4>2. PICK reuseport \in BOOLEAN :
              m_ListenSocketList' =
                Append(m_ListenSocketList,
                       [port |-> iport, bound |-> iport % PortSpace, reuseport |-> reuseport])
        BY <3>2, <4>1 DEF Listens
      <4>3. PICK one \in Listening :
              one = [port |-> iport, bound |-> iport % PortSpace, reuseport |-> reuseport]
        BY ListensTyped
      <4>4. m_ListenSocketList \in Seq(Listening)
        BY DEF MainTypes
      <4> QED BY <4>2, <4>3, <4>4
    <3> QED BY <1>4, <3>1, <3>2 DEF OpenListeningSocket
  <2> QED BY <2>1, <2>2 DEF MainTypes
<1>5. CASE ngx_init_signals \/ AllSocketsOpen \/ ngx_daemon \/ LeaveTerminal
  <2>1. /\ main' \in {"ReadConf", "returned", "ngx_daemon", "ngx_master_process_cycle", "setsid"}
        /\ code' \in [{"first", "daemon"} -> {Running, "0", "1", "2"}]
    BY <1>1, <1>5 DEF ngx_init_signals, AllSocketsOpen, ngx_daemon, LeaveTerminal
  <2>2. UNCHANGED <<file, setting, m_ListenSocketList>>
    BY <1>5 DEF ngx_init_signals, AllSocketsOpen, ngx_daemon, LeaveTerminal
  <2> QED BY <2>1, <2>2 DEF MainTypes
<1>6. CASE UNCHANGED <<main, code, file, setting, m_ListenSocketList>>
  BY <1>6 DEF MainTypes
<1>7. StartCycle \/ Master => UNCHANGED <<main, code, file, setting, m_ListenSocketList>>
  BY DEF StartCycle, Master, startVars
<1>8. ASSUME NEW w \in Workers, Worker(w)
      PROVE  UNCHANGED <<main, code, file, setting, m_ListenSocketList>>
  BY <1>8 DEF Worker, CreatePool, Initialize_subproc, ngx_epoll_init, WorkerEnds, Started
<1>9. UNCHANGED allVars => UNCHANGED <<main, code, file, setting, m_ListenSocketList>>
  BY DEF allVars, startVars
<1> QED
  BY <1>2, <1>3, <1>4, <1>5, <1>6, <1>7, <1>8, <1>9, MainSteps

\* What a worker has started is threads and sockets.
LEMMA InitTyped ==
  ASSUME ReadFromFile, WorkersInTurn, MainTypes
  PROVE  init \in [Workers -> [pc : {"Create", "Initialize_subproc", "ngx_epoll_init"},
                               threads : Seq(Thread), epoll : Seq(Listening)]]
<1> DEFINE Stage == [pc : {"Create", "Initialize_subproc", "ngx_epoll_init"},
                     threads : Seq(Thread), epoll : Seq(Listening)]
<1>1. /\ PoolThreads \in Seq(Thread) /\ PoolThreads \o SocketThreads \in Seq(Thread)
      /\ <<>> \in Seq(Thread) /\ <<>> \in Seq(Listening) /\ m_ListenSocketList \in Seq(Listening)
  <2>1. PICK p \in Seq(Thread), o \in Seq(Thread) : p = PoolThreads /\ o = SocketThreads
    BY ThreadsOfStart
  <2>2. p \o o \in Seq(Thread)
    BY ConcatProperties
  <2> QED BY <2>1, <2>2 DEF MainTypes
<1>2. PICK p \in Seq(Thread), b \in Seq(Thread), l \in Seq(Listening) :
        p = PoolThreads /\ b = PoolThreads \o SocketThreads /\ l = m_ListenSocketList
  BY <1>1
<1>3. ASSUME NEW w \in Workers PROVE init[w] \in Stage
  <2>1. \/ init[w] = Untouched
        \/ init[w] = [pc |-> "Initialize_subproc", threads |-> p, epoll |-> <<>>]
        \/ init[w] = [pc |-> "ngx_epoll_init", threads |-> b, epoll |-> <<>>]
        \/ init[w] = [pc |-> "ngx_epoll_init", threads |-> b, epoll |-> l]
    BY <1>2, Zenon DEF WorkersInTurn, InitInTurn
  <2>2. PICK t \in Seq(Thread), e \in Seq(Listening) : t = <<>> /\ e = <<>>
    BY <1>1
  <2>3. \A x \in {"Create", "Initialize_subproc", "ngx_epoll_init"}, y \in Seq(Thread),
          z \in Seq(Listening) : [pc |-> x, threads |-> y, epoll |-> z] \in Stage
    OBVIOUS
  <2>4. Untouched = [pc |-> "Create", threads |-> t, epoll |-> e]
    BY <2>2 DEF Untouched
  <2> HIDE DEF Stage
  <2>5. \/ init[w] = [pc |-> "Create", threads |-> t, epoll |-> e]
        \/ init[w] = [pc |-> "Initialize_subproc", threads |-> p, epoll |-> e]
        \/ init[w] = [pc |-> "ngx_epoll_init", threads |-> b, epoll |-> e]
        \/ init[w] = [pc |-> "ngx_epoll_init", threads |-> b, epoll |-> l]
    BY <2>1, <2>2, <2>4, Zenon
  <2> QED BY <2>3, <2>5, Zenon
<1>4. init = [w \in Workers |-> init[w]]
  BY DEF WorkersInTurn
<1> HIDE DEF Stage
<1>5. init \in [Workers -> Stage]
  BY <1>3, <1>4
<1> QED BY <1>5 DEF Stage

\* The whole start has its types, with any nginx.conf that may be written with the tokens,
\* any number of ports and of workers, and any failures.
THEOREM StartTypeCorrect == StartSpec => []StartTypeOK
<1>1. TypeOK /\ StartIInv /\ MainTypes => StartTypeOK
  <2> SUFFICES ASSUME TypeOK, StartIInv, MainTypes PROVE StartTypeOK
    OBVIOUS
  <2>1. m_ConfigItemList \in Seq([ItemName : Seq(Token), ItemContent : Seq(Token)])
    BY ItemListsTyped DEF StartIInv, ReadFromFile, SettingItem
  <2> QED BY <2>1, InitTyped DEF StartIInv, MainTypes, StartTypeOK
<1>2. ReadFromFile /\ MainTypes /\ [StartNext]_allVars => MainTypes'
  BY NextMainTypes
<1>3. StartSpec => []TypeOK
  BY StartImplements, TypeCorrect, PTL
<1> QED
  BY InitMainTypes, SettingsOfTheFile, StartInvariant, <1>1, <1>2, <1>3, PTL DEF StartSpec

(* What Load finds *)

\* Cutting off the end of a text.
LEMMA ChopFacts ==
  ASSUME NEW s \in Seq(Token), NEW T
  PROVE  \E m \in 0..Len(s) :
           /\ Chop(s, T) = SubSeq(s, 1, m)
           /\ m # 0 => s[m] \notin T
           /\ \A k \in 1..Len(s) : k > m => s[k] \in T
<1>1. PICK l, P : l = Len(s) /\ P = {0} \cup Places(s, Token \ T)
  OBVIOUS
<1>2. l \in Nat /\ P \in SUBSET (0..l) /\ P # {}
  BY <1>1 DEF Places
<1>3. Max(P) \in P /\ \A i \in P : i <= Max(P)
  BY <1>2, MaxAmong
<1>4. PICK m \in 0..Len(s) : m = Max(P)
  BY <1>1, <1>2, <1>3
<1>5. Chop(s, T) = SubSeq(s, 1, m)
  BY <1>1, <1>4 DEF Chop
<1>6. m # 0 => s[m] \notin T
  BY <1>1, <1>3, <1>4 DEF Places
<1>7. ASSUME NEW k \in 1..Len(s), k > m PROVE s[k] \in T
  <2>1. k \notin P
    BY <1>2, <1>3, <1>4, <1>7
  <2>2. s[k] \in Token
    OBVIOUS
  <2> QED BY <1>1, <2>1, <2>2 DEF Places
<1> QED BY <1>5, <1>6, <1>7

\* And its front.
LEMMA LtrimFacts ==
  ASSUME NEW s \in Seq(Token)
  PROVE  \E j \in 0..Len(s) :
           /\ Ltrim(s) = SubSeq(s, j + 1, Len(s))
           /\ \A k \in 1..j : s[k] = "space"
           /\ j < Len(s) => s[j + 1] # "space"
<1>1. PICK P : P = {Len(s) + 1} \cup Places(s, Token \ {"space"})
  OBVIOUS
<1>2. P \in SUBSET (1..(Len(s) + 1)) /\ P \in SUBSET Nat /\ P # {} /\ Len(s) \in Nat
  BY <1>1 DEF Places
<1>3. Min(P) \in P /\ \A i \in P : Min(P) <= i
  BY <1>2, MinAmong
<1>4. PICK j \in 0..Len(s) : j + 1 = Min(P)
  <2>1. PICK q \in 1..(Len(s) + 1) : q = Min(P)
    BY <1>2, <1>3
  <2>2. q - 1 \in 0..Len(s) /\ (q - 1) + 1 = q
    BY <1>2
  <2> QED BY <2>1, <2>2
<1>5. Ltrim(s) = SubSeq(s, j + 1, Len(s))
  BY <1>1, <1>4 DEF Ltrim, From
<1>6. ASSUME NEW k \in 1..j PROVE s[k] = "space"
  <2>1. k \in 1..Len(s) /\ k < j + 1
    BY <1>2
  <2>2. k \notin P
    BY <1>2, <1>3, <1>4, <2>1
  <2>3. s[k] \in Token
    BY <2>1
  <2> QED BY <1>1, <2>1, <2>2, <2>3 DEF Places
<1>7. j < Len(s) => s[j + 1] # "space"
  BY <1>1, <1>2, <1>3, <1>4 DEF Places
<1> QED BY <1>5, <1>6, <1>7

\* fgets takes no more than a line, and less only when the line is too long.
LEMMA PieceIs ==
  ASSUME NEW f \in Seq(Token), f # <<>>
  PROVE  \E n \in 1..Len(f) :
           /\ Piece(f) = SubSeq(f, 1, n) /\ Len(Piece(f)) = n
           /\ n <= LineMax
           /\ \A k \in 1..(n - 1) : f[k] # "newline"
           /\ n = LineMax \/ n = Len(f) \/ f[n] = "newline"
<1>1. PICK P : P = Places(f, {"newline"}) \cup {LineMax, Len(f)}
  OBVIOUS
<1>2. Len(f) \in Nat \ {0}
  OBVIOUS
<1>3. P \in SUBSET (Nat \ {0}) /\ P \in SUBSET Nat /\ P # {} /\ Len(f) \in P /\ LineMax \in P
  BY <1>1, <1>2, MaxAssumption DEF Places
<1>4. Min(P) \in P /\ \A i \in P : Min(P) <= i
  BY <1>3, MinAmong
<1>5. PICK n \in 1..Len(f) : n = Min(P)
  <2>1. PICK q \in Nat \ {0} : q = Min(P)
    BY <1>3, <1>4
  <2>2. q <= Len(f)
    BY <1>3, <1>4, <2>1
  <2> QED BY <1>2, <2>1, <2>2
<1>6. Piece(f) = SubSeq(f, 1, n)
  BY <1>1, <1>5 DEF Piece
<1>7. Len(SubSeq(f, 1, n)) = n
  <2>1. n \in 0..Len(f) /\ 1 \in Nat \ {0} /\ 1 <= n /\ n - 1 + 1 = n
    BY <1>2
  <2> QED BY <2>1, PartOfList
<1>8. n <= LineMax
  BY <1>3, <1>4, <1>5
<1>9. ASSUME NEW k \in 1..(n - 1) PROVE f[k] # "newline"
  <2>1. k \in 1..Len(f) /\ ~(n <= k)
    BY <1>2
  <2>2. k \notin P
    BY <1>4, <1>5, <2>1
  <2> QED BY <1>1, <2>1, <2>2 DEF Places
<1>10. n = LineMax \/ n = Len(f) \/ f[n] = "newline"
  BY <1>1, <1>4, <1>5 DEF Places
<1> QED BY <1>6, <1>7, <1>8, <1>9, <1>10

\* A line stands between two ends of lines.
IsLine(f, x, y) ==
  /\ x \in 1..Len(f) /\ y \in 1..Len(f) /\ x <= y
  /\ \A k \in 1..Len(f) : x <= k /\ k <= y => f[k] # "newline"
  /\ x = 1 \/ f[x - 1] = "newline"
  /\ y = Len(f) \/ f[y + 1] = "newline"

\* So it is with those of Lines.
LEMMA LinesAre ==
  ASSUME NEW f \in Seq(Token), NEW x, NEW y
  PROVE  <<x, y>> \in Lines(f) <=> IsLine(f, x, y)
<1>1. <<x, y>> \in Lines(f) <=>
        /\ <<x, y>> \in (1..Len(f)) \X (1..Len(f)) /\ x <= y
        /\ "newline" \notin {f[k] : k \in x..y}
        /\ x = 1 \/ f[x - 1] = "newline"
        /\ y = Len(f) \/ f[y + 1] = "newline"
  BY DEF Lines
<1>2. ASSUME x \in 1..Len(f), y \in 1..Len(f)
      PROVE  "newline" \notin {f[k] : k \in x..y} <=>
               \A k \in 1..Len(f) : x <= k /\ k <= y => f[k] # "newline"
  <2>1. \A k : k \in x..y <=> k \in 1..Len(f) /\ x <= k /\ k <= y
    BY <1>2
  <2> QED BY <2>1
<1>3. <<x, y>> \in (1..Len(f)) \X (1..Len(f)) <=> x \in 1..Len(f) /\ y \in 1..Len(f)
  OBVIOUS
<1> QED BY <1>1, <1>2, <1>3, Zenon DEF IsLine

\* And every one of them is a pair.
LEMMA LineIsPair ==
  ASSUME NEW f, NEW line \in Lines(f)
  PROVE  line = <<line[1], line[2]>>
BY DEF Lines

\* The first n tokens are a line with its end, and r is what comes behind.
Splits(f, n, r) ==
  /\ n \in 1..Len(f)
  /\ \A k \in 1..Len(f) : k < n => f[k] # "newline"
  /\ n = Len(f) \/ f[n] = "newline"
  /\ r \in Seq(Token) /\ n + Len(r) = Len(f)
  /\ \A k \in 1..Len(r) : n + k \in 1..Len(f) /\ r[k] = f[n + k]

\* Where the first line ends, if it is not empty.
End(f, n) == IF f[n] = "newline" THEN n - 1 ELSE n

\* The lines behind the first are those of the rest.
LEMMA LinesBehind ==
  ASSUME NEW f \in Seq(Token), NEW n, NEW r, Splits(f, n, r), NEW x \in Nat, NEW y \in Nat
  PROVE  IsLine(r, x, y) <=> x # 0 /\ IsLine(f, n + x, n + y)
<1>1. n \in Nat \ {0} /\ Len(f) \in Nat /\ Len(r) \in Nat /\ n + Len(r) = Len(f)
  BY DEF Splits
<1>2. \A k \in 1..Len(r) : n + k \in 1..Len(f) /\ r[k] = f[n + k]
  BY DEF Splits
<1>3. \A k \in 1..Len(f) : k > n => k - n \in 1..Len(r) /\ n + (k - n) = k
  BY <1>1
<1>4. ASSUME IsLine(r, x, y) PROVE x # 0 /\ IsLine(f, n + x, n + y)
  <2>1. x \in 1..Len(r) /\ y \in 1..Len(r) /\ x <= y /\ x # 0
    BY <1>4 DEF IsLine
  <2>2. n + x \in 1..Len(f) /\ n + y \in 1..Len(f) /\ n + x <= n + y
    BY <1>1, <1>2, <2>1
  <2>3. ASSUME NEW k \in 1..Len(f), n + x <= k, k <= n + y PROVE f[k] # "newline"
    <3>1. k > n /\ x <= k - n /\ k - n <= y
      BY <1>1, <2>1, <2>3
    <3>2. k - n \in 1..Len(r) /\ f[k] = r[k - n]
      BY <1>2, <1>3, <3>1
    <3> QED BY <1>4, <3>1, <3>2 DEF IsLine
  <2>4. f[(n + x) - 1] = "newline"
    <3>1. CASE x = 1
      <4>1. (n + x) - 1 = n /\ n # Len(f)
        BY <1>1, <2>1, <3>1
      <4> QED BY <4>1 DEF Splits
    <3>2. CASE x # 1
      <4>1. x - 1 \in 1..Len(r) /\ n + (x - 1) = (n + x) - 1
        BY <1>1, <2>1, <3>2
      <4>2. r[x - 1] = "newline"
        BY <1>4, <3>2 DEF IsLine
      <4> QED BY <1>2, <4>1, <4>2
    <3> QED BY <3>1, <3>2
  <2>5. n + y = Len(f) \/ f[(n + y) + 1] = "newline"
    <3>1. CASE y = Len(r)
      BY <1>1, <3>1
    <3>2. CASE y # Len(r)
      <4>1. y + 1 \in 1..Len(r) /\ n + (y + 1) = (n + y) + 1
        BY <1>1, <2>1, <3>2
      <4>2. r[y + 1] = "newline"
        BY <1>4, <3>2 DEF IsLine
      <4> QED BY <1>2, <4>1, <4>2
    <3> QED BY <3>1, <3>2
  <2> QED BY <2>1, <2>2, <2>3, <2>4, <2>5 DEF IsLine
<1>5. ASSUME x # 0, IsLine(f, n + x, n + y) PROVE IsLine(r, x, y)
  <2>1. n + x \in 1..Len(f) /\ n + y \in 1..Len(f) /\ n + x <= n + y
    BY <1>5 DEF IsLine
  <2>2. x \in 1..Len(r) /\ y \in 1..Len(r) /\ x <= y
    BY <1>1, <1>5, <2>1
  <2>3. ASSUME NEW k \in 1..Len(r), x <= k, k <= y PROVE r[k] # "newline"
    <3>1. n + k \in 1..Len(f) /\ n + x <= n + k /\ n + k <= n + y
      BY <1>1, <1>2, <2>3
    <3>2. f[n + k] # "newline"
      BY <1>5, <3>1 DEF IsLine
    <3> QED BY <1>2, <3>2
  <2>4. x = 1 \/ r[x - 1] = "newline"
    <3> SUFFICES ASSUME x # 1 PROVE r[x - 1] = "newline"
      OBVIOUS
    <3>1. x - 1 \in 1..Len(r) /\ n + (x - 1) = (n + x) - 1 /\ n + x # 1
      BY <1>1, <2>2
    <3>2. f[(n + x) - 1] = "newline"
      BY <1>5, <3>1 DEF IsLine
    <3> QED BY <1>2, <3>1, <3>2
  <2>5. y = Len(r) \/ r[y + 1] = "newline"
    <3> SUFFICES ASSUME y # Len(r) PROVE r[y + 1] = "newline"
      OBVIOUS
    <3>1. y + 1 \in 1..Len(r) /\ n + (y + 1) = (n + y) + 1 /\ n + y # Len(f)
      BY <1>1, <2>2
    <3>2. f[(n + y) + 1] = "newline"
      BY <1>5, <3>1 DEF IsLine
    <3> QED BY <1>2, <3>1, <3>2
  <2> QED BY <2>2, <2>3, <2>4, <2>5 DEF IsLine
<1> QED BY <1>4, <1>5

\* Any other line is the first one.
LEMMA FirstLine ==
  ASSUME NEW f \in Seq(Token), NEW n, NEW r, Splits(f, n, r)
  PROVE  /\ \A x, y : IsLine(f, x, y) /\ ~(x > n) => x = 1 /\ y = End(f, n)
         /\ End(f, n) \in 0..Len(f)
         /\ End(f, n) # 0 => IsLine(f, 1, End(f, n))
<1>1. n \in Nat \ {0} /\ Len(f) \in Nat /\ n <= Len(f)
  BY DEF Splits
<1>2. PICK e \in 0..Len(f) : e = End(f, n) /\ (f[n] = "newline" => n = e + 1)
                             /\ (f[n] # "newline" => n = e /\ n = Len(f))
  BY <1>1 DEF End, Splits
<1>3. \A k \in 1..Len(f) : k <= e => f[k] # "newline"
  BY <1>1, <1>2 DEF Splits
<1>4. ASSUME NEW x, NEW y, IsLine(f, x, y), ~(x > n) PROVE x = 1 /\ y = e
  <2>1. x \in 1..Len(f) /\ y \in 1..Len(f) /\ x <= y /\ x <= n
    BY <1>1, <1>4 DEF IsLine
  <2>2. x = 1
    <3> SUFFICES ASSUME x # 1 PROVE FALSE
      OBVIOUS
    <3>1. x - 1 \in 1..Len(f) /\ x - 1 < n
      BY <1>1, <2>1
    <3> QED BY <1>4, <3>1 DEF IsLine, Splits
  <2>3. ~(y < e)
    <3> SUFFICES ASSUME y < e PROVE FALSE
      OBVIOUS
    <3>1. y + 1 \in 1..Len(f) /\ y + 1 <= e /\ y # Len(f)
      BY <1>2, <2>1
    <3> QED BY <1>3, <1>4, <3>1 DEF IsLine
  <2>4. ~(y > e)
    <3> SUFFICES ASSUME y > e PROVE FALSE
      OBVIOUS
    <3>1. f[n] = "newline" /\ n = e + 1
      BY <1>1, <1>2, <2>1
    <3>2. n \in 1..Len(f) /\ x <= n /\ n <= y
      BY <1>1, <2>1, <3>1
    <3> QED BY <1>4, <3>1, <3>2 DEF IsLine
  <2> QED BY <1>2, <2>1, <2>2, <2>3, <2>4
<1>5. e # 0 => IsLine(f, 1, e)
  <2> SUFFICES ASSUME e # 0 PROVE IsLine(f, 1, e)
    OBVIOUS
  <2>1. 1 \in 1..Len(f) /\ e \in 1..Len(f) /\ 1 <= e
    BY <1>1, <1>2
  <2>2. e = Len(f) \/ f[e + 1] = "newline"
    BY <1>2
  <2> QED BY <1>3, <2>1, <2>2 DEF IsLine
<1> QED BY <1>2, <1>4, <1>5

\* A line that Load takes as a whole, and whose name fits its field.
FitsLine(f, x, y) ==
  /\ y - x + 2 <= LineMax
  /\ \A k \in 1..Len(f) :
       /\ x <= k /\ k <= y /\ f[k] = "="
       /\ \A l \in 1..Len(f) : x <= l /\ l < k => f[l] # "="
       => k - x < NameMax

\* Fits says so of every line.
LEMMA FitsAre ==
  ASSUME NEW f \in Seq(Token)
  PROVE  Fits(f) <=> \A x, y : IsLine(f, x, y) => FitsLine(f, x, y)
<1> DEFINE First(x, k) == "=" \notin {f[l] : l \in x..(k - 1)}
           OfFits(x, y) == /\ y - x + 2 <= LineMax
                           /\ \A k \in x..y : f[k] = "=" /\ First(x, k) => k - x < NameMax
<1>1. ASSUME NEW x, NEW y, IsLine(f, x, y)
      PROVE  OfFits(x, y) <=> FitsLine(f, x, y)
  <2>1. x \in 1..Len(f) /\ y \in 1..Len(f)
    BY <1>1 DEF IsLine
  <2>2. \A k : k \in x..y <=> k \in 1..Len(f) /\ x <= k /\ k <= y
    BY <2>1
  <2>3. ASSUME NEW k \in 1..Len(f), x <= k
        PROVE  First(x, k) <=> \A l \in 1..Len(f) : x <= l /\ l < k => f[l] # "="
    <3>1. \A l : l \in x..(k - 1) <=> l \in 1..Len(f) /\ x <= l /\ l < k
      BY <2>1, <2>3
    <3> QED BY <3>1
  <2> HIDE DEF First
  <2> QED BY <2>2, <2>3 DEF FitsLine
<1>2. Fits(f) <=> \A line \in Lines(f) : OfFits(line[1], line[2])
  BY DEF Fits
<1> HIDE DEF OfFits
<1>3. ASSUME Fits(f), NEW x, NEW y, IsLine(f, x, y) PROVE FitsLine(f, x, y)
  <2>1. PICK line \in Lines(f) : line = <<x, y>>
    BY <1>3, LinesAre
  <2>2. OfFits(line[1], line[2]) /\ line[1] = x /\ line[2] = y
    BY <1>2, <1>3, <2>1
  <2> QED BY <1>1, <1>3, <2>2
<1>4. ASSUME \A x, y : IsLine(f, x, y) => FitsLine(f, x, y) PROVE Fits(f)
  <2>1. ASSUME NEW line \in Lines(f) PROVE OfFits(line[1], line[2])
    <3>1. PICK x, y : line = <<x, y>> /\ line[1] = x /\ line[2] = y
      BY LineIsPair
    <3>2. IsLine(f, x, y)
      BY <3>1, LinesAre
    <3> QED BY <1>1, <1>4, <3>1, <3>2
  <2> QED BY <1>2, <2>1
<1> QED BY <1>3, <1>4

\* A line that sets the name.
Sets(f, x, y, name) ==
  /\ f[x] \in {name, Shout[name]}
  /\ \E e \in 1..Len(f) :
       /\ x <= e /\ e <= y /\ f[e] = "="
       /\ \A k \in 1..Len(f) : x < k /\ k < e => f[k] = "space"

\* So it is with SetsName.
LEMMA SetsAre ==
  ASSUME NEW f \in Seq(Token), NEW x, NEW y, IsLine(f, x, y), NEW name
  PROVE  SetsName(f, <<x, y>>, name) <=> Sets(f, x, y, name)
<1>1. x \in 1..Len(f) /\ y \in 1..Len(f)
  BY DEF IsLine
<1>2. \A k : k \in x..y <=> k \in 1..Len(f) /\ x <= k /\ k <= y
  BY <1>1
<1>3. ASSUME NEW e \in 1..Len(f)
      PROVE  \A k : k \in (x + 1)..(e - 1) <=> k \in 1..Len(f) /\ x < k /\ k < e
  BY <1>1
<1>4. SetsName(f, <<x, y>>, name) <=>
        /\ f[x] \in {name, Shout[name]}
        /\ \E e \in x..y : f[e] = "=" /\ \A k \in (x + 1)..(e - 1) : f[k] = "space"
  BY DEF SetsName
<1> QED BY <1>2, <1>3, <1>4 DEF Sets

\* A line whose "=" is at e, whose value stands behind v.
MeansAt(f, x, y, value, e, v) ==
  /\ x <= e /\ e <= v /\ v <= y
  /\ f[e] = "=" /\ \A k \in 1..Len(f) : x <= k /\ k < e => f[k] # "="
  /\ \A k \in 1..Len(f) : e < k /\ k <= v => f[k] = "space"
  /\ v + Len(value) <= y
  /\ \A k \in 1..Len(value) : f[v + k] = value[k]
  /\ \A k \in 1..Len(f) : v + Len(value) < k /\ k <= y => f[k] \in {"space", "cr"}
  /\ value # <<>> => value[1] # "space" /\ value[Len(value)] \notin {"space", "cr"}

Means(f, x, y, value) == \E e \in 1..Len(f), v \in 1..Len(f) : MeansAt(f, x, y, value, e, v)

\* So it is with HasValue.
LEMMA MeansAre ==
  ASSUME NEW f \in Seq(Token), NEW x, NEW y, IsLine(f, x, y), NEW value \in Seq(Token)
  PROVE  HasValue(f, <<x, y>>, value) <=> Means(f, x, y, value)
<1> DEFINE L == Len(value)
           Of(e, v) ==
             /\ f[e] = "=" /\ \A k \in x..(e - 1) : f[k] # "="
             /\ e <= v /\ \A k \in (e + 1)..v : f[k] = "space"
             /\ v + L <= y /\ SubSeq(f, v + 1, v + L) = value
             /\ \A k \in (v + L + 1)..y : f[k] \in {"space", "cr"}
             /\ value # <<>> => value[1] # "space" /\ Last(value) \notin {"space", "cr"}
<1>1. x \in 1..Len(f) /\ y \in 1..Len(f) /\ L \in Nat /\ Len(f) \in Nat
  BY DEF IsLine
<1>2. HasValue(f, <<x, y>>, value) <=> \E e, v \in x..y : Of(e, v)
  BY DEF HasValue
<1>3. \A k : k \in x..y <=> k \in 1..Len(f) /\ x <= k /\ k <= y
  BY <1>1
<1>4. ASSUME NEW e \in x..y, NEW v \in x..y
      PROVE  Of(e, v) <=> MeansAt(f, x, y, value, e, v)
  <2>1. e \in 1..Len(f) /\ v \in 1..Len(f) /\ x <= e /\ v <= y
    BY <1>3
  <2>2. (\A k \in x..(e - 1) : f[k] # "=") <=>
          \A k \in 1..Len(f) : x <= k /\ k < e => f[k] # "="
    <3>1. \A k : k \in x..(e - 1) <=> k \in 1..Len(f) /\ x <= k /\ k < e
      BY <1>1, <2>1
    <3> QED BY <3>1
  <2>3. (\A k \in (e + 1)..v : f[k] = "space") <=>
          \A k \in 1..Len(f) : e < k /\ k <= v => f[k] = "space"
    <3>1. \A k : k \in (e + 1)..v <=> k \in 1..Len(f) /\ e < k /\ k <= v
      BY <1>1, <2>1
    <3> QED BY <3>1
  <2>4. (\A k \in (v + L + 1)..y : f[k] \in {"space", "cr"}) <=>
          \A k \in 1..Len(f) : v + L < k /\ k <= y => f[k] \in {"space", "cr"}
    <3>1. \A k : k \in (v + L + 1)..y <=> k \in 1..Len(f) /\ v + L < k /\ k <= y
      BY <1>1, <2>1
    <3> QED BY <3>1
  <2>5. ASSUME v + L <= y
        PROVE  SubSeq(f, v + 1, v + L) = value <=> \A k \in 1..L : f[v + k] = value[k]
    <3>1. PICK i \in Nat \ {0}, j \in 0..Len(f) : i = v + 1 /\ j = v + L
      <4> HIDE DEF L
      <4>1. v + 1 \in Nat \ {0}
        BY <1>1, <2>1
      <4>2. v + L \in 0..Len(f)
        BY <1>1, <2>1, <2>5
      <4> QED BY <4>1, <4>2
    <3>2. PICK s \in Seq(Token) : s = SubSeq(f, i, j)
      BY PartOfList
    <3>3. Len(s) = L
      <4>1. Len(SubSeq(f, i, j)) = IF i <= j THEN j - i + 1 ELSE 0
        BY PartOfList
      <4> QED BY <1>1, <2>1, <3>1, <3>2, <4>1
    <3>4. \A k \in 1..L : s[k] = f[v + k]
      <4>1. \A k \in 1..(j + 1 - i) : SubSeq(f, i, j)[k] = f[i + k - 1]
        OBVIOUS
      <4>2. \A k \in 1..L : k \in 1..(j + 1 - i) /\ i + k - 1 = v + k
        BY <1>1, <2>1, <3>1
      <4> QED BY <3>2, <4>1, <4>2
    <3>5. s = value <=> \A k \in 1..L : s[k] = value[k]
      <4>1. ASSUME \A k \in 1..L : s[k] = value[k] PROVE s = value
        BY <3>3, <4>1, SeqEqual
      <4> QED BY <4>1
    <3> HIDE DEF L
    <3> QED BY <3>1, <3>2, <3>4, <3>5
  <2>6. Last(value) = value[L]
    BY DEF Last
  <2> HIDE DEF L
  <2> QED BY <2>1, <2>2, <2>3, <2>4, <2>5, <2>6, Zenon DEF MeansAt, L
<1>5. ASSUME NEW e \in 1..Len(f), NEW v \in 1..Len(f), MeansAt(f, x, y, value, e, v)
      PROVE  e \in x..y /\ v \in x..y
  BY <1>1, <1>5 DEF MeansAt
<1> HIDE DEF Of
<1> QED BY <1>2, <1>3, <1>4, <1>5 DEF Means

\* What Fits says of a line behind the first, it says of it in the rest.
LEMMA FitsBehind ==
  ASSUME NEW f \in Seq(Token), NEW n, NEW r, Splits(f, n, r),
         NEW x \in Nat, NEW y \in Nat, IsLine(r, x, y), FitsLine(f, n + x, n + y)
  PROVE  FitsLine(r, x, y)
<1>1. n \in Nat /\ Len(f) \in Nat /\ Len(r) \in Nat /\ n + Len(r) = Len(f)
  BY DEF Splits
<1>2. \A k \in 1..Len(r) : n + k \in 1..Len(f) /\ r[k] = f[n + k]
  BY DEF Splits
<1>3. (n + y) - (n + x) + 2 <= LineMax /\ (n + y) - (n + x) + 2 = y - x + 2
  BY <1>1 DEF FitsLine
<1>4. ASSUME NEW k \in 1..Len(r), x <= k, k <= y, r[k] = "=",
             \A l \in 1..Len(r) : x <= l /\ l < k => r[l] # "="
      PROVE  k - x < NameMax
  <2>1. n + k \in 1..Len(f) /\ f[n + k] = "=" /\ n + x <= n + k /\ n + k <= n + y
    BY <1>1, <1>2, <1>4
  <2>2. ASSUME NEW l \in 1..Len(f), n + x <= l, l < n + k PROVE f[l] # "="
    <3>1. l - n \in 1..Len(r) /\ n + (l - n) = l /\ x <= l - n /\ l - n < k
      <4>1. x \in 1..Len(r)
        BY DEF IsLine
      <4> QED BY <1>1, <2>2, <4>1
    <3> QED BY <1>2, <1>4, <3>1
  <2>3. (n + k) - (n + x) < NameMax
    BY <2>1, <2>2 DEF FitsLine
  <2>4. (n + k) - (n + x) = k - x
    BY <1>1
  <2> QED BY <2>3, <2>4
<1> QED BY <1>3, <1>4 DEF FitsLine

\* A line behind the first sets in the rest what it sets in the file.
LEMMA SetsBehind ==
  ASSUME NEW f \in Seq(Token), NEW n, NEW r, Splits(f, n, r),
         NEW x \in Nat, NEW y \in Nat, IsLine(r, x, y), NEW name
  PROVE  Sets(r, x, y, name) <=> Sets(f, n + x, n + y, name)
<1>1. n \in Nat /\ Len(f) \in Nat /\ Len(r) \in Nat /\ n + Len(r) = Len(f)
      /\ x \in 1..Len(r) /\ y \in 1..Len(r)
  BY DEF Splits, IsLine
<1>2. \A k \in 1..Len(r) : n + k \in 1..Len(f) /\ r[k] = f[n + k]
  BY DEF Splits
<1>3. \A k \in 1..Len(f) : k > n => k - n \in 1..Len(r) /\ n + (k - n) = k
  BY <1>1
<1>4. r[x] = f[n + x]
  BY <1>1, <1>2
<1>5. ASSUME Sets(r, x, y, name) PROVE Sets(f, n + x, n + y, name)
  <2>1. PICK e \in 1..Len(r) : /\ x <= e /\ e <= y /\ r[e] = "="
                               /\ \A k \in 1..Len(r) : x < k /\ k < e => r[k] = "space"
    BY <1>5 DEF Sets
  <2>2. n + e \in 1..Len(f) /\ f[n + e] = "=" /\ n + x <= n + e /\ n + e <= n + y
    BY <1>1, <1>2, <2>1
  <2>3. ASSUME NEW k \in 1..Len(f), n + x < k, k < n + e PROVE f[k] = "space"
    <3>1. k > n /\ x < k - n /\ k - n < e
      BY <1>1, <2>3
    <3> QED BY <1>2, <1>3, <2>1, <3>1
  <2> QED BY <1>4, <1>5, <2>2, <2>3 DEF Sets
<1>6. ASSUME Sets(f, n + x, n + y, name) PROVE Sets(r, x, y, name)
  <2>1. PICK d \in 1..Len(f) : /\ n + x <= d /\ d <= n + y /\ f[d] = "="
                               /\ \A k \in 1..Len(f) : n + x < k /\ k < d => f[k] = "space"
    BY <1>6 DEF Sets
  <2>2. PICK e \in 1..Len(r) : d = n + e /\ x <= e /\ e <= y
    <3>1. d - n \in 1..Len(r) /\ d = n + (d - n) /\ x <= d - n /\ d - n <= y
      BY <1>1, <2>1
    <3> QED BY <3>1
  <2>3. ASSUME NEW k \in 1..Len(r), x < k, k < e PROVE r[k] = "space"
    <3>1. n + x < n + k /\ n + k < d
      BY <1>1, <2>2, <2>3
    <3> QED BY <1>2, <2>1, <3>1
  <2>4. r[e] = "="
    BY <1>2, <2>1, <2>2
  <2> QED BY <1>4, <1>6, <2>2, <2>3, <2>4 DEF Sets
<1> QED BY <1>5, <1>6

\* And it has the value in the file that it has in the rest.
LEMMA MeansBehind ==
  ASSUME NEW f \in Seq(Token), NEW n, NEW r, Splits(f, n, r),
         NEW x \in Nat, NEW y \in Nat, IsLine(r, x, y), NEW value \in Seq(Token),
         Means(r, x, y, value)
  PROVE  Means(f, n + x, n + y, value)
<1>1. n \in Nat /\ Len(f) \in Nat /\ Len(r) \in Nat /\ n + Len(r) = Len(f)
      /\ x \in 1..Len(r) /\ y \in 1..Len(r)
  BY DEF Splits, IsLine
<1>2. \A k \in 1..Len(r) : n + k \in 1..Len(f) /\ r[k] = f[n + k]
  BY DEF Splits
<1>3. \A k \in 1..Len(f) : k > n => k - n \in 1..Len(r) /\ n + (k - n) = k
  BY <1>1
<1>4. PICK e \in 1..Len(r), v \in 1..Len(r) : MeansAt(r, x, y, value, e, v)
  BY DEF Means
<1>5. PICK L \in Nat : L = Len(value)
  OBVIOUS
<1>e. \A k \in 1..Len(r) : x <= k /\ k < e => r[k] # "="
  BY <1>4 DEF MeansAt
<1>v. \A k \in 1..Len(r) : e < k /\ k <= v => r[k] = "space"
  BY <1>4 DEF MeansAt
<1>b. \A k \in 1..Len(r) : v + L < k /\ k <= y => r[k] \in {"space", "cr"}
  BY <1>4, <1>5 DEF MeansAt
<1>6. n + e \in 1..Len(f) /\ n + v \in 1..Len(f)
  BY <1>2
<1>7. /\ n + x <= n + e /\ n + e <= n + v /\ n + v <= n + y
      /\ f[n + e] = "=" /\ (n + v) + L <= n + y
  BY <1>1, <1>2, <1>4, <1>5 DEF MeansAt
<1>8. ASSUME NEW k \in 1..Len(f), n + x <= k, k < n + e PROVE f[k] # "="
  <2>1. k > n /\ x <= k - n /\ k - n < e
    BY <1>1, <1>8
  <2> QED BY <1>2, <1>3, <1>e, <2>1
<1>9. ASSUME NEW k \in 1..Len(f), n + e < k, k <= n + v PROVE f[k] = "space"
  <2>1. k > n /\ e < k - n /\ k - n <= v
    BY <1>1, <1>9
  <2> QED BY <1>2, <1>3, <1>v, <2>1
<1>10. ASSUME NEW k \in 1..L PROVE f[(n + v) + k] = value[k]
  <2>1. v + k \in 1..Len(r) /\ n + (v + k) = (n + v) + k
    BY <1>1, <1>4, <1>5 DEF MeansAt
  <2>2. r[v + k] = value[k]
    BY <1>4, <1>5 DEF MeansAt
  <2> QED BY <1>2, <2>1, <2>2
<1>11. ASSUME NEW k \in 1..Len(f), (n + v) + L < k, k <= n + y PROVE f[k] \in {"space", "cr"}
  <2>1. k > n /\ v + L < k - n /\ k - n <= y
    BY <1>1, <1>11
  <2> QED BY <1>2, <1>3, <1>b, <2>1
<1>12. MeansAt(f, n + x, n + y, value, n + e, n + v)
  BY <1>4, <1>5, <1>7, <1>8, <1>9, <1>10, <1>11 DEF MeansAt
<1> QED BY <1>6, <1>12 DEF Means

\* In a file whose lines fit fgets takes a line at a time.
LEMMA PieceSplits ==
  ASSUME NEW f \in Seq(Token), f # <<>>, Fits(f)
  PROVE  \E n \in 1..Len(f) : Piece(f) = SubSeq(f, 1, n) /\ Splits(f, n, Left(f))
<1>1. PICK n \in 1..Len(f) :
        /\ Piece(f) = SubSeq(f, 1, n) /\ Len(Piece(f)) = n
        /\ n <= LineMax
        /\ \A k \in 1..(n - 1) : f[k] # "newline"
        /\ n = LineMax \/ n = Len(f) \/ f[n] = "newline"
  BY PieceIs
<1>2. Len(f) \in Nat /\ n \in Nat
  OBVIOUS
<1>3. \A k \in 1..Len(f) : k < n => f[k] # "newline"
  BY <1>1
<1>4. n = Len(f) \/ f[n] = "newline"
  <2> SUFFICES ASSUME n # Len(f), f[n] # "newline", n = LineMax PROVE FALSE
    BY <1>1
  <2> DEFINE E == {e \in n..Len(f) : e = Len(f) \/ f[e + 1] = "newline"}
  <2>1. E \in SUBSET Nat /\ Len(f) \in E
    BY <1>2
  <2>2. PICK e \in E : \A d \in E : e <= d
    BY <2>1, LeastNumber
  <2>3. e \in n..Len(f) /\ (e = Len(f) \/ f[e + 1] = "newline")
    BY <2>2
  <2>4. ASSUME NEW k \in 1..Len(f), k <= e PROVE f[k] # "newline"
    <3>1. CASE k <= n
      BY <1>3, <3>1
    <3>2. CASE k > n
      <4>1. k - 1 \in n..Len(f) /\ (k - 1) + 1 = k /\ ~(e <= k - 1)
        BY <2>3, <2>4, <3>2
      <4>2. k - 1 \notin E
        BY <2>2, <4>1
      <4> HIDE DEF E
      <4>3. k - 1 \in E \/ f[k] # "newline"
        BY <4>1 DEF E
      <4> QED BY <4>2, <4>3
    <3> QED BY <3>1, <3>2
  <2> HIDE DEF E
  <2>5. IsLine(f, 1, e)
    BY <2>3, <2>4 DEF IsLine
  <2>6. FitsLine(f, 1, e)
    BY <2>5, FitsAre
  <2>7. e - 1 + 2 <= n
    BY <2>6 DEF FitsLine
  <2> QED BY <2>3, <2>7
<1>5. PICK r \in Seq(Token) : r = Left(f)
  BY LeftIsShorter
<1>6. n + Len(r) = Len(f) /\ \A k \in 1..Len(r) : n + k \in 1..Len(f) /\ r[k] = f[n + k]
  <2>1. r = SubSeq(f, n + 1, Len(f))
    BY <1>1, <1>5 DEF Left, From
  <2>2. PICK i \in Nat \ {0}, j \in 0..Len(f) : i = n + 1 /\ j = Len(f)
    BY <1>2
  <2>3. Len(SubSeq(f, i, j)) = IF i <= j THEN j - i + 1 ELSE 0
    BY PartOfList
  <2>4. n + Len(r) = Len(f)
    BY <1>2, <2>1, <2>2, <2>3
  <2>5. \A k \in 1..(j + 1 - i) : SubSeq(f, i, j)[k] = f[i + k - 1]
    OBVIOUS
  <2>6. \A k \in 1..Len(r) : k \in 1..(j + 1 - i) /\ i + k - 1 = n + k /\ n + k \in 1..Len(f)
    BY <1>2, <2>2, <2>4
  <2> QED BY <2>1, <2>2, <2>4, <2>5, <2>6
<1> QED BY <1>1, <1>3, <1>4, <1>5, <1>6 DEF Splits

\* strcasecmp finds a name that stands alone, with spaces behind it.
LEMMA NameAlone ==
  ASSUME NEW s \in Seq(Token), NEW name \in Names
  PROVE  strcasecmp(Rtrim(s), name) <=>
           /\ s # <<>> /\ s[1] \in {name, Shout[name]}
           /\ \A k \in 1..Len(s) : k > 1 => s[k] = "space"
<1>1. PICK m \in 0..Len(s) :
        /\ Rtrim(s) = SubSeq(s, 1, m)
        /\ m # 0 => s[m] # "space"
        /\ \A k \in 1..Len(s) : k > m => s[k] = "space"
  <2>1. PICK m \in 0..Len(s) :
        /\ Chop(s, {"space"}) = SubSeq(s, 1, m)
        /\ m # 0 => s[m] \notin {"space"}
        /\ \A k \in 1..Len(s) : k > m => s[k] \in {"space"}
    BY ChopFacts
  <2> QED BY <2>1 DEF Rtrim
<1>2. Len(s) \in Nat /\ 1 \in Nat \ {0}
  OBVIOUS
<1>3. PICK t \in Seq(Token) : t = SubSeq(s, 1, m)
  BY <1>2, PartOfList
<1>4. Len(t) = m
  <2>1. Len(SubSeq(s, 1, m)) = IF 1 <= m THEN m - 1 + 1 ELSE 0
    BY <1>2, PartOfList
  <2> QED BY <1>2, <1>3, <2>1
<1>5. m # 0 => t[1] = s[1]
  <2> SUFFICES ASSUME m # 0 PROVE t[1] = s[1]
    OBVIOUS
  <2>1. 1 + 1 - 1 <= m /\ 1 + 1 - 1 = 1
    BY <1>2
  <2>2. SubSeq(s, 1, m)[1] = s[1 + 1 - 1]
    BY <1>2, <2>1, PartsAre
  <2> QED BY <1>3, <2>1, <2>2
<1>6. "space" \notin {name, Shout[name]}
  <2>1. Shout[name] \in Range(Shout)
    BY NamesAssumption DEF Range
  <2> QED BY <2>1, WordsAssumption DEF Blanks
<1>7. strcasecmp(Rtrim(s), name) <=> m = 1 /\ s[1] \in {name, Shout[name]}
  <2>1. strcasecmp(t, name) <=> m = 1 /\ t[1] \in {name, Shout[name]}
    BY <1>4 DEF strcasecmp
  <2>2. Rtrim(s) = t
    BY <1>1, <1>3
  <2>3. strcasecmp(Rtrim(s), name) <=> strcasecmp(t, name)
    BY <2>2, Zenon
  <2>4. m = 1 => t[1] = s[1]
    BY <1>5
  <2> QED BY <2>1, <2>3, <2>4, Zenon
<1>8. ASSUME m = 1, s[1] \in {name, Shout[name]}
      PROVE  s # <<>> /\ \A k \in 1..Len(s) : k > 1 => s[k] = "space"
  BY <1>1, <1>8
<1>9. ASSUME s # <<>>, s[1] \in {name, Shout[name]},
             \A k \in 1..Len(s) : k > 1 => s[k] = "space"
      PROVE  m = 1
  <2>1. 1 \in 1..Len(s)
    BY <1>9
  <2>2. m # 0
    <3> SUFFICES ASSUME m = 0 PROVE FALSE
      OBVIOUS
    <3>1. s[1] = "space"
      BY <1>1, <2>1
    <3> QED BY <1>6, <1>9, <3>1
  <2>3. ~(m > 1)
    <3> SUFFICES ASSUME m > 1 PROVE FALSE
      OBVIOUS
    <3>1. m \in 1..Len(s)
      BY <2>2
    <3>2. s[m] = "space"
      BY <1>9, <3>1
    <3> QED BY <1>1, <2>2, <3>2
  <2> QED BY <2>2, <2>3
<1> QED BY <1>7, <1>8, <1>9, Zenon

\* What stands behind the place e in a text that does not end with a space.
LEMMA BehindPlace ==
  ASSUME NEW l \in Seq(Token), NEW e \in 1..Len(l), l[Len(l)] # "space"
  PROVE  \E v \in e..Len(l) :
           LET content == Ltrim(Rtrim(From(l, e + 1))) IN
           /\ content \in Seq(Token) /\ Len(content) = Len(l) - v
           /\ \A k \in 1..Len(content) : content[k] = l[v + k]
           /\ \A k \in 1..Len(l) : e < k /\ k <= v => l[k] = "space"
           /\ v < Len(l) => l[v + 1] # "space"
<1>1. PICK N \in Nat \ {0} : N = Len(l) /\ N \in 0..Len(l)
  OBVIOUS
<1>2. PICK i \in Nat \ {0} : i = e + 1
  OBVIOUS
<1>3. PICK a \in Seq(Token) : a = SubSeq(l, i, N)
  BY <1>1, PartOfList
<1>4. Len(a) = N - e /\ \A k \in 1..Len(a) : a[k] = l[e + k]
  <2>1. Len(SubSeq(l, i, N)) = IF i <= N THEN N - i + 1 ELSE 0
    BY <1>1, PartOfList
  <2>2. Len(a) = N - e
    BY <1>1, <1>2, <1>3, <2>1
  <2>3. \A k \in Nat \ {0} : i + k - 1 <= N => SubSeq(l, i, N)[k] = l[i + k - 1]
    BY <1>1, PartsAre
  <2>4. \A k \in 1..Len(a) : k \in Nat \ {0} /\ i + k - 1 <= N /\ i + k - 1 = e + k
    BY <1>1, <1>2, <2>2
  <2> QED BY <1>3, <2>2, <2>3, <2>4
<1>5. From(l, e + 1) = a
  BY <1>1, <1>2, <1>3 DEF From
<1>6. Rtrim(a) = a
  <2>1. PICK q \in 0..Len(a) : /\ Chop(a, {"space"}) = SubSeq(a, 1, q)
                               /\ \A k \in 1..Len(a) : k > q => a[k] \in {"space"}
    BY ChopFacts
  <2>2. q = Len(a)
    <3> SUFFICES ASSUME q < Len(a) PROVE FALSE
      BY <2>1
    <3>1. Len(a) \in 1..Len(a) /\ Len(a) > q
      BY <2>1
    <3>2. a[Len(a)] = "space" /\ a[Len(a)] = l[e + Len(a)]
      BY <1>4, <2>1, <3>1
    <3>3. e + Len(a) = N
      BY <1>1, <1>4
    <3> QED BY <1>1, <3>2, <3>3
  <2>3. SubSeq(a, 1, Len(a)) = a
    OBVIOUS
  <2> QED BY <2>1, <2>2, <2>3 DEF Rtrim
<1>7. PICK j \in 0..Len(a) : /\ Ltrim(a) = SubSeq(a, j + 1, Len(a))
                             /\ \A k \in 1..j : a[k] = "space"
                             /\ j < Len(a) => a[j + 1] # "space"
  BY LtrimFacts
<1>8. PICK p \in Nat \ {0}, M \in 0..Len(a) : p = j + 1 /\ M = Len(a)
  OBVIOUS
<1>9. PICK c \in Seq(Token) : c = SubSeq(a, p, M)
  BY PartOfList
<1>10. Len(c) = M - j /\ \A k \in 1..Len(c) : j + k \in 1..M /\ c[k] = a[j + k]
  <2>1. Len(SubSeq(a, p, M)) = IF p <= M THEN M - p + 1 ELSE 0
    BY PartOfList
  <2>2. Len(c) = M - j
    BY <1>7, <1>8, <1>9, <2>1
  <2>3. \A k \in Nat \ {0} : p + k - 1 <= M => SubSeq(a, p, M)[k] = a[p + k - 1]
    BY PartsAre
  <2>4. \A k \in 1..Len(c) :
          k \in Nat \ {0} /\ p + k - 1 <= M /\ p + k - 1 = j + k /\ j + k \in 1..M
    BY <1>8, <2>2
  <2> QED BY <1>9, <2>2, <2>3, <2>4
<1>11. Ltrim(Rtrim(From(l, e + 1))) = c
  BY <1>5, <1>6, <1>7, <1>8, <1>9
<1>12. PICK v \in e..Len(l) : v = e + j
  BY <1>1, <1>4, <1>8
<1>13. Len(c) = Len(l) - v
  BY <1>1, <1>4, <1>8, <1>10, <1>12
<1>14. ASSUME NEW k \in 1..Len(c) PROVE c[k] = l[v + k]
  <2>1. c[k] = a[j + k] /\ j + k \in 1..Len(a)
    BY <1>8, <1>10
  <2>2. a[j + k] = l[e + (j + k)] /\ e + (j + k) = v + k
    BY <1>4, <1>12, <2>1
  <2> QED BY <2>1, <2>2
<1>15. ASSUME NEW k \in 1..Len(l), e < k, k <= v PROVE l[k] = "space"
  <2>1. k - e \in 1..j /\ k - e \in 1..Len(a) /\ e + (k - e) = k
    BY <1>1, <1>4, <1>8, <1>12, <1>15
  <2> QED BY <1>4, <1>7, <2>1
<1>16. ASSUME v < Len(l) PROVE l[v + 1] # "space"
  <2>1. j < Len(a) /\ j + 1 \in 1..Len(a) /\ e + (j + 1) = v + 1
    BY <1>1, <1>4, <1>8, <1>12, <1>16
  <2> QED BY <1>4, <1>7, <2>1
<1> QED BY <1>11, <1>12, <1>13, <1>14, <1>15, <1>16

\* The setting that a line makes, which starts at its first token and ends with none to cut.
ItemFits(l, it, name, e, v) ==
  /\ it \in SettingItem
  /\ l[e] = "=" /\ \A k \in 1..Len(l) : k < e => l[k] # "="
  /\ e - 1 < NameMax =>
       (strcasecmp(it.ItemName, name) <=>
          /\ l[1] \in {name, Shout[name]}
          /\ \A k \in 1..Len(l) : 1 < k /\ k < e => l[k] = "space")
  /\ e <= v /\ Len(it.ItemContent) = Len(l) - v
  /\ \A k \in 1..Len(it.ItemContent) : it.ItemContent[k] = l[v + k]
  /\ \A k \in 1..Len(l) : e < k /\ k <= v => l[k] = "space"
  /\ v < Len(l) => l[v + 1] # "space"

\* No name is "=", or another character that Load looks at.
LEMMA NamesAreWords ==
  ASSUME NEW name \in Names, NEW word \in {name, Shout[name]}
  PROVE  word \notin {"=", ";", "#", "[", "space", "tab", "cr", "newline"}
<1>1. word \in Names \cup Range(Shout)
  BY NamesAssumption DEF Range
<1> QED BY <1>1, WordsAssumption DEF Blanks

\* What Load takes of a line as the name and as the value.
LEMMA ItemOfLine ==
  ASSUME NEW l \in Seq(Token), l # <<>>, l[Len(l)] # "space", Places(l, {"="}) # {},
         NEW name \in Names
  PROVE  \E e \in 1..Len(l), v \in 1..Len(l) : ItemFits(l, Item(l), name, e, v)
<1>1. PICK e \in 1..Len(l) : /\ e = Min(Places(l, {"="}))
                             /\ \A i \in Places(l, {"="}) : e <= i
                             /\ e \in Places(l, {"="})
  <2>1. PICK P : P = Places(l, {"="})
    OBVIOUS
  <2>2. P \in SUBSET (1..Len(l)) /\ P \in SUBSET Nat /\ P # {}
    BY <2>1 DEF Places
  <2>3. Min(P) \in P /\ \A i \in P : Min(P) <= i
    BY <2>2, MinAmong
  <2>4. PICK e \in 1..Len(l) : e = Min(P)
    BY <2>2, <2>3
  <2> QED BY <2>1, <2>3, <2>4
<1>2. l[e] = "=" /\ \A k \in 1..Len(l) : k < e => l[k] # "="
  <2>1. l[e] = "="
    BY <1>1 DEF Places
  <2>2. ASSUME NEW k \in 1..Len(l), k < e PROVE l[k] # "="
    <3>1. k \notin Places(l, {"="})
      BY <1>1, <2>2
    <3> QED BY <3>1 DEF Places
  <2> QED BY <2>1, <2>2
<1>3. PICK c : c = Ltrim(Rtrim(From(l, e + 1)))
  OBVIOUS
<1>4. PICK v \in e..Len(l) :
        /\ c \in Seq(Token) /\ Len(c) = Len(l) - v
        /\ \A k \in 1..Len(c) : c[k] = l[v + k]
        /\ \A k \in 1..Len(l) : e < k /\ k <= v => l[k] = "space"
        /\ v < Len(l) => l[v + 1] # "space"
  BY <1>3, BehindPlace
<1>5. PICK s \in Seq(Token) : s = SubSeq(l, 1, e - 1)
  <2>1. PICK n \in 0..Len(l) : n = e - 1
    OBVIOUS
  <2>2. 1 \in Nat \ {0}
    OBVIOUS
  <2>3. SubSeq(l, 1, n) \in Seq(Token)
    BY <2>2, PartOfList
  <2> QED BY <2>1, <2>3
<1>6. Len(s) = e - 1 /\ \A k \in 1..Len(s) : s[k] = l[k]
  <2>1. PICK n \in 0..Len(l) : n = e - 1
    OBVIOUS
  <2>2. 1 \in Nat \ {0}
    OBVIOUS
  <2>3. Len(SubSeq(l, 1, n)) = IF 1 <= n THEN n - 1 + 1 ELSE 0
    BY <2>2, PartOfList
  <2>4. \A k \in Nat \ {0} : 1 + k - 1 <= n => SubSeq(l, 1, n)[k] = l[1 + k - 1]
    BY <2>2, PartsAre
  <2>5. Len(s) = n
    BY <1>5, <2>1, <2>3
  <2>6. \A k \in 1..Len(s) : k \in Nat \ {0} /\ 1 + k - 1 <= n /\ 1 + k - 1 = k
    BY <2>5
  <2> QED BY <1>5, <2>1, <2>4, <2>5, <2>6
<1>7. Item(l) = [ItemName |-> Rtrim(ItemName(s, c)), ItemContent |-> c]
  BY <1>1, <1>3, <1>5 DEF Item
<1>8. Item(l) \in SettingItem
  BY ItemTyped
<1>9. ASSUME e - 1 < NameMax
      PROVE  strcasecmp(Item(l).ItemName, name) <=>
               /\ l[1] \in {name, Shout[name]}
               /\ \A k \in 1..Len(l) : 1 < k /\ k < e => l[k] = "space"
  <2>1. Item(l).ItemName = Rtrim(s)
    BY <1>6, <1>7, <1>9 DEF ItemName
  <2>2. strcasecmp(Rtrim(s), name) <=>
           /\ s # <<>> /\ s[1] \in {name, Shout[name]}
           /\ \A k \in 1..Len(s) : k > 1 => s[k] = "space"
    BY NameAlone
  <2>3. ASSUME e = 1 PROVE s = <<>> /\ l[1] \notin {name, Shout[name]}
    <3>1. s = <<>>
      BY <1>6, <2>3
    <3>2. l[1] = "="
      BY <1>2, <2>3
    <3> QED BY <3>1, <3>2, NamesAreWords
  <2>4. ASSUME e # 1
        PROVE  /\ s # <<>> /\ s[1] = l[1]
               /\ (\A k \in 1..Len(s) : k > 1 => s[k] = "space") <=>
                    \A k \in 1..Len(l) : 1 < k /\ k < e => l[k] = "space"
    <3>1. Len(s) # 0 /\ 1 \in 1..Len(s) /\ Len(s) \in Nat
      BY <1>6, <2>4
    <3>2. \A k : k \in 1..Len(s) <=> k \in 1..Len(l) /\ k < e
      BY <1>6
    <3>3. s # <<>>
      BY <3>1
    <3> QED BY <1>6, <3>1, <3>2, <3>3
  <2>5. strcasecmp(Item(l).ItemName, name) <=> strcasecmp(Rtrim(s), name)
    BY <2>1, Zenon
  <2> QED BY <2>2, <2>3, <2>4, <2>5, Zenon
<1>10. Item(l).ItemContent = c /\ v \in 1..Len(l) /\ e <= v
  BY <1>7
<1>11. ItemFits(l, Item(l), name, e, v)
  BY <1>2, <1>4, <1>8, <1>9, <1>10, Zenon DEF ItemFits
<1> QED BY <1>10, <1>11

\* Of the first line Load makes a setting for the name just when the line sets it, with the
\* value that the line has for it.
LEMMA FirstItem ==
  ASSUME NEW f \in Seq(Token), NEW n, NEW r, Splits(f, n, r), NEW name \in Names,
         End(f, n) # 0 => FitsLine(f, 1, End(f, n))
  PROVE  \/ /\ End(f, n) # 0 /\ Sets(f, 1, End(f, n), name)
            /\ \E it \in SettingItem : /\ Items(SubSeq(f, 1, n)) = <<it>>
                                       /\ strcasecmp(it.ItemName, name)
                                       /\ Means(f, 1, End(f, n), it.ItemContent)
         \/ /\ ~(End(f, n) # 0 /\ Sets(f, 1, End(f, n), name))
            /\ \/ Items(SubSeq(f, 1, n)) = <<>>
               \/ \E it \in SettingItem : /\ Items(SubSeq(f, 1, n)) = <<it>>
                                          /\ ~strcasecmp(it.ItemName, name)
<1> DEFINE B == {"newline", "cr", "space"}
           p == SubSeq(f, 1, n)
<1>1. n \in Nat \ {0} /\ n \in 1..Len(f) /\ Len(f) \in Nat
  BY DEF Splits
<1>2. PICK E \in 0..Len(f) : /\ E = End(f, n) /\ E <= n
                             /\ f[n] = "newline" => E = n - 1
                             /\ f[n] # "newline" => E = n
  BY <1>1 DEF End
<1>3. p \in Seq(Token) /\ Len(p) = n /\ \A k \in 1..n : p[k] = f[k]
  <2>1. n \in 0..Len(f) /\ 1 \in Nat \ {0}
    BY <1>1
  <2>2. Len(SubSeq(f, 1, n)) = IF 1 <= n THEN n - 1 + 1 ELSE 0
    BY <2>1, PartOfList
  <2>3. \A k \in Nat \ {0} : 1 + k - 1 <= n => SubSeq(f, 1, n)[k] = f[1 + k - 1]
    BY <2>1, PartsAre
  <2>4. \A k \in 1..n : k \in Nat \ {0} /\ 1 + k - 1 <= n /\ 1 + k - 1 = k
    BY <1>1
  <2>5. SubSeq(f, 1, n) \in Seq(Token)
    BY <2>1, PartOfList
  <2> QED BY <1>1, <2>2, <2>3, <2>4, <2>5
<1> HIDE DEF p
<1>4. PICK m \in 0..n : /\ Chop(p, B) = SubSeq(p, 1, m)
                        /\ m # 0 => p[m] \notin B
                        /\ \A k \in 1..n : k > m => p[k] \in B
  <2>1. PICK m \in 0..Len(p) : /\ Chop(p, B) = SubSeq(p, 1, m)
                               /\ m # 0 => p[m] \notin B
                               /\ \A k \in 1..Len(p) : k > m => p[k] \in B
    BY <1>3, ChopFacts
  <2> QED BY <1>3, <2>1
<1>5. PICK l \in Seq(Token) : l = SubSeq(p, 1, m)
  <2>1. m \in 0..Len(p) /\ 1 \in Nat \ {0}
    BY <1>3
  <2> QED BY <1>3, <2>1, PartOfList
<1>6. Len(l) = m /\ \A k \in 1..m : l[k] = f[k]
  <2>1. m \in 0..Len(p) /\ 1 \in Nat \ {0} /\ p \in Seq(Token)
    BY <1>3
  <2>2. Len(SubSeq(p, 1, m)) = IF 1 <= m THEN m - 1 + 1 ELSE 0
    BY <2>1, PartOfList
  <2>3. \A k \in Nat \ {0} : 1 + k - 1 <= m => SubSeq(p, 1, m)[k] = p[1 + k - 1]
    BY <2>1, PartsAre
  <2>4. \A k \in 1..m : k \in Nat \ {0} /\ 1 + k - 1 <= m /\ 1 + k - 1 = k /\ k \in 1..n
    BY <1>1
  <2>5. Len(l) = m
    BY <1>1, <1>5, <2>2
  <2> QED BY <1>3, <1>5, <2>3, <2>4, <2>5
<1>7. /\ m <= E
      /\ m # 0 => f[m] \notin B
      /\ \A k \in 1..Len(f) : m < k /\ k <= E => f[k] \in {"space", "cr"}
  <2>1. m # 0 => f[m] \notin B
    BY <1>3, <1>4
  <2>2. m <= E
    BY <1>1, <1>2, <2>1
  <2>3. ASSUME NEW k \in 1..Len(f), m < k, k <= E PROVE f[k] \in {"space", "cr"}
    <3>1. k \in 1..n /\ f[k] \in B
      BY <1>1, <1>2, <1>3, <1>4, <2>3
    <3>2. f[k] # "newline"
      BY <1>1, <1>2, <2>3 DEF Splits
    <3> QED BY <3>1, <3>2
  <2> QED BY <2>1, <2>2, <2>3
<1>8. Items(p) = IF \/ f[1] \in {";", "space", "#", "tab", "newline"}
                    \/ m = 0 \/ f[1] = "[" \/ Places(l, {"="}) = {}
                 THEN <<>> ELSE <<Item(l)>>
  <2>1. p[1] = f[1] /\ (m # 0 => l[1] = f[1]) /\ (l = <<>> <=> m = 0)
    BY <1>1, <1>3, <1>6
  <2>2. l = Chop(p, {"newline", "cr", "space"})
    BY <1>4, <1>5
  <2>3. Items(p) = IF \/ p[1] \in {";", "space", "#", "tab", "newline"}
                      \/ l = <<>> \/ l[1] = "[" \/ Places(l, {"="}) = {}
                   THEN <<>> ELSE <<Item(l)>>
    BY <2>2, Zenon DEF Items
  <2> QED BY <2>1, <2>3
<1>9. ASSUME m # 0, Places(l, {"="}) # {}
      PROVE  \E e \in 1..m, v \in 1..m : ItemFits(l, Item(l), name, e, v)
  <2>1. l # <<>> /\ l[Len(l)] # "space"
    BY <1>6, <1>7, <1>9
  <2> QED BY <1>6, <1>9, <2>1, ItemOfLine
<1>10. ASSUME NEW e \in 1..m, NEW v \in 1..m, ItemFits(l, Item(l), name, e, v)
       PROVE  /\ E # 0 /\ f[e] = "=" /\ \A k \in 1..Len(f) : k < e => f[k] # "="
              /\ strcasecmp(Item(l).ItemName, name) <=>
                   /\ f[1] \in {name, Shout[name]}
                   /\ \A k \in 1..Len(f) : 1 < k /\ k < e => f[k] = "space"
              /\ Item(l) \in SettingItem
              /\ Means(f, 1, E, Item(l).ItemContent)
  <2>1. E # 0 /\ e \in 1..Len(f) /\ v \in 1..Len(f) /\ e <= E /\ v <= E /\ m # 0
    BY <1>2, <1>7
  <2>2. l[e] = "=" /\ f[e] = "="
    BY <1>6, <1>10 DEF ItemFits
  <2>3. ASSUME NEW k \in 1..Len(f), k < e PROVE f[k] # "="
    <3>1. k \in 1..m
      BY <2>3
    <3>2. l[k] # "="
      BY <1>6, <1>10, <2>3, <3>1 DEF ItemFits
    <3> QED BY <1>6, <3>1, <3>2
  <2>4. e - 1 < NameMax
    <3>1. FitsLine(f, 1, E)
      BY <1>2, <2>1
    <3>2. 1 <= e
      OBVIOUS
    <3> QED BY <2>1, <2>2, <2>3, <3>1, <3>2 DEF FitsLine
  <2>5. strcasecmp(Item(l).ItemName, name) <=>
          /\ l[1] \in {name, Shout[name]}
          /\ \A k \in 1..Len(l) : 1 < k /\ k < e => l[k] = "space"
    BY <1>10, <2>4, Zenon DEF ItemFits
  <2>6. l[1] = f[1]
    BY <1>6, <2>1
  <2>7. (\A k \in 1..Len(l) : 1 < k /\ k < e => l[k] = "space") <=>
          \A k \in 1..Len(f) : 1 < k /\ k < e => f[k] = "space"
    <3>1. \A k : k \in 1..Len(l) /\ k < e <=> k \in 1..Len(f) /\ k < e
      BY <1>1, <1>6, <2>1
    <3>2. \A k \in 1..Len(l) : l[k] = f[k]
      BY <1>6
    <3> QED BY <3>1, <3>2
  <2>8. PICK it \in SettingItem : it = Item(l)
    BY <1>10 DEF ItemFits
  <2>9. PICK c \in Seq(Token) : c = it.ItemContent
    BY DEF SettingItem
  <2>10. /\ e <= v /\ Len(c) = m - v /\ Len(c) \in Nat
         /\ \A k \in 1..Len(c) : v + k \in 1..m /\ c[k] = l[v + k]
         /\ \A k \in 1..m : e < k /\ k <= v => l[k] = "space"
         /\ v < m => l[v + 1] # "space"
    <3>1. /\ e <= v /\ Len(c) = m - v
          /\ \A k \in 1..Len(c) : c[k] = l[v + k]
          /\ \A k \in 1..m : e < k /\ k <= v => l[k] = "space"
          /\ v < m => l[v + 1] # "space"
      BY <1>6, <1>10, <2>8, <2>9, Zenon DEF ItemFits
    <3> QED BY <3>1
  <2>11. v + Len(c) = m
    BY <2>10
  <2>12. ASSUME NEW k \in 1..Len(c) PROVE f[v + k] = c[k]
    BY <1>6, <2>10
  <2>13. ASSUME NEW k \in 1..Len(f), e < k, k <= v PROVE f[k] = "space"
    <3>1. k \in 1..m
      BY <2>13
    <3> QED BY <1>6, <2>10, <2>13, <3>1
  <2>14. ASSUME c # <<>> PROVE c[1] # "space" /\ c[Len(c)] \notin {"space", "cr"}
    <3>1. 1 \in 1..Len(c) /\ Len(c) \in 1..Len(c) /\ v < m
      BY <2>10, <2>14
    <3>2. c[1] # "space"
      BY <2>10, <3>1
    <3>3. c[Len(c)] = f[m]
      <4>1. c[Len(c)] = l[v + Len(c)]
        BY <2>10, <3>1
      <4>2. m \in 1..m
        BY <2>1
      <4> QED BY <1>6, <2>11, <4>1, <4>2
    <3> QED BY <1>7, <2>1, <3>2, <3>3
  <2>15. MeansAt(f, 1, E, c, e, v)
    <3>1. 1 <= e /\ e <= v /\ v <= E /\ v + Len(c) <= E
      BY <1>7, <2>1, <2>10, <2>11
    <3>2. \A k \in 1..Len(f) : v + Len(c) < k /\ k <= E => f[k] \in {"space", "cr"}
      BY <1>7, <2>11
    <3> QED BY <2>2, <2>3, <2>12, <2>13, <2>14, <3>1, <3>2 DEF MeansAt
  <2>16. Means(f, 1, E, Item(l).ItemContent)
    BY <2>1, <2>8, <2>9, <2>15 DEF Means
  <2> QED BY <2>1, <2>2, <2>3, <2>5, <2>6, <2>7, <2>8, <2>16, Zenon
<1>11. CASE E # 0 /\ Sets(f, 1, E, name)
  <2>1. PICK d \in 1..Len(f) : /\ 1 <= d /\ d <= E /\ f[d] = "="
                               /\ \A k \in 1..Len(f) : 1 < k /\ k < d => f[k] = "space"
    BY <1>11 DEF Sets
  <2>2. f[1] \in {name, Shout[name]}
    BY <1>11 DEF Sets
  <2>3. f[1] \notin {"=", ";", "#", "[", "space", "tab", "cr", "newline"}
    BY <2>2, NamesAreWords
  <2>4. d <= m
    <3> SUFFICES ASSUME m < d PROVE FALSE
      OBVIOUS
    <3> QED BY <1>7, <2>1
  <2>5. m # 0 /\ d \in 1..m
    BY <2>4
  <2>6. d \in Places(l, {"="})
    BY <1>6, <2>1, <2>5 DEF Places
  <2>7. PICK e \in 1..m, v \in 1..m : ItemFits(l, Item(l), name, e, v)
    BY <1>9, <2>5, <2>6
  <2>8. e <= d
    <3>1. \A k \in 1..Len(f) : k < e => f[k] # "="
      BY <1>10, <2>7, Zenon
    <3> QED BY <2>1, <3>1
  <2>9. \A k \in 1..Len(f) : 1 < k /\ k < e => f[k] = "space"
    BY <2>1, <2>8
  <2>10. /\ strcasecmp(Item(l).ItemName, name) /\ Item(l) \in SettingItem
         /\ Means(f, 1, E, Item(l).ItemContent)
    BY <1>10, <2>2, <2>7, <2>9, Zenon
  <2>11. Items(p) = <<Item(l)>>
    BY <1>8, <2>3, <2>5, <2>6
  <2> QED BY <1>2, <1>11, <2>10, <2>11 DEF p
<1>12. CASE ~(E # 0 /\ Sets(f, 1, E, name))
  <2>1. CASE Items(p) = <<>>
    BY <1>2, <1>12, <2>1 DEF p
  <2>2. CASE Items(p) # <<>>
    <3>1. m # 0 /\ Places(l, {"="}) # {} /\ Items(p) = <<Item(l)>>
      BY <1>8, <2>2
    <3>2. PICK e \in 1..m, v \in 1..m : ItemFits(l, Item(l), name, e, v)
      BY <1>9, <3>1
    <3>3. ~strcasecmp(Item(l).ItemName, name)
      <4> SUFFICES ASSUME strcasecmp(Item(l).ItemName, name) PROVE FALSE
        OBVIOUS
      <4>1. /\ E # 0 /\ f[e] = "=" /\ f[1] \in {name, Shout[name]}
            /\ \A k \in 1..Len(f) : 1 < k /\ k < e => f[k] = "space"
        BY <1>10, <3>2, Zenon
      <4>2. e \in 1..Len(f) /\ 1 <= e /\ e <= E
        BY <1>2, <1>7
      <4>3. Sets(f, 1, E, name)
        BY <4>1, <4>2 DEF Sets
      <4> QED BY <1>12, <4>1, <4>3
    <3>4. Item(l) \in SettingItem
      BY <1>10, <3>2, Zenon
    <3> QED BY <1>2, <1>12, <3>1, <3>3, <3>4 DEF p
  <2> QED BY <2>1, <2>2
<1> QED BY <1>11, <1>12

\* What conf should have for the name, of the lines by their places.
FirstSetter(f, x, y, name) ==
  /\ IsLine(f, x, y) /\ Sets(f, x, y, name)
  /\ \A a, b : IsLine(f, a, b) /\ Sets(f, a, b, name) => x <= a

AsRead(conf, f, name) ==
  \/ Found(conf, name) = {} /\ \A x, y : IsLine(f, x, y) => ~Sets(f, x, y, name)
  \/ /\ Found(conf, name) # {}
     /\ \E x, y : /\ FirstSetter(f, x, y, name)
                  /\ Means(f, x, y, conf[Min(Found(conf, name))].ItemContent)

\* What is found is a setting, and there is none before it.
LEMMA FoundIs ==
  ASSUME NEW conf \in Seq(SettingItem), NEW name, Found(conf, name) # {}
  PROVE  /\ Min(Found(conf, name)) \in Found(conf, name)
         /\ Min(Found(conf, name)) \in 1..Len(conf)
         /\ \A i \in Found(conf, name) : Min(Found(conf, name)) <= i
         /\ conf[Min(Found(conf, name))].ItemContent \in Seq(Token)
<1>1. PICK T : T = Found(conf, name)
  OBVIOUS
<1>2. T \in SUBSET (1..Len(conf)) /\ T \in SUBSET Nat /\ T # {}
  BY <1>1 DEF Found
<1>3. Min(T) \in T /\ \A i \in T : Min(T) <= i
  BY <1>2, MinAmong
<1>4. PICK j \in 1..Len(conf) : j = Min(T)
  BY <1>2, <1>3
<1>5. conf[j] \in SettingItem
  OBVIOUS
<1>6. conf[j].ItemContent \in Seq(Token)
  BY <1>5 DEF SettingItem
<1> QED BY <1>1, <1>3, <1>4, <1>6

\* AsWritten says the same.
LEMMA WrittenIsRead ==
  ASSUME NEW f \in Seq(Token), NEW conf \in Seq(SettingItem), NEW name
  PROVE  AsWritten(conf, f, name) <=> AsRead(conf, f, name)
<1>1. ASSUME NEW x, NEW y
      PROVE  <<x, y>> \in Setters(f, name) <=> IsLine(f, x, y) /\ Sets(f, x, y, name)
  <2>1. <<x, y>> \in Setters(f, name) <=>
          <<x, y>> \in Lines(f) /\ SetsName(f, <<x, y>>, name)
    BY DEF Setters
  <2> QED BY <2>1, LinesAre, SetsAre
<1>2. \A line \in Setters(f, name) : line = <<line[1], line[2]>>
  BY LineIsPair DEF Setters
<1>3. Setters(f, name) = {} <=> \A x, y : IsLine(f, x, y) => ~Sets(f, x, y, name)
  <2>1. ASSUME NEW line \in Setters(f, name)
        PROVE  \E x, y : IsLine(f, x, y) /\ Sets(f, x, y, name)
    BY <1>1, <1>2
  <2> QED BY <1>1, <2>1
<1>4. CASE Setters(f, name) = {}
  <2>1. AsWritten(conf, f, name) <=> Found(conf, name) = {}
    BY <1>4 DEF AsWritten
  <2>2. \A x, y : ~FirstSetter(f, x, y, name)
    BY <1>3, <1>4 DEF FirstSetter
  <2> QED BY <1>3, <1>4, <2>1, <2>2 DEF AsRead
<1>5. CASE Setters(f, name) # {} /\ Found(conf, name) = {}
  BY <1>3, <1>5 DEF AsRead, AsWritten
<1>6. CASE Setters(f, name) # {} /\ Found(conf, name) # {}
  <2>1. PICK value \in Seq(Token) : value = conf[Min(Found(conf, name))].ItemContent
    BY <1>6, FoundIs
  <2>2. AsWritten(conf, f, name) <=>
          \E line \in Setters(f, name) :
            /\ \A other \in Setters(f, name) : line[1] <= other[1]
            /\ HasValue(f, line, value)
    BY <1>6, <2>1, Zenon DEF AsWritten
  <2>3. AsRead(conf, f, name) <=>
          \E x, y : FirstSetter(f, x, y, name) /\ Means(f, x, y, value)
    BY <1>6, <2>1, Zenon DEF AsRead
  <2>4. ASSUME NEW x, NEW y, FirstSetter(f, x, y, name), Means(f, x, y, value)
        PROVE  AsWritten(conf, f, name)
    <3>1. PICK line \in Setters(f, name) : line = <<x, y>>
      BY <1>1, <2>4 DEF FirstSetter
    <3>2. line[1] = x /\ line[2] = y
      BY <3>1
    <3>3. ASSUME NEW other \in Setters(f, name) PROVE line[1] <= other[1]
      <4>1. PICK a, b : other = <<a, b>> /\ other[1] = a
        BY <1>2
      <4>2. IsLine(f, a, b) /\ Sets(f, a, b, name)
        BY <1>1, <4>1
      <4> QED BY <2>4, <3>2, <4>1, <4>2 DEF FirstSetter
    <3>4. HasValue(f, line, value)
      <4>1. HasValue(f, <<x, y>>, value)
        BY <2>4, MeansAre DEF FirstSetter
      <4> QED BY <3>1, <4>1
    <3> QED BY <2>2, <3>3, <3>4
  <2>5. ASSUME NEW line \in Setters(f, name),
               \A other \in Setters(f, name) : line[1] <= other[1],
               HasValue(f, line, value)
        PROVE  AsRead(conf, f, name)
    <3>1. PICK x, y : line = <<x, y>> /\ line[1] = x
      BY <1>2
    <3>2. IsLine(f, x, y) /\ Sets(f, x, y, name)
      BY <1>1, <3>1
    <3>3. ASSUME NEW a, NEW b, IsLine(f, a, b), Sets(f, a, b, name) PROVE x <= a
      <4>1. PICK other \in Setters(f, name) : other = <<a, b>>
        BY <1>1, <3>3
      <4>2. other[1] = a
        BY <4>1
      <4> QED BY <2>5, <3>1, <4>2
    <3>4. HasValue(f, <<x, y>>, value)
      BY <2>5, <3>1
    <3>5. Means(f, x, y, value)
      BY <3>2, <3>4, MeansAre
    <3> QED BY <2>3, <3>2, <3>3, <3>5 DEF FirstSetter
  <2> QED BY <2>2, <2>4, <2>3, <2>5
<1> QED BY <1>4, <1>5, <1>6

\* A list with one more setting in front.
InFront(it, rest) == <<it>> \o rest

\* A setting in front for the name is found; one for another name moves the others on.
LEMMA FoundInFront ==
  ASSUME NEW it \in SettingItem, NEW rest \in Seq(SettingItem), NEW name,
         NEW conf, conf = InFront(it, rest)
  PROVE  /\ conf \in Seq(SettingItem)
         /\ strcasecmp(it.ItemName, name) =>
              Found(conf, name) # {} /\ conf[Min(Found(conf, name))] = it
         /\ ~strcasecmp(it.ItemName, name) =>
              /\ Found(conf, name) = {} <=> Found(rest, name) = {}
              /\ Found(rest, name) # {} =>
                   conf[Min(Found(conf, name))] = rest[Min(Found(rest, name))]
<1>1. PICK one \in Seq(SettingItem) : one = <<it>> /\ Len(one) = 1 /\ one[1] = it
  <2>1. <<it>> \in Seq(SettingItem)
    OBVIOUS
  <2>2. Len(<<it>>) = 1 /\ <<it>>[1] = it
    OBVIOUS
  <2> QED BY <2>1, <2>2
<1>2. /\ conf \in Seq(SettingItem) /\ Len(conf) = 1 + Len(rest) /\ Len(rest) \in Nat
      /\ \A i \in 1..(1 + Len(rest)) : conf[i] = IF i <= 1 THEN one[i] ELSE rest[i - 1]
  <2>1. /\ one \o rest \in Seq(SettingItem) /\ Len(one \o rest) = Len(one) + Len(rest)
        /\ \A i \in 1..(Len(one) + Len(rest)) :
             (one \o rest)[i] = IF i <= Len(one) THEN one[i] ELSE rest[i - Len(one)]
    BY ConcatProperties
  <2>2. conf = one \o rest
    BY <1>1 DEF InFront
  <2> QED BY <1>1, <2>1, <2>2
<1>3. conf[1] = it /\ 1 \in 1..Len(conf)
  BY <1>1, <1>2
<1>4. \A i \in 1..Len(rest) : i + 1 \in 1..Len(conf) /\ conf[i + 1] = rest[i]
  BY <1>2
<1>5. \A i \in 1..Len(conf) : i = 1 \/ (i - 1 \in 1..Len(rest) /\ conf[i] = rest[i - 1])
  BY <1>2
<1>6. ASSUME strcasecmp(it.ItemName, name)
      PROVE  Found(conf, name) # {} /\ conf[Min(Found(conf, name))] = it
  <2>1. 1 \in Found(conf, name)
    BY <1>3, <1>6 DEF Found
  <2>2. PICK m \in 1..Len(conf) : m = Min(Found(conf, name)) /\ m <= 1
    BY <1>2, <2>1, FoundIs
  <2>3. m = 1
    BY <2>2
  <2> QED BY <1>3, <2>1, <2>2, <2>3
<1>7. ASSUME ~strcasecmp(it.ItemName, name)
      PROVE  /\ \A i \in Found(rest, name) : i + 1 \in Found(conf, name)
             /\ \A i \in Found(conf, name) : i # 1 /\ i - 1 \in Found(rest, name)
  <2>1. ASSUME NEW i \in Found(rest, name) PROVE i + 1 \in Found(conf, name)
    BY <1>4 DEF Found
  <2>2. ASSUME NEW i \in Found(conf, name) PROVE i # 1 /\ i - 1 \in Found(rest, name)
    <3>1. i \in 1..Len(conf) /\ strcasecmp(conf[i].ItemName, name)
      BY DEF Found
    <3>2. i # 1
      BY <1>3, <1>7, <3>1
    <3>3. i - 1 \in 1..Len(rest) /\ strcasecmp(rest[i - 1].ItemName, name)
      BY <1>5, <3>1, <3>2
    <3> QED BY <3>2, <3>3 DEF Found
  <2> QED BY <2>1, <2>2
<1>8. ASSUME ~strcasecmp(it.ItemName, name), Found(rest, name) # {}
      PROVE  conf[Min(Found(conf, name))] = rest[Min(Found(rest, name))]
  <2>1. Found(conf, name) # {}
    BY <1>7, <1>8
  <2>2. PICK a \in 1..Len(conf) : /\ a = Min(Found(conf, name)) /\ a \in Found(conf, name)
                                  /\ \A i \in Found(conf, name) : a <= i
    BY <1>2, <2>1, FoundIs
  <2>3. PICK b \in 1..Len(rest) : /\ b = Min(Found(rest, name)) /\ b \in Found(rest, name)
                                  /\ \A i \in Found(rest, name) : b <= i
    BY <1>8, FoundIs
  <2>4. a <= b + 1 /\ b <= a - 1
    BY <1>7, <1>8, <2>2, <2>3
  <2>5. a = b + 1
    BY <2>4
  <2> QED BY <1>4, <2>2, <2>3, <2>5
<1>9. ASSUME ~strcasecmp(it.ItemName, name)
      PROVE  Found(conf, name) = {} <=> Found(rest, name) = {}
  BY <1>7, <1>9
<1> QED BY <1>2, <1>6, <1>8, <1>9

\* A list of settings that starts with what the first n tokens make.
StartsWith(conf, f, n, rest) == conf = Items(SubSeq(f, 1, n)) \o rest

\* What is right for the rest of the file, is right for the file with one more line in front.
LEMMA OneMoreLine ==
  ASSUME NEW f \in Seq(Token), NEW n, NEW r, Splits(f, n, r), NEW name \in Names,
         End(f, n) # 0 => FitsLine(f, 1, End(f, n)),
         NEW rest \in Seq(SettingItem), AsRead(rest, r, name),
         NEW conf, StartsWith(conf, f, n, rest)
  PROVE  AsRead(conf, f, name)
<1>1. n \in Nat \ {0} /\ Len(f) \in Nat /\ Len(r) \in Nat /\ n + Len(r) = Len(f)
  BY DEF Splits
<1>2. PICK E \in 0..Len(f) : E = End(f, n)
  BY FirstLine
<1>3. E # 0 => IsLine(f, 1, E)
  BY <1>2, FirstLine
<1>4. ASSUME NEW x, NEW y, IsLine(f, x, y)
      PROVE  \/ x = 1 /\ y = E /\ E # 0
             \/ \E a \in Nat, b \in Nat : x = n + a /\ y = n + b /\ IsLine(r, a, b)
  <2>0. x \in 1..Len(f) /\ y \in 1..Len(f) /\ x <= y
    BY <1>4 DEF IsLine
  <2>1. CASE ~(x > n)
    <3>1. x = 1 /\ y = E
      BY <1>2, <1>4, <2>1, FirstLine
    <3> QED BY <2>0, <3>1
  <2>2. CASE x > n
    <3>1. PICK a \in Nat, b \in Nat : a # 0 /\ x = n + a /\ y = n + b
      <4>1. x - n \in Nat /\ y - n \in Nat /\ x - n # 0 /\ x = n + (x - n) /\ y = n + (y - n)
        BY <1>1, <2>0, <2>2
      <4> QED BY <4>1
    <3>2. IsLine(f, n + a, n + b)
      BY <1>4, <3>1
    <3>3. IsLine(r, a, b)
      BY <3>1, <3>2, LinesBehind
    <3> QED BY <3>1, <3>3
  <2> QED BY <2>1, <2>2
<1>5. CASE /\ E # 0 /\ Sets(f, 1, E, name)
           /\ \E it \in SettingItem : /\ Items(SubSeq(f, 1, n)) = <<it>>
                                      /\ strcasecmp(it.ItemName, name)
                                      /\ Means(f, 1, E, it.ItemContent)
  <2>1. PICK it \in SettingItem : /\ Items(SubSeq(f, 1, n)) = <<it>>
                                  /\ strcasecmp(it.ItemName, name)
                                  /\ Means(f, 1, E, it.ItemContent)
    BY <1>5
  <2>2. conf = InFront(it, rest)
    BY <2>1 DEF InFront, StartsWith
  <2>3. Found(conf, name) # {} /\ conf[Min(Found(conf, name))] = it
    BY <2>1, <2>2, FoundInFront
  <2>4. FirstSetter(f, 1, E, name)
    <3>1. ASSUME NEW a, NEW b, IsLine(f, a, b) PROVE 1 <= a
      BY <3>1 DEF IsLine
    <3> QED BY <1>3, <1>5, <3>1 DEF FirstSetter
  <2>5. Means(f, 1, E, conf[Min(Found(conf, name))].ItemContent)
    BY <2>1, <2>3
  <2> QED BY <2>3, <2>4, <2>5 DEF AsRead
<1>6. CASE /\ ~(E # 0 /\ Sets(f, 1, E, name))
           /\ \/ Items(SubSeq(f, 1, n)) = <<>>
              \/ \E it \in SettingItem : /\ Items(SubSeq(f, 1, n)) = <<it>>
                                         /\ ~strcasecmp(it.ItemName, name)
  <2>1. /\ Found(conf, name) = {} <=> Found(rest, name) = {}
        /\ Found(rest, name) # {} =>
             conf[Min(Found(conf, name))] = rest[Min(Found(rest, name))]
    <3>1. CASE Items(SubSeq(f, 1, n)) = <<>>
      <4>1. <<>> \o rest = rest
        BY ConcatEmptySeq
      <4>2. conf = rest
        BY <3>1, <4>1 DEF StartsWith
      <4> QED BY <4>2
    <3>2. CASE \E it \in SettingItem : /\ Items(SubSeq(f, 1, n)) = <<it>>
                                       /\ ~strcasecmp(it.ItemName, name)
      <4>1. PICK it \in SettingItem : /\ Items(SubSeq(f, 1, n)) = <<it>>
                                      /\ ~strcasecmp(it.ItemName, name)
        BY <3>2
      <4>2. conf = InFront(it, rest)
        BY <4>1 DEF InFront, StartsWith
      <4>3. ~strcasecmp(it.ItemName, name)
        BY <4>1
      <4>4. Found(conf, name) = {} <=> Found(rest, name) = {}
        BY <4>2, <4>3, FoundInFront
      <4>5. Found(rest, name) # {} =>
              conf[Min(Found(conf, name))] = rest[Min(Found(rest, name))]
        BY <4>2, <4>3, FoundInFront
      <4> QED BY <4>4, <4>5
    <3> QED BY <1>6, <3>1, <3>2
  <2>2. ASSUME NEW x, NEW y, IsLine(f, x, y), Sets(f, x, y, name)
        PROVE  \E a \in Nat, b \in Nat : /\ x = n + a /\ y = n + b
                                         /\ IsLine(r, a, b) /\ Sets(r, a, b, name)
    <3>1. PICK a \in Nat, b \in Nat : x = n + a /\ y = n + b /\ IsLine(r, a, b)
      BY <1>4, <1>6, <2>2
    <3>2. Sets(f, n + a, n + b, name)
      BY <2>2, <3>1
    <3>3. Sets(r, a, b, name)
      BY <3>1, <3>2, SetsBehind
    <3> QED BY <3>1, <3>3
  <2>3. CASE Found(rest, name) = {} /\ \A x, y : IsLine(r, x, y) => ~Sets(r, x, y, name)
    <3>1. Found(conf, name) = {}
      BY <2>1, <2>3
    <3>2. \A x, y : IsLine(f, x, y) => ~Sets(f, x, y, name)
      BY <2>2, <2>3
    <3> QED BY <3>1, <3>2 DEF AsRead
  <2>4. CASE /\ Found(rest, name) # {}
             /\ \E x, y : /\ FirstSetter(r, x, y, name)
                          /\ Means(r, x, y, rest[Min(Found(rest, name))].ItemContent)
    <3>1. PICK value \in Seq(Token) : value = rest[Min(Found(rest, name))].ItemContent
      BY <2>4, FoundIs
    <3>2. PICK c, d : FirstSetter(r, c, d, name) /\ Means(r, c, d, value)
      BY <2>4, <3>1, Zenon
    <3>3. PICK x \in Nat, y \in Nat : x = c /\ y = d
      BY <1>1, <3>2 DEF FirstSetter, IsLine
    <3>4. IsLine(r, x, y) /\ Sets(r, x, y, name) /\ Means(r, x, y, value)
      BY <3>2, <3>3 DEF FirstSetter
    <3>5. IsLine(f, n + x, n + y)
      BY <3>4, LinesBehind
    <3>6. Sets(f, n + x, n + y, name)
      BY <3>4, SetsBehind
    <3>7. Means(f, n + x, n + y, value)
      BY <3>4, MeansBehind
    <3>8. ASSUME NEW a, NEW b, IsLine(f, a, b), Sets(f, a, b, name) PROVE n + x <= a
      <4>1. PICK p \in Nat, q \in Nat : a = n + p /\ IsLine(r, p, q) /\ Sets(r, p, q, name)
        BY <2>2, <3>8
      <4>2. x <= p
        BY <3>2, <3>3, <4>1 DEF FirstSetter
      <4> QED BY <1>1, <4>1, <4>2
    <3>9. FirstSetter(f, n + x, n + y, name)
      BY <3>5, <3>6, <3>8 DEF FirstSetter
    <3>10. Found(conf, name) # {} /\ conf[Min(Found(conf, name))].ItemContent = value
      BY <2>1, <2>4, <3>1
    <3> QED BY <3>7, <3>9, <3>10 DEF AsRead
  <2> QED BY <2>3, <2>4 DEF AsRead
<1> QED BY <1>2, <1>5, <1>6, FirstItem

\* Load finds in every file whose lines fit what is written in it for each name.
LEMMA LoadFinds ==
  ASSUME NEW f \in Seq(Token), Fits(f), NEW name \in Names
  PROVE  AsWritten(Load[f], f, name)
<1> DEFINE Bad == {e \in Seq(Token) : Fits(e) /\ ~AsRead(Load[e], e, name)}
           L == {Len(e) : e \in Bad}
<1>1. Bad = {}
  <2> SUFFICES ASSUME Bad # {} PROVE FALSE
    OBVIOUS
  <2>1. L \in SUBSET Nat /\ L # {}
    <3>1. ASSUME NEW l \in L PROVE l \in Nat
      <4>1. PICK e \in Bad : l = Len(e)
        BY <3>1
      <4> QED BY <4>1
    <3>2. PICK e : e \in Bad
      OBVIOUS
    <3>3. Len(e) \in L
      BY <3>2
    <3> HIDE DEF L
    <3> QED BY <3>1, <3>3
  <2>2. PICK l \in L : \A k \in L : l <= k
    <3> HIDE DEF L
    <3> QED BY <2>1, LeastNumber
  <2>3. PICK e \in Bad : Len(e) = l
    BY <2>2
  <2>4. e \in Seq(Token) /\ Fits(e) /\ ~AsRead(Load[e], e, name) /\ Len(e) \in Nat
    BY <2>3
  <2>5. Load[e] = Round(e, Load[Left(e)])
    BY <2>4, LoadIsTheLoop
  <2>6. CASE e = <<>>
    <3>1. Load[e] = <<>>
      BY <2>5, <2>6 DEF Round
    <3>2. Found(<<>>, name) = {}
      BY DEF Found
    <3>3. \A x, y : ~IsLine(e, x, y)
      BY <2>6 DEF IsLine
    <3>4. Found(Load[e], name) = {}
      BY <3>1, <3>2
    <3>5. AsRead(Load[e], e, name)
      BY <3>3, <3>4 DEF AsRead
    <3> QED BY <2>4, <3>5
  <2>7. CASE e # <<>>
    <3>1. PICK n \in 1..Len(e) : Piece(e) = SubSeq(e, 1, n) /\ Splits(e, n, Left(e))
      BY <2>4, <2>7, PieceSplits
    <3>2. PICK r \in Seq(Token) : r = Left(e) /\ Len(r) \in Nat /\ Len(r) < Len(e)
      BY <2>4, <2>7, LeftIsShorter
    <3>3. Splits(e, n, r)
      BY <3>1, <3>2
    <3>4. Fits(r)
      <4>1. ASSUME NEW a, NEW b, IsLine(r, a, b) PROVE FitsLine(r, a, b)
        <5>1. PICK x \in Nat, y \in Nat : x = a /\ y = b
          BY <4>1 DEF IsLine
        <5>2. IsLine(r, x, y)
          BY <4>1, <5>1
        <5>3. IsLine(e, n + x, n + y)
          BY <2>4, <3>3, <5>2, LinesBehind
        <5>4. FitsLine(e, n + x, n + y)
          BY <2>4, <5>3, FitsAre
        <5>5. FitsLine(r, x, y)
          BY <2>4, <3>3, <5>2, <5>4, FitsBehind
        <5> QED BY <5>1, <5>5
      <4> QED BY <4>1, FitsAre
    <3>5. AsRead(Load[r], r, name)
      <4>1. r \notin Bad
        <5>1. ASSUME r \in Bad PROVE Len(r) \in L
          BY <5>1
        <5> HIDE DEF L, Bad
        <5> QED BY <2>2, <2>3, <2>4, <3>2, <5>1
      <4> QED BY <3>4, <4>1
    <3>6. PICK rest \in Seq(SettingItem) : rest = Load[r]
      BY LoadTyped
    <3>7. StartsWith(Load[e], e, n, rest)
      BY <2>5, <2>7, <3>1, <3>2, <3>6, Zenon DEF Round, StartsWith
    <3>8. End(e, n) # 0 => FitsLine(e, 1, End(e, n))
      <4>1. End(e, n) # 0 => IsLine(e, 1, End(e, n))
        BY <2>4, <3>3, FirstLine
      <4> QED BY <2>4, <4>1, FitsAre
    <3>9. AsRead(Load[e], e, name)
      BY <2>4, <3>3, <3>5, <3>6, <3>7, <3>8, OneMoreLine
    <3> QED BY <2>4, <3>9
  <2> QED BY <2>6, <2>7
<1>2. AsRead(Load[f], f, name)
  BY <1>1
<1> QED BY <1>2, LoadTyped, WrittenIsRead

\* However nginx.conf is laid out, main goes by what the first line says that sets a name, as
\* long as the lines fit the buffers of Load: for files of every length.
THEOREM LoadReadsWhatIsWritten == StartSpec => LoadsWhatIsWritten
<1>1. ReadFromFile /\ [StartNext]_allVars
        => [LoadFile /\ file.kind = "file" /\ Fits(file.text) =>
              \A name \in Names : AsWritten(m_ConfigItemList', file.text, name)]_allVars
  <2> SUFFICES ASSUME ReadFromFile, LoadFile, file.kind = "file", Fits(file.text),
                      NEW name \in Names
               PROVE  AsWritten(m_ConfigItemList', file.text, name)
    OBVIOUS
  <2>1. file \in Files
    BY DEF ReadFromFile, LoadFile
  <2>2. file.text \in Seq(Token)
    BY <2>1, FilesTyped
  <2>3. m_ConfigItemList' = Loaded[file.text]
    BY DEF LoadFile
  <2>4. Loaded[file.text] = Load[file.text]
    BY <2>1 DEF Loaded
  <2>5. AsWritten(Load[file.text], file.text, name)
    BY <2>2, LoadFinds
  <2> QED BY <2>3, <2>4, <2>5, Zenon
<1> QED BY <1>1, SettingsOfTheFile, PTL DEF StartSpec, LoadsWhatIsWritten
=============================================================================
