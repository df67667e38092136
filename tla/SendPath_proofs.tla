--------------------------- MODULE SendPath_proofs ---------------------------
(***************************************************************************)
(* Proofs about the way of a reply to the client, for any number of        *)
(* connections, messages and pieces, and any limits.                       *)
(***************************************************************************)
EXTENDS SendPath, QueueFacts, FiniteSetTheorems, SequenceTheorems, TLAPS

(* Types *)

LEMMA SettingFacts ==
  ASSUME TypeOK
  PROVE  /\ DOMAIN setting.to \subseteq Msg /\ Served \subseteq Conn
         /\ \A m \in DOMAIN setting.to : To(m) \in Conn
         /\ setting.MaxQueue \in Nat /\ setting.MaxBacklog \in Nat
<1>1. setting \in Setting
  BY DEF TypeOK
<1>2. PICK sent \in SUBSET Msg : setting.to \in [sent -> Conn]
  BY <1>1 DEF Setting
<1> QED BY <1>1, <1>2 DEF Setting, Served, Range, To

\* The type invariant, variable by variable.
LEMMA Types ==
  ASSUME TypeOK
  PROVE  /\ m_MsgSendQueue \in Seq(Msg) /\ conn \in [Conn -> ConnType]
         /\ hdr \in [Msg -> Nat] /\ mem \in [Msg -> MemType]
         /\ sender \in [pc : SenderPcs, pos : Nat, c : Conn]
         /\ reactor \in [pc : ReactorPcs, c : Conn, out : BOOLEAN]
         /\ closer \in [Closers -> [pc : Step, c : Conn]]
         /\ peer \in [Conn -> {"there", "leaving", "gone"}]
         /\ wire \in [Conn -> Seq(Msg)]
         /\ DOMAIN closer = Closers
BY DEF TypeOK

(* The steps *)

LEMMA AllSteps ==
  ASSUME TypeOK, [Next]_vars
  PROVE  \/ \E m \in Msg : Reply(m)
         \/ \E m \in Msg : msgSend(m)
         \/ \E x \in Closers : zdClosesocketProc(x)
         \/ \E c \in Conn : TimerKicks(c) \/ PeerLeaves(c)
         \/ \E c \in Conn : Recycle(c)
         \/ \E c \in Conn : Accept(c)
         \/ SemWait \/ SemInterrupted \/ Lock \/ Unlock
         \/ DropStale \/ TestSequence \/ Skip \/ TakeMessage
         \/ SenderSends \/ SenderFrees \/ SenderClears \/ RaiseThrow \/ Arm
         \/ \E c \in Conn : WriteEvent(c) \/ HangupEvent(c)
         \/ Read \/ ReactorCloses \/ HangupWrite \/ ReactorSends \/ Disarm \/ Post
         \/ ReactorFrees \/ ReactorClears \/ LowerThrow
         \/ UNCHANGED vars
BY SettingFacts, Types DEF Next, ServerSendQueueThread, Reactor, ReactorStep

(* What the steps make of a connection *)

SameUse(c) ==
  /\ conn'[c].fd = conn[c].fd /\ conn'[c].list = conn[c].list
  /\ conn'[c].iCurrsequence = conn[c].iCurrsequence
SamePointers(c) ==
  /\ conn'[c].psendMemPointer = conn[c].psendMemPointer
  /\ conn'[c].psendbuf = conn[c].psendbuf
SameCount(c) == conn'[c].iSendCount = conn[c].iSendCount
SameThrow(c) == conn'[c].iThrowsendCount = conn[c].iThrowsendCount
SameEvents(c) == conn'[c].EPOLLOUT = conn[c].EPOLLOUT
SameLength(c) == conn'[c].isendlen = conn[c].isendlen

\* Only the connection c changes.
Changes(c) ==
  /\ c \in Conn /\ conn' \in [Conn -> ConnType]
  /\ \A d \in Conn : d # c => conn'[d] = conn[d]

\* The fields of a connection.
LEMMA Fields ==
  ASSUME TypeOK, NEW c \in Conn
  PROVE  /\ conn[c] \in ConnType /\ conn[c].fd \in BOOLEAN
         /\ conn[c].list \in {"online", "recy", "free"} /\ conn[c].iCurrsequence \in Nat
         /\ conn[c].iSendCount \in Int /\ conn[c].iThrowsendCount \in Int
         /\ conn[c].psendMemPointer \in Msg \cup {NoMsg}
         /\ conn[c].psendbuf \in Msg \cup {NoMsg} /\ conn[c].isendlen \in Nat
<1>1. conn[c] \in ConnType
  BY Types
<1> QED BY <1>1 DEF ConnType

\* A connection is replaced, the others are not.
LEMMA Replaced ==
  ASSUME TypeOK, NEW c \in Conn, NEW k \in ConnType, conn' = [conn EXCEPT ![c] = k]
  PROVE  Changes(c) /\ conn'[c] = k
BY Types DEF Changes

\* iThrowsendCount is changed, and nothing else.
LEMMA ThrowSet ==
  ASSUME TypeOK, NEW c \in Conn, NEW n \in Int,
         conn' = [conn EXCEPT ![c].iThrowsendCount = n]
  PROVE  /\ Changes(c) /\ SameUse(c) /\ SamePointers(c) /\ SameCount(c) /\ SameEvents(c)
         /\ SameLength(c)
         /\ conn'[c].iThrowsendCount = n
<1> DEFINE k == [conn[c] EXCEPT !.iThrowsendCount = n]
<1>1. conn[c] \in ConnType
  BY Types
<1>2. /\ k \in ConnType /\ k.isendlen = conn[c].isendlen /\ k.iThrowsendCount = n
      /\ k.fd = conn[c].fd /\ k.list = conn[c].list
      /\ k.iCurrsequence = conn[c].iCurrsequence
      /\ k.psendMemPointer = conn[c].psendMemPointer /\ k.psendbuf = conn[c].psendbuf
      /\ k.iSendCount = conn[c].iSendCount /\ k.EPOLLOUT = conn[c].EPOLLOUT
  BY <1>1 DEF ConnType
<1>3. conn' = [conn EXCEPT ![c] = k]
  OBVIOUS
<1> HIDE DEF k
<1>4. Changes(c) /\ conn'[c] = k
  BY <1>2, <1>3, Replaced
<1> QED BY <1>2, <1>4 DEF SameLength, SameUse, SamePointers, SameCount, SameEvents

\* psendMemPointer is cleared, with or without a new iThrowsendCount.
LEMMA PointerCleared ==
  ASSUME TypeOK, NEW c \in Conn, NEW n \in Int,
         \/ conn' = [conn EXCEPT ![c].psendMemPointer = NoMsg] /\ n = conn[c].iThrowsendCount
         \/ conn' = [conn EXCEPT ![c].psendMemPointer = NoMsg, ![c].iThrowsendCount = n]
  PROVE  /\ Changes(c) /\ SameUse(c) /\ SameCount(c) /\ SameEvents(c)
         /\ SameLength(c)
         /\ conn'[c].psendMemPointer = NoMsg /\ conn'[c].psendbuf = conn[c].psendbuf
         /\ conn'[c].iThrowsendCount = n
<1> DEFINE k == [conn[c] EXCEPT !.psendMemPointer = NoMsg, !.iThrowsendCount = n]
<1>1. conn[c] \in ConnType
  BY Types
<1>2. /\ k \in ConnType /\ k.isendlen = conn[c].isendlen
      /\ k.iThrowsendCount = n /\ k.psendMemPointer = NoMsg
      /\ k.fd = conn[c].fd /\ k.list = conn[c].list
      /\ k.iCurrsequence = conn[c].iCurrsequence /\ k.psendbuf = conn[c].psendbuf
      /\ k.iSendCount = conn[c].iSendCount /\ k.EPOLLOUT = conn[c].EPOLLOUT
  BY <1>1 DEF ConnType
<1>3. conn' = [conn EXCEPT ![c] = k]
  BY <1>1 DEF ConnType
<1> HIDE DEF k
<1>4. Changes(c) /\ conn'[c] = k
  BY <1>2, <1>3, Replaced
<1> QED BY <1>2, <1>4 DEF SameLength, SameUse, SameCount, SameEvents

\* A step of zdClosesocketProc.
LEMMA Closing ==
  ASSUME TypeOK, NEW c \in Conn, NEW pc \in {"fd", "throw", "less", "recy"},
         conn' = [conn EXCEPT ![c] = CloseStep(pc, @)]
  PROVE  /\ Changes(c) /\ SamePointers(c) /\ SameCount(c) /\ SameEvents(c)
         /\ SameLength(c)
         /\ conn'[c].fd = IF pc = "fd" THEN FALSE ELSE conn[c].fd
         /\ conn'[c].iThrowsendCount =
              IF pc = "less" THEN conn[c].iThrowsendCount - 1 ELSE conn[c].iThrowsendCount
         /\ conn'[c].list = IF pc = "recy" /\ Online(c) THEN "recy" ELSE conn[c].list
         /\ conn'[c].iCurrsequence =
              IF pc = "recy" /\ Online(c)
              THEN conn[c].iCurrsequence + 1 ELSE conn[c].iCurrsequence
<1> DEFINE k == CloseStep(pc, conn[c])
<1>1. conn[c] \in ConnType
  BY Types
<1>2. /\ k \in ConnType /\ k.isendlen = conn[c].isendlen
      /\ k.psendMemPointer = conn[c].psendMemPointer /\ k.psendbuf = conn[c].psendbuf
      /\ k.iSendCount = conn[c].iSendCount /\ k.EPOLLOUT = conn[c].EPOLLOUT
      /\ k.fd = IF pc = "fd" THEN FALSE ELSE conn[c].fd
      /\ k.iThrowsendCount =
           IF pc = "less" THEN conn[c].iThrowsendCount - 1 ELSE conn[c].iThrowsendCount
      /\ k.list = IF pc = "recy" /\ Online(c) THEN "recy" ELSE conn[c].list
      /\ k.iCurrsequence = IF pc = "recy" /\ Online(c)
                           THEN conn[c].iCurrsequence + 1 ELSE conn[c].iCurrsequence
  <2>1. CASE pc = "fd"
    <3>1. k = [conn[c] EXCEPT !.fd = FALSE]
      BY <2>1 DEF CloseStep, CloseFd
    <3> HIDE DEF k
    <3> QED BY <1>1, <2>1, <3>1 DEF ConnType
  <2>2. CASE pc = "less"
    <3>1. k = [conn[c] EXCEPT !.iThrowsendCount = @ - 1]
      BY <2>2 DEF CloseStep, CloseThrow
    <3> HIDE DEF k
    <3> QED BY <1>1, <2>2, <3>1 DEF ConnType
  <2>3. CASE pc = "throw"
    <3>1. k = conn[c]
      BY <2>3 DEF CloseStep
    <3> HIDE DEF k
    <3> QED BY <1>1, <2>3, <3>1
  <2>4. CASE pc = "recy" /\ Online(c)
    <3>1. k = [conn[c] EXCEPT !.list = "recy", !.iCurrsequence = @ + 1]
      BY <2>4 DEF CloseStep, inRecyConnectQueue, Online
    <3> HIDE DEF k
    <3>2. k \in ConnType
      <4> DEFINE n == conn[c].iCurrsequence + 1
      <4>1. n \in Nat /\ "recy" \in {"online", "recy", "free"}
        BY Fields
      <4>2. k = [conn[c] EXCEPT !.list = "recy", !.iCurrsequence = n]
        BY <3>1
      <4> HIDE DEF n
      <4> QED BY <1>1, <4>1, <4>2 DEF ConnType
    <3>3. /\ k.list = "recy" /\ k.iCurrsequence = conn[c].iCurrsequence + 1
          /\ k.psendMemPointer = conn[c].psendMemPointer /\ k.psendbuf = conn[c].psendbuf
          /\ k.iSendCount = conn[c].iSendCount /\ k.EPOLLOUT = conn[c].EPOLLOUT
          /\ k.fd = conn[c].fd /\ k.iThrowsendCount = conn[c].iThrowsendCount
          /\ k.isendlen = conn[c].isendlen
      BY <1>1, <3>1 DEF ConnType
    <3> QED BY <2>4, <3>2, <3>3
  <2>5. CASE pc = "recy" /\ ~Online(c)
    <3>1. k = conn[c]
      BY <2>5 DEF CloseStep, inRecyConnectQueue, Online
    <3> HIDE DEF k
    <3> QED BY <1>1, <2>5, <3>1
  <2> QED BY <2>1, <2>2, <2>3, <2>4, <2>5
<1>3. conn' = [conn EXCEPT ![c] = k]
  OBVIOUS
<1> HIDE DEF k
<1>4. Changes(c) /\ conn'[c] = k
  BY <1>2, <1>3, Replaced
<1> QED BY <1>2, <1>4 DEF SameLength, SamePointers, SameCount, SameEvents

\* iSendCount is raised, and nothing else.
LEMMA Counted ==
  ASSUME TypeOK, NEW c \in Conn, conn' = [conn EXCEPT ![c].iSendCount = @ + 1]
  PROVE  /\ Changes(c) /\ SameUse(c) /\ SamePointers(c) /\ SameThrow(c) /\ SameEvents(c)
         /\ SameLength(c)
         /\ conn'[c].iSendCount = conn[c].iSendCount + 1
<1> DEFINE k == [conn[c] EXCEPT !.iSendCount = @ + 1]
<1>1. conn[c] \in ConnType
  BY Types
<1>2. /\ k \in ConnType /\ k.isendlen = conn[c].isendlen /\ k.iSendCount = conn[c].iSendCount + 1
      /\ k.fd = conn[c].fd /\ k.list = conn[c].list
      /\ k.iCurrsequence = conn[c].iCurrsequence
      /\ k.psendMemPointer = conn[c].psendMemPointer /\ k.psendbuf = conn[c].psendbuf
      /\ k.iThrowsendCount = conn[c].iThrowsendCount /\ k.EPOLLOUT = conn[c].EPOLLOUT
  BY <1>1 DEF ConnType
<1>3. conn' = [conn EXCEPT ![c] = k]
  OBVIOUS
<1> HIDE DEF k
<1>4. Changes(c) /\ conn'[c] = k
  BY <1>2, <1>3, Replaced
<1> QED BY <1>2, <1>4 DEF SameLength, SameUse, SamePointers, SameThrow, SameEvents

\* isendlen is changed, and nothing else.
LEMMA LengthSet ==
  ASSUME TypeOK, NEW c \in Conn, NEW n \in Nat, conn' = [conn EXCEPT ![c].isendlen = n]
  PROVE  /\ Changes(c) /\ SameUse(c) /\ SamePointers(c) /\ SameCount(c) /\ SameThrow(c)
         /\ SameEvents(c) /\ conn'[c].isendlen = n
<1> DEFINE k == [conn[c] EXCEPT !.isendlen = n]
<1>1. conn[c] \in ConnType
  BY Types
<1>2. /\ k \in ConnType /\ k.isendlen = n /\ k.iSendCount = conn[c].iSendCount
      /\ k.fd = conn[c].fd /\ k.list = conn[c].list
      /\ k.iCurrsequence = conn[c].iCurrsequence
      /\ k.psendMemPointer = conn[c].psendMemPointer /\ k.psendbuf = conn[c].psendbuf
      /\ k.iThrowsendCount = conn[c].iThrowsendCount /\ k.EPOLLOUT = conn[c].EPOLLOUT
  BY <1>1 DEF ConnType
<1>3. conn' = [conn EXCEPT ![c] = k]
  OBVIOUS
<1> HIDE DEF k
<1>4. Changes(c) /\ conn'[c] = k
  BY <1>2, <1>3, Replaced
<1> QED BY <1>2, <1>4 DEF SameUse, SamePointers, SameCount, SameThrow, SameEvents

\* EPOLL_CTL_MOD, on an open socket or a closed one.
LEMMA EventsSet ==
  ASSUME TypeOK, NEW c \in Conn, NEW out \in BOOLEAN, ngx_epoll_oper_event(c, out)
  PROVE  /\ Changes(c) /\ SameUse(c) /\ SamePointers(c) /\ SameCount(c) /\ SameThrow(c)
         /\ SameLength(c)
         /\ conn'[c].EPOLLOUT = IF conn[c].fd THEN out ELSE conn[c].EPOLLOUT
<1> DEFINE k == IF conn[c].fd THEN [conn[c] EXCEPT !.EPOLLOUT = out] ELSE conn[c]
<1>1. conn[c] \in ConnType
  BY Types
<1>2. /\ k \in ConnType /\ k.isendlen = conn[c].isendlen /\ k.iSendCount = conn[c].iSendCount
      /\ k.fd = conn[c].fd /\ k.list = conn[c].list
      /\ k.iCurrsequence = conn[c].iCurrsequence
      /\ k.psendMemPointer = conn[c].psendMemPointer /\ k.psendbuf = conn[c].psendbuf
      /\ k.iThrowsendCount = conn[c].iThrowsendCount
      /\ k.EPOLLOUT = IF conn[c].fd THEN out ELSE conn[c].EPOLLOUT
  BY <1>1 DEF ConnType
<1>3. conn' = [conn EXCEPT ![c] = k]
  BY Types DEF ngx_epoll_oper_event
<1> HIDE DEF k
<1>4. Changes(c) /\ conn'[c] = k
  BY <1>2, <1>3, Replaced
<1> QED BY <1>2, <1>4 DEF SameLength, SameUse, SamePointers, SameCount, SameThrow

\* What the send thread stores when it takes a message.
LEMMA Taken ==
  ASSUME TypeOK, NEW c \in Conn, Current \in Msg, conn' = [conn EXCEPT ![c] = Loaded(@)]
  PROVE  /\ Changes(c) /\ SameUse(c) /\ SameThrow(c) /\ SameEvents(c)
         /\ conn'[c].iSendCount = conn[c].iSendCount - 1
         /\ conn'[c].psendMemPointer = Current /\ conn'[c].psendbuf = Current
         /\ conn'[c].isendlen = Size[Current]
<1> DEFINE n == Size[Current]
           m == Current
           i == conn[c].iSendCount - 1
           l == [conn[c] EXCEPT !.iSendCount = i, !.psendMemPointer = m]
           k == [l EXCEPT !.psendbuf = m, !.isendlen = n]
<1>1. conn[c] \in ConnType /\ m \in Msg /\ n \in Nat /\ i \in Int
  BY Fields, SizesAssumption
<1>2. conn' = [conn EXCEPT ![c] = k]
  BY DEF Loaded
<1> HIDE DEF n, m, i
<1>3. /\ l \in ConnType /\ l.iSendCount = i
      /\ l.fd = conn[c].fd /\ l.list = conn[c].list
      /\ l.iCurrsequence = conn[c].iCurrsequence
      /\ l.psendMemPointer = m
      /\ l.iThrowsendCount = conn[c].iThrowsendCount /\ l.EPOLLOUT = conn[c].EPOLLOUT
  BY <1>1 DEF ConnType
<1> HIDE DEF l
<1>4. /\ k \in ConnType /\ k.iSendCount = i
      /\ k.fd = conn[c].fd /\ k.list = conn[c].list
      /\ k.iCurrsequence = conn[c].iCurrsequence
      /\ k.psendMemPointer = m /\ k.psendbuf = m /\ k.isendlen = n
      /\ k.iThrowsendCount = conn[c].iThrowsendCount /\ k.EPOLLOUT = conn[c].EPOLLOUT
  BY <1>1, <1>3 DEF ConnType
<1> HIDE DEF k
<1>5. Changes(c) /\ conn'[c] = k
  BY <1>2, <1>4, Replaced
<1> QED BY <1>4, <1>5 DEF SameUse, SameThrow, SameEvents, m, n, i

\* What PutOneToFree does to the connection.
LEMMA Recycled ==
  ASSUME TypeOK, NEW c \in Conn, Recycle(c)
  PROVE  /\ Changes(c) /\ SameCount(c) /\ SameEvents(c)
         /\ SameLength(c)
         /\ conn'[c].fd = conn[c].fd /\ conn'[c].list = "free"
         /\ conn'[c].iCurrsequence = conn[c].iCurrsequence + 1
         /\ conn'[c].psendMemPointer = NoMsg /\ conn'[c].psendbuf = conn[c].psendbuf
         /\ conn'[c].iThrowsendCount = 0
<1> DEFINE n == conn[c].iCurrsequence + 1
           l == [conn[c] EXCEPT !.list = "free", !.iCurrsequence = n]
           t == 0
           k == [l EXCEPT !.psendMemPointer = NoMsg, !.iThrowsendCount = t]
<1>1. conn[c] \in ConnType /\ n \in Nat /\ t \in Int /\ "free" \in {"online", "recy", "free"}
  BY Fields
<1>2. conn' = [conn EXCEPT ![c] = k]
  BY <1>1 DEF ConnType, Recycle
<1> HIDE DEF n, t
<1>3. /\ l \in ConnType /\ l.isendlen = conn[c].isendlen /\ l.list = "free" /\ l.iCurrsequence = n
      /\ l.fd = conn[c].fd /\ l.iSendCount = conn[c].iSendCount
      /\ l.psendbuf = conn[c].psendbuf /\ l.EPOLLOUT = conn[c].EPOLLOUT
  BY <1>1 DEF ConnType
<1> HIDE DEF l
<1>4. /\ k \in ConnType /\ k.isendlen = conn[c].isendlen /\ k.iSendCount = conn[c].iSendCount
      /\ k.fd = conn[c].fd /\ k.list = "free"
      /\ k.iCurrsequence = n
      /\ k.psendMemPointer = NoMsg /\ k.psendbuf = conn[c].psendbuf
      /\ k.iThrowsendCount = t /\ k.EPOLLOUT = conn[c].EPOLLOUT
  BY <1>1, <1>3 DEF ConnType
<1> HIDE DEF k
<1>5. Changes(c) /\ conn'[c] = k
  BY <1>1, <1>2, <1>4, Replaced
<1> QED BY <1>4, <1>5 DEF SameLength, n, t, SameCount, SameEvents

\* What GetOneToUse does to the connection.
LEMMA Accepted ==
  ASSUME TypeOK, NEW c \in Conn, Accept(c)
  PROVE  /\ Changes(c)
         /\ conn'[c].fd = TRUE /\ conn'[c].list = "online"
         /\ conn'[c].iCurrsequence = conn[c].iCurrsequence + 1
         /\ conn'[c].psendMemPointer = NoMsg /\ conn'[c].psendbuf = NoMsg
         /\ conn'[c].iThrowsendCount = 0 /\ conn'[c].iSendCount = 0
         /\ conn'[c].EPOLLOUT = FALSE
<1> DEFINE n == conn[c].iCurrsequence + 1
           k == Fresh(conn[c].iCurrsequence)
<1>1. n \in Nat /\ "online" \in {"online", "recy", "free"} /\ NoMsg \in Msg \cup {NoMsg}
  BY Fields
<1>2. conn' = [conn EXCEPT ![c] = k]
  BY DEF Accept
<1>3. k = [fd |-> TRUE, list |-> "online", iCurrsequence |-> n, iSendCount |-> 0,
           iThrowsendCount |-> 0, psendMemPointer |-> NoMsg, psendbuf |-> NoMsg,
           isendlen |-> 0, EPOLLOUT |-> FALSE]
  BY DEF Fresh
<1> HIDE DEF n, k
<1>4. k \in ConnType
  BY <1>1, <1>3 DEF ConnType
<1>5. /\ k.fd = TRUE /\ k.list = "online" /\ k.iCurrsequence = n
      /\ k.psendMemPointer = NoMsg /\ k.psendbuf = NoMsg
      /\ k.iThrowsendCount = 0 /\ k.iSendCount = 0 /\ k.EPOLLOUT = FALSE
  BY <1>3
<1>6. Changes(c) /\ conn'[c] = k
  BY <1>2, <1>4, Replaced
<1> QED BY <1>5, <1>6 DEF n

\* sendproc, whatever it returns.
LEMMA Sent ==
  ASSUME TypeOK, NEW c \in Conn,
         SendsAll(c) \/ SendsSome(c) \/ SendFails(c) \/ BufferFull(c)
  PROVE  /\ Changes(c) /\ SameUse(c) /\ SamePointers(c) /\ SameCount(c) /\ SameThrow(c)
         /\ SameEvents(c)
         /\ \/ wire' = wire
            \/ /\ conn[c].fd
               /\ \E n \in Nat :
                    wire' = [wire EXCEPT ![c] = @ \o [i \in 1..n |-> conn[c].psendbuf]]
<1>1. CASE \E n \in 1..conn[c].isendlen : Sends(c, n)
  <2>1. PICK n \in 1..conn[c].isendlen : Sends(c, n)
    BY <1>1
  <2>2. n \in Nat /\ n <= conn[c].isendlen /\ conn[c].isendlen \in Nat
    BY Fields
  <2>3. conn[c].fd /\ wire' = [wire EXCEPT ![c] = @ \o [i \in 1..n |-> conn[c].psendbuf]]
    BY <2>1 DEF Sends
  <2>4. CASE UNCHANGED conn
    BY <2>2, <2>3, <2>4, Types
       DEF Changes, SameUse, SamePointers, SameCount, SameThrow, SameEvents
  <2>5. CASE conn' = [conn EXCEPT ![c].isendlen = @ - n]
    <3>1. conn[c].isendlen - n \in Nat
      BY <2>2
    <3>2. conn' = [conn EXCEPT ![c].isendlen = conn[c].isendlen - n]
      BY <2>5
    <3> QED BY <2>2, <2>3, <3>1, <3>2, LengthSet
  <2> QED BY <2>1, <2>4, <2>5 DEF Sends
<1>2. CASE UNCHANGED <<wire, conn>>
  BY <1>2, Types DEF Changes, SameUse, SamePointers, SameCount, SameThrow, SameEvents
<1>3. SendsAll(c) => \E n \in 1..conn[c].isendlen : Sends(c, n)
  BY DEF SendsAll, Sends
<1>4. SendsSome(c) => \E n \in 1..conn[c].isendlen : Sends(c, n)
  BY Fields DEF SendsSome
<1> QED BY <1>1, <1>2, <1>3, <1>4 DEF SendFails, BufferFull

(* The steps keep the invariant *)

\* The queue while the send thread looks at one message.
LEMMA CurrentFacts ==
  ASSUME TypeOK, QueueKept, sender.pos <= Len(m_MsgSendQueue)
  PROVE  /\ Current \in Msg /\ Current \in ToSet(m_MsgSendQueue) /\ mem[Current] = "sent"
         /\ Current \in DOMAIN setting.to /\ To(Current) \in Conn
         /\ Rest \in Seq(Msg) /\ IsInjective(Rest) /\ Len(Rest) = Len(m_MsgSendQueue) - 1
         /\ ToSet(Rest) = ToSet(m_MsgSendQueue) \ {Current}
<1>1. m_MsgSendQueue \in Seq(Msg) /\ sender.pos \in Nat /\ sender.pos >= 1
      /\ Len(m_MsgSendQueue) \in Nat /\ IsInjective(m_MsgSendQueue)
  BY Types DEF QueueKept
<1>2. sender.pos \in 1..Len(m_MsgSendQueue)
  BY <1>1
<1>3. /\ Current \in Msg /\ Current \in ToSet(m_MsgSendQueue)
      /\ Rest \in Seq(Msg) /\ IsInjective(Rest) /\ Len(Rest) = Len(m_MsgSendQueue) - 1
      /\ ToSet(Rest) = ToSet(m_MsgSendQueue) \ {Current}
  BY <1>1, <1>2, RemoveAtFacts DEF Current, Rest
<1>4. mem[Current] = "sent" /\ Current \in DOMAIN setting.to
  BY <1>3 DEF QueueKept
<1> QED BY <1>3, <1>4, SettingFacts

\* A message that is freed has a state of memory.
LEMMA FreedType == ASSUME TypeOK, NEW m PROVE Freed(m) \in [Msg -> MemType]
BY Types DEF Freed, MemType

\* The places where the threads stand, and where they go.
LEMMA SenderPlace ==
  ASSUME TypeOK
  PROVE  LET S == [pc : SenderPcs, pos : Nat, c : Conn] IN
         /\ sender.pc \in SenderPcs /\ sender.pos \in Nat /\ sender.c \in Conn
         /\ \A p \in SenderPcs : [sender EXCEPT !.pc = p] \in S
         /\ \A p \in SenderPcs, i \in Nat : [sender EXCEPT !.pc = p, !.pos = i] \in S
         /\ \A p \in SenderPcs, c \in Conn : [sender EXCEPT !.pc = p, !.c = c] \in S
<1>1. sender \in [pc : SenderPcs, pos : Nat, c : Conn]
  BY Types
<1> QED BY <1>1

\* Where the reactor stands, and where it goes.
LEMMA ReactorPlace ==
  ASSUME TypeOK
  PROVE  LET R == [pc : ReactorPcs, c : Conn, out : BOOLEAN] IN
         /\ reactor.pc \in ReactorPcs /\ reactor.c \in Conn /\ reactor.out \in BOOLEAN
         /\ \A p \in ReactorPcs : [reactor EXCEPT !.pc = p] \in R
<1>1. reactor \in [pc : ReactorPcs, c : Conn, out : BOOLEAN]
  BY Types
<1> QED BY <1>1

\* Where a closing thread stands, and where it goes.
LEMMA CloserPlace ==
  ASSUME TypeOK, NEW x \in Closers
  PROVE  LET K == [Closers -> [pc : Step, c : Conn]] IN
         /\ closer[x].pc \in Step /\ closer[x].c \in Conn
         /\ \A p \in Step : [closer EXCEPT ![x].pc = p] \in K
         /\ \A p \in Step, c \in Conn : [closer EXCEPT ![x] = [pc |-> p, c |-> c]] \in K
<1>1. closer \in [Closers -> [pc : Step, c : Conn]]
  BY Types
<1>2. closer[x] \in [pc : Step, c : Conn]
  BY <1>1
<1>3. ASSUME NEW k \in [pc : Step, c : Conn]
      PROVE  [closer EXCEPT ![x] = k] \in [Closers -> [pc : Step, c : Conn]]
  BY <1>1, <1>3
<1>4. ASSUME NEW p \in Step
      PROVE  /\ [closer[x] EXCEPT !.pc = p] \in [pc : Step, c : Conn]
             /\ [closer EXCEPT ![x].pc = p] = [closer EXCEPT ![x] = [closer[x] EXCEPT !.pc = p]]
  BY <1>2, <1>4
<1> QED BY <1>2, <1>3, <1>4

\* Every step keeps the types.
LEMMA TypeStep == TypeOK /\ QueueKept /\ HandedOver /\ [Next]_vars => TypeOK'
<1> SUFFICES ASSUME TypeOK, QueueKept, HandedOver, [Next]_vars PROVE TypeOK'
  OBVIOUS
<1> USE DEF queueVars, threadVars
<1>1. /\ {"wait", "lock", "seq", "throw", "send", "free", "clear", "raise", "arm"}
           \subseteq SenderPcs
      /\ {"idle", "fd", "throw", "less", "recy", "read", "out", "write", "disarm", "post", "free",
          "clear", "lower"} \subseteq ReactorPcs
      /\ {"idle", "fd", "throw", "less", "recy"} \subseteq Step
      /\ {"none", "built", "sent", "freed", "freed_twice"} \subseteq MemType
      /\ {"timer", "worker"} \subseteq Closers
  BY DEF SenderPcs, ReactorPcs, Step, MemType, Closers
<1>2. ASSUME NEW m \in Msg, Reply(m) PROVE TypeOK'
  <2>1. m \in DOMAIN setting.to /\ To(m) \in Conn /\ conn[To(m)].iCurrsequence \in Nat
    BY <1>2, SettingFacts, Fields DEF Reply
  <2>2. hdr' \in [Msg -> Nat] /\ mem' \in [Msg -> MemType]
    BY <1>1, <1>2, <2>1, Types DEF Reply
  <2> QED BY <1>2, <2>2 DEF Reply, TypeOK
<1>3. ASSUME NEW m \in Msg, msgSend(m) PROVE TypeOK'
  <2>1. m \in DOMAIN setting.to /\ To(m) \in Conn
    BY <1>3, SettingFacts DEF msgSend, QueueKept
  <2>2. CASE Discard(m)
    BY <1>3, <2>2, FreedType DEF msgSend, Discard, TypeOK
  <2>3. CASE CutOff(m)
    <3>1. closer' \in [Closers -> [pc : Step, c : Conn]]
      BY <1>1, <2>1, <2>3, CloserPlace DEF CutOff
    <3> QED BY <1>3, <2>3, <3>1, FreedType DEF msgSend, CutOff, TypeOK
  <2>4. CASE Push(m)
    <3>1. conn' \in [Conn -> ConnType]
      BY <2>1, <2>4, Counted DEF Push, Changes
    <3>2. mem' \in [Msg -> MemType] /\ m_MsgSendQueue' \in Seq(Msg)
      BY <1>1, <2>4, Types DEF Push
    <3> QED BY <1>3, <2>4, <3>1, <3>2 DEF msgSend, Push, TypeOK
  <2> QED BY <1>3, <2>2, <2>3, <2>4 DEF msgSend
<1>4. ASSUME NEW x \in Closers, zdClosesocketProc(x) PROVE TypeOK'
  <2>1. closer[x].pc \in {"fd", "throw", "less", "recy"} /\ closer[x].c \in Conn
    BY <1>4, CloserPlace DEF zdClosesocketProc, Step
  <2>2. conn' \in [Conn -> ConnType]
    BY <1>4, <2>1, Closing DEF zdClosesocketProc, Changes
  <2>3. closer' \in [Closers -> [pc : Step, c : Conn]]
    <3>1. After(closer[x].pc, conn[closer[x].c]) \in Step
      BY <1>1, <2>1 DEF After
    <3> QED BY <1>4, <3>1, CloserPlace DEF zdClosesocketProc
  <2> QED BY <1>4, <2>2, <2>3 DEF zdClosesocketProc, TypeOK
<1>5. ASSUME NEW c \in Conn, TimerKicks(c) PROVE TypeOK'
  <2>1. closer' \in [Closers -> [pc : Step, c : Conn]]
    BY <1>1, <1>5, CloserPlace DEF TimerKicks
  <2> QED BY <1>5, <2>1 DEF TimerKicks, TypeOK
<1>6. ASSUME NEW c \in Conn, PeerLeaves(c) PROVE TypeOK'
  <2>1. peer' \in [Conn -> {"there", "leaving", "gone"}]
    BY <1>6, Types DEF PeerLeaves
  <2> QED BY <1>6, <2>1 DEF PeerLeaves, TypeOK
<1>7. ASSUME NEW c \in Conn, Recycle(c) PROVE TypeOK'
  <2>1. conn' \in [Conn -> ConnType]
    BY <1>7, Recycled DEF Changes
  <2> QED BY <1>7, <2>1, FreedType DEF Recycle, TypeOK
<1>8. ASSUME NEW c \in Conn, Accept(c) PROVE TypeOK'
  <2>1. conn' \in [Conn -> ConnType]
    BY <1>8, Accepted DEF Changes
  <2>2. peer' \in [Conn -> {"there", "leaving", "gone"}] /\ wire' \in [Conn -> Seq(Msg)]
    BY <1>8, Types DEF Accept
  <2> QED BY <1>8, <2>1, <2>2 DEF Accept, TypeOK
<1>9. CASE SemWait \/ SemInterrupted \/ Lock \/ Unlock \/ Skip
  <2>1. sender' \in [pc : SenderPcs, pos : Nat, c : Conn]
    <3>1. 1 \in Nat /\ sender.pos + 1 \in Nat
      <4>1. sender.pos \in Nat
        BY SenderPlace
      <4> QED BY <4>1
    <3>2. CASE SemWait
      BY <1>1, <3>2, SenderPlace DEF SemWait
    <3>3. CASE Lock \/ Skip
      BY <1>1, <3>1, <3>3, SenderPlace DEF Lock, Skip
    <3>4. CASE SemInterrupted \/ Unlock
      BY <1>1, <3>4, SenderPlace DEF SemInterrupted, Unlock
    <3> QED BY <1>9, <3>2, <3>3, <3>4
  <2> QED BY <1>9, <2>1 DEF SemWait, SemInterrupted, Lock, Unlock, Skip, TypeOK
<1>10. CASE DropStale
  BY <1>10, CurrentFacts, FreedType DEF DropStale, TypeOK
<1>11. CASE TestSequence
  <2>1. sender' \in [pc : SenderPcs, pos : Nat, c : Conn]
    BY <1>1, <1>11, CurrentFacts, SenderPlace DEF TestSequence
  <2> QED BY <1>11, <2>1 DEF TestSequence, TypeOK
<1>12. CASE TakeMessage
  <2>1. Current \in Msg /\ Rest \in Seq(Msg) /\ sender.c \in Conn
    BY <1>12, CurrentFacts, SenderPlace DEF TakeMessage, QueueKept
  <2>2. conn' \in [Conn -> ConnType]
    BY <1>12, <2>1, Taken DEF TakeMessage, Changes
  <2>3. sender' \in [pc : SenderPcs, pos : Nat, c : Conn]
    BY <1>1, <1>12, SenderPlace DEF TakeMessage
  <2> QED BY <1>12, <2>1, <2>2, <2>3 DEF TakeMessage, TypeOK
<1>13. ASSUME NEW c \in Conn, SendsAll(c) \/ SendsSome(c) \/ SendFails(c) \/ BufferFull(c),
              conn[c].psendbuf # NoMsg
       PROVE  conn' \in [Conn -> ConnType] /\ wire' \in [Conn -> Seq(Msg)]
  <2>1. conn[c].psendbuf \in Msg /\ wire \in [Conn -> Seq(Msg)]
    BY <1>13, Fields, Types
  <2>2. ASSUME NEW n \in Nat PROVE wire[c] \o [i \in 1..n |-> conn[c].psendbuf] \in Seq(Msg)
    <3>1. wire[c] \in Seq(Msg) /\ [i \in 1..n |-> conn[c].psendbuf] \in Seq(Msg)
      BY <2>1
    <3> QED BY <3>1
  <2> QED BY <1>13, <2>1, <2>2, Sent DEF Changes
<1>14. CASE SenderSends
  <2>1. sender.c \in Conn /\ conn[sender.c].psendbuf # NoMsg
    BY <1>14, SenderPlace DEF SenderSends, HandedOver, PassedOn, SenderAt, Sending
  <2>2. conn' \in [Conn -> ConnType] /\ wire' \in [Conn -> Seq(Msg)]
    BY <1>13, <1>14, <2>1 DEF SenderSends
  <2>3. sender' \in [pc : SenderPcs, pos : Nat, c : Conn]
    BY <1>1, <1>14, SenderPlace DEF SenderSends
  <2> QED BY <1>14, <2>2, <2>3 DEF SenderSends, TypeOK
<1>15. CASE SenderFrees
  <2>1. sender' \in [pc : SenderPcs, pos : Nat, c : Conn]
    BY <1>1, <1>15, SenderPlace DEF SenderFrees
  <2> QED BY <1>15, <2>1, FreedType DEF SenderFrees, TypeOK
<1>16. CASE SenderClears \/ RaiseThrow \/ Arm
  <2>1. sender.c \in Conn
    BY SenderPlace
  <2>2. conn[sender.c].iThrowsendCount + 1 \in Int
    BY <2>1, Fields
  <2>3. conn' \in [Conn -> ConnType]
    <3>1. CASE SenderClears
      <4>1. 0 \in Int
        OBVIOUS
      <4> QED BY <2>1, <3>1, <4>1, PointerCleared DEF SenderClears, Changes
    <3>2. CASE RaiseThrow
      BY <2>1, <2>2, <3>2, ThrowSet DEF RaiseThrow, Changes
    <3>3. CASE Arm
      BY <2>1, <3>3, EventsSet DEF Arm, Changes
    <3> QED BY <1>16, <3>1, <3>2, <3>3
  <2>4. sender' \in [pc : SenderPcs, pos : Nat, c : Conn]
    BY <1>1, <1>16, SenderPlace DEF SenderClears, RaiseThrow, Arm
  <2> QED BY <1>16, <2>3, <2>4 DEF SenderClears, RaiseThrow, Arm, TypeOK
<1>17. ASSUME NEW c \in Conn, WriteEvent(c) \/ HangupEvent(c) PROVE TypeOK'
  <2>1. conn[c].EPOLLOUT \in BOOLEAN
    BY Fields DEF ConnType
  <2>2. reactor' \in [pc : ReactorPcs, c : Conn, out : BOOLEAN]
    <3>1. \A p \in ReactorPcs, out \in BOOLEAN :
            [pc |-> p, c |-> c, out |-> out] \in [pc : ReactorPcs, c : Conn, out : BOOLEAN]
      OBVIOUS
    <3>2. "write" \in ReactorPcs /\ "read" \in ReactorPcs
      BY <1>1
    <3> QED BY <1>17, <2>1, <3>1, <3>2 DEF WriteEvent, HangupEvent
  <2> QED BY <1>17, <2>2 DEF WriteEvent, HangupEvent, TypeOK
<1>18. CASE Read
  <2>1. reactor' \in [pc : ReactorPcs, c : Conn, out : BOOLEAN]
    BY <1>1, <1>18, ReactorPlace DEF Read
  <2>2. peer' \in [Conn -> {"there", "leaving", "gone"}]
    BY <1>18, Types DEF Read
  <2> QED BY <1>18, <2>1, <2>2 DEF Read, TypeOK
<1>19. CASE ReactorCloses
  <2>1. conn' \in [Conn -> ConnType]
    BY <1>19, ReactorPlace, Closing DEF ReactorCloses, Changes
  <2>2. reactor' \in [pc : ReactorPcs, c : Conn, out : BOOLEAN]
    BY <1>1, <1>19, ReactorPlace DEF ReactorCloses, After
  <2> QED BY <1>19, <2>1, <2>2 DEF ReactorCloses, TypeOK
<1>20. CASE HangupWrite \/ LowerThrow \/ ReactorClears \/ Disarm
  <2>1. reactor.c \in Conn /\ conn[reactor.c].iThrowsendCount \in Int
        /\ conn[reactor.c].iThrowsendCount - 1 \in Int
    BY ReactorPlace, Fields
  <2>2. conn' \in [Conn -> ConnType]
    BY <1>20, <2>1, Types, ThrowSet, PointerCleared, EventsSet
       DEF HangupWrite, LowerThrow, ReactorClears, Disarm, Changes
  <2>3. reactor' \in [pc : ReactorPcs, c : Conn, out : BOOLEAN]
    BY <1>1, <1>20, ReactorPlace DEF HangupWrite, LowerThrow, ReactorClears, Disarm
  <2> QED BY <1>20, <2>2, <2>3 DEF HangupWrite, LowerThrow, ReactorClears, Disarm, TypeOK
<1>21. CASE ReactorSends
  <2>1. reactor.c \in Conn /\ conn[reactor.c].psendbuf # NoMsg
    BY <1>21, ReactorPlace DEF ReactorSends, HandedOver, PassedOn, ReactorAt, Writing
  <2>2. conn' \in [Conn -> ConnType] /\ wire' \in [Conn -> Seq(Msg)]
    BY <1>13, <1>21, <2>1 DEF ReactorSends
  <2>3. reactor' \in [pc : ReactorPcs, c : Conn, out : BOOLEAN]
    BY <1>1, <1>21, ReactorPlace DEF ReactorSends
  <2> QED BY <1>21, <2>2, <2>3 DEF ReactorSends, TypeOK
<1>22. CASE Post \/ ReactorFrees
  <2>1. reactor' \in [pc : ReactorPcs, c : Conn, out : BOOLEAN]
    BY <1>1, <1>22, ReactorPlace DEF Post, ReactorFrees
  <2> QED BY <1>22, <2>1, FreedType DEF Post, ReactorFrees, TypeOK
<1>23. CASE UNCHANGED vars
  BY <1>23 DEF vars, TypeOK
<1> QED BY <1>2, <1>3, <1>4, <1>5, <1>6, <1>7, <1>8, <1>9, <1>10, <1>11, <1>12, <1>14, <1>15,
           <1>16, <1>17, <1>18, <1>19, <1>20, <1>21, <1>22, <1>23, AllSteps

\* A step of zdClosesocketProc, and what it leaves alone.
LEMMA CloserMoves ==
  ASSUME TypeOK, NEW x \in Closers, zdClosesocketProc(x)
  PROVE  /\ closer[x].pc \in {"fd", "throw", "less", "recy"} /\ closer[x].c \in Conn
         /\ closer'[x].pc = After(closer[x].pc, conn[closer[x].c]) /\ closer'[x].c = closer[x].c
         /\ \A y \in Closers : y # x => closer'[y] = closer[y]
         /\ UNCHANGED <<setting, m_MsgSendQueue, hdr, mem, sender, reactor, peer, wire>>
<1>1. closer \in [Closers -> [pc : Step, c : Conn]]
  BY Types
<1>2. closer[x].pc \in {"fd", "throw", "less", "recy"} /\ closer[x].c \in Conn
  BY CloserPlace DEF zdClosesocketProc, Step
<1> DEFINE q == After(closer[x].pc, conn[closer[x].c])
<1>3. closer' = [closer EXCEPT ![x].pc = q]
  BY DEF zdClosesocketProc
<1> HIDE DEF q
<1>4. /\ closer'[x].pc = q /\ closer'[x].c = closer[x].c
      /\ \A y \in Closers : y # x => closer'[y] = closer[y]
  BY <1>1, <1>3
<1> QED BY <1>2, <1>4 DEF zdClosesocketProc, q

\* The mutex of the queue is given and taken by the threads that stand inside it.
LEMMA MutexStep == TypeOK /\ MutexKept /\ [Next]_vars => MutexKept'
<1> SUFFICES ASSUME TypeOK, MutexKept, [Next]_vars PROVE MutexKept'
  OBVIOUS
<1> USE DEF queueVars, threadVars
<1>1. /\ sender \in [pc : SenderPcs, pos : Nat, c : Conn]
      /\ "worker" \in Closers /\ "timer" \in Closers
      /\ closer \in [Closers -> [pc : Step, c : Conn]]
  BY Types DEF Closers
<1>2. ASSUME NEW m \in Msg, msgSend(m) PROVE MutexKept'
  BY <1>1, <1>2 DEF msgSend, Discard, CutOff, Push, MutexKept, MutexFree
<1>3. ASSUME NEW x \in Closers, zdClosesocketProc(x) PROVE MutexKept'
  BY <1>1, <1>3, CloserMoves DEF zdClosesocketProc, MutexKept, After, Closers
<1>4. ASSUME NEW c \in Conn, TimerKicks(c) PROVE MutexKept'
  BY <1>1, <1>4 DEF TimerKicks, MutexKept
<1>5. CASE SemWait \/ SemInterrupted \/ Lock \/ Unlock
  BY <1>1, <1>5 DEF SemWait, SemInterrupted, Lock, Unlock, MutexKept, MutexFree
<1>6. CASE TestSequence \/ Skip \/ TakeMessage
  BY <1>1, <1>6 DEF TestSequence, Skip, TakeMessage, MutexKept
<1>7. CASE SenderSends \/ SenderFrees \/ SenderClears \/ RaiseThrow \/ Arm
  BY <1>1, <1>7 DEF SenderSends, SenderFrees, SenderClears, RaiseThrow, Arm, MutexKept
<1>8. ASSUME NEW m \in Msg, Reply(m) PROVE MutexKept'
  BY <1>8 DEF Reply, MutexKept
<1>9. ASSUME NEW c \in Conn, PeerLeaves(c) \/ Recycle(c) \/ Accept(c) \/ WriteEvent(c)
                             \/ HangupEvent(c)
      PROVE MutexKept'
  BY <1>9 DEF PeerLeaves, Recycle, Accept, WriteEvent, HangupEvent, MutexKept
<1>10. CASE DropStale
  BY <1>10 DEF DropStale, MutexKept
<1>11. CASE \/ Read \/ ReactorCloses \/ HangupWrite \/ ReactorSends \/ Disarm \/ Post
            \/ ReactorFrees \/ ReactorClears \/ LowerThrow
  BY <1>11 DEF Read, ReactorCloses, HangupWrite, ReactorSends, Disarm, Post, ReactorFrees,
               ReactorClears, LowerThrow, MutexKept
<1>12. CASE UNCHANGED vars
  BY <1>12 DEF vars, MutexKept
<1> QED BY <1>2, <1>3, <1>4, <1>5, <1>6, <1>7, <1>8, <1>9, <1>10, <1>11, <1>12, AllSteps

\* No step queues a message twice, or keeps one in the queue that is freed.
LEMMA QueueStep ==
  TypeOK /\ MutexKept /\ QueueKept /\ PointersKept /\ [Next]_vars => QueueKept'
<1> SUFFICES ASSUME TypeOK, MutexKept, QueueKept, PointersKept, [Next]_vars PROVE QueueKept'
  OBVIOUS
<1> USE DEF queueVars, threadVars
<1>1. sender \in [pc : SenderPcs, pos : Nat, c : Conn] /\ mem \in [Msg -> MemType]
      /\ Len(m_MsgSendQueue) \in Nat /\ ToSet(m_MsgSendQueue) \subseteq Msg
      /\ setting.MaxQueue \in Nat
  BY Types, SettingFacts DEF ToSet
<1>2. ASSUME NEW m \in Msg, Reply(m) PROVE QueueKept'
  BY <1>1, <1>2 DEF Reply, QueueKept, Current, To
<1>3. ASSUME NEW m \in Msg, msgSend(m) PROVE QueueKept'
  <2>1. mem[m] = "built" /\ m \in DOMAIN setting.to /\ sender.pc # "throw"
        /\ m \notin ToSet(m_MsgSendQueue) /\ UNCHANGED <<setting, sender>>
    BY <1>3 DEF msgSend, QueueKept, MutexKept, MutexFree
  <2>2. CASE Discard(m) \/ CutOff(m)
    BY <1>1, <2>1, <2>2 DEF Discard, CutOff, QueueKept, Freed
  <2>3. CASE Push(m)
    <3>1. /\ m_MsgSendQueue' \in Seq(Msg) /\ Len(m_MsgSendQueue') = Len(m_MsgSendQueue) + 1
          /\ IsInjective(m_MsgSendQueue')
          /\ ToSet(m_MsgSendQueue') = ToSet(m_MsgSendQueue) \cup {m}
      BY <2>1, <2>3, AppendFacts, Types DEF Push, QueueKept
    <3>2. Len(m_MsgSendQueue') <= setting.MaxQueue + 1
      <4>1. Len(m_MsgSendQueue) <= setting.MaxQueue
        BY <1>1, <2>3 DEF Push, QueueFull
      <4> QED BY <1>1, <3>1, <4>1
    <3>3. mem' = [mem EXCEPT ![m] = "sent"]
      BY <2>3 DEF Push
    <3> QED BY <1>1, <2>1, <3>1, <3>2, <3>3 DEF QueueKept
  <2> QED BY <1>3, <2>2, <2>3 DEF msgSend
<1>4. ASSUME NEW c \in Conn, mem' = Freed(conn[c].psendMemPointer),
             UNCHANGED <<setting, m_MsgSendQueue>>,
             sender' = sender \/ (sender'.pc # "throw" /\ sender'.pos = sender.pos)
      PROVE  QueueKept'
  <2>1. conn[c].psendMemPointer \notin ToSet(m_MsgSendQueue)
        /\ (conn[c].psendMemPointer \in Msg => mem[conn[c].psendMemPointer] # "none")
    BY <1>1, NoMsgAssumption DEF PointersKept, Points
  <2>2. \A m \in Msg : /\ mem'[m] = mem[m] \/ (mem[m] # "none" /\ mem'[m] # "none")
                       /\ m \in ToSet(m_MsgSendQueue) => mem'[m] = mem[m]
    BY <1>4, <2>1 DEF Freed
  <2> QED BY <1>1, <1>4, <2>2 DEF QueueKept, Current, To
<1>5. CASE SenderFrees \/ ReactorFrees \/ \E c \in Conn : Recycle(c)
  <2>1. sender.c \in Conn /\ reactor.c \in Conn
    BY SenderPlace, ReactorPlace
  <2>2. SenderFrees => sender'.pc # "throw" /\ sender'.pos = sender.pos
    BY <1>1 DEF SenderFrees
  <2> QED BY <1>4, <1>5, <2>1, <2>2 DEF SenderFrees, ReactorFrees, Recycle
<1>6. CASE DropStale
  <2>1. sender.pc # "throw" /\ UNCHANGED <<setting, sender>>
        /\ sender.pos <= Len(m_MsgSendQueue) /\ m_MsgSendQueue' = Rest /\ mem' = Freed(Current)
    BY <1>6 DEF DropStale
  <2>2. \A m \in Msg : /\ m # Current => mem'[m] = mem[m]
                       /\ m = Current => mem[m] = "sent"
    BY <2>1, CurrentFacts DEF Freed
  <2>3. Len(m_MsgSendQueue') <= setting'.MaxQueue + 1
    <3>1. /\ Len(m_MsgSendQueue) <= setting.MaxQueue + 1
          /\ Len(m_MsgSendQueue') = Len(m_MsgSendQueue) - 1
      BY <2>1, CurrentFacts DEF QueueKept
    <3> QED BY <1>1, <2>1, <3>1
  <2> QED BY <1>1, <2>1, <2>2, <2>3, CurrentFacts DEF QueueKept
<1>7. CASE TakeMessage
  <2>1. sender.pos <= Len(m_MsgSendQueue) /\ m_MsgSendQueue' = Rest /\ UNCHANGED <<setting, mem>>
        /\ sender'.pc # "throw" /\ sender'.pos = sender.pos
    BY <1>1, <1>7 DEF TakeMessage, QueueKept
  <2>2. Len(m_MsgSendQueue') <= setting'.MaxQueue + 1
    <3>1. /\ Len(m_MsgSendQueue) <= setting.MaxQueue + 1
          /\ Len(m_MsgSendQueue') = Len(m_MsgSendQueue) - 1
      BY <2>1, CurrentFacts DEF QueueKept
    <3> QED BY <1>1, <2>1, <3>1
  <2> QED BY <1>1, <2>1, <2>2, CurrentFacts DEF QueueKept
<1>8. CASE TestSequence
  BY <1>1, <1>8 DEF TestSequence, QueueKept, Current, To
<1>9. CASE \/ SemWait \/ SemInterrupted \/ Lock \/ Unlock \/ Skip \/ SenderSends \/ SenderClears
           \/ RaiseThrow \/ Arm
  <2>1. sender'.pc # "throw" /\ sender'.pos \in {1, sender.pos, sender.pos + 1}
        /\ UNCHANGED <<setting, m_MsgSendQueue, mem>>
    BY <1>1, <1>9 DEF SemWait, SemInterrupted, Lock, Unlock, Skip, SenderSends, SenderClears,
                      RaiseThrow, Arm
  <2>2. sender'.pos >= 1
    BY <1>1, <2>1 DEF QueueKept
  <2> QED BY <2>1, <2>2 DEF QueueKept
<1>10. CASE UNCHANGED <<setting, m_MsgSendQueue, mem, sender>>
  BY <1>10 DEF QueueKept, Current, To
<1>11. CASE \/ Read \/ ReactorCloses \/ HangupWrite \/ ReactorSends \/ Disarm \/ Post
            \/ ReactorClears \/ LowerThrow \/ UNCHANGED vars
  BY <1>10, <1>11 DEF Read, ReactorCloses, HangupWrite, ReactorSends, Disarm, Post,
                      ReactorClears, LowerThrow, vars
<1>12. ASSUME NEW c \in Conn, TimerKicks(c) \/ PeerLeaves(c) \/ Accept(c) \/ WriteEvent(c)
                              \/ HangupEvent(c)
       PROVE QueueKept'
  BY <1>10, <1>12 DEF TimerKicks, PeerLeaves, Accept, WriteEvent, HangupEvent
<1>13. ASSUME NEW x \in Closers, zdClosesocketProc(x) PROVE QueueKept'
  BY <1>10, <1>13 DEF zdClosesocketProc
<1> QED BY <1>2, <1>3, <1>5, <1>6, <1>7, <1>8, <1>9, <1>11, <1>12, <1>13, AllSteps

\* Only zdClosesocketProc, the recycling and a new client change the use of a connection.
LEMMA UseSteps ==
  ASSUME TypeOK, QueueKept, [Next]_vars, NEW c \in Conn
  PROVE  \/ Recycle(c) \/ Accept(c)
         \/ /\ conn'[c].list = "free" <=> conn[c].list = "free"
            /\ conn'[c].fd => conn[c].fd
            /\ \/ SameUse(c)
               \/ \E x \in Closers : zdClosesocketProc(x) /\ closer[x].c = c
               \/ ReactorCloses /\ reactor.c = c
<1> DEFINE Goal == \/ Recycle(c) \/ Accept(c)
                   \/ /\ conn'[c].list = "free" <=> conn[c].list = "free"
                      /\ conn'[c].fd => conn[c].fd
                      /\ \/ SameUse(c)
                         \/ \E x \in Closers : zdClosesocketProc(x) /\ closer[x].c = c
                         \/ ReactorCloses /\ reactor.c = c
<1> SUFFICES Goal
  OBVIOUS
<1> HIDE DEF Goal
<1>1. ASSUME SameUse(c) PROVE Goal
  BY <1>1 DEF SameUse, Goal
<1>2. ASSUME NEW d \in Conn, Changes(d), SameUse(d) PROVE Goal
  <2>1. SameUse(c)
    BY <1>2 DEF Changes, SameUse
  <2> QED BY <1>1, <2>1
<1>3. ASSUME UNCHANGED conn PROVE Goal
  <2>1. SameUse(c)
    BY <1>3 DEF SameUse
  <2> QED BY <1>1, <2>1
<1>4. ASSUME NEW d \in Conn, Changes(d), d # c PROVE Goal
  <2>1. SameUse(c)
    BY <1>4 DEF Changes, SameUse
  <2> QED BY <1>1, <2>1
<1>5. ASSUME NEW m \in Msg, msgSend(m), Push(m) PROVE Goal
  <2>1. To(m) \in Conn
    BY <1>5, SettingFacts DEF msgSend, QueueKept
  <2> QED BY <1>2, <1>5, <2>1, Counted DEF Push
<1>6. ASSUME NEW x \in Closers, zdClosesocketProc(x) PROVE Goal
  <2> DEFINE d == closer[x].c
  <2>1. d \in Conn /\ closer[x].pc \in {"fd", "throw", "less", "recy"}
    BY <1>6, CloserMoves
  <2>2. /\ Changes(d)
        /\ conn'[d].fd = IF closer[x].pc = "fd" THEN FALSE ELSE conn[d].fd
        /\ conn'[d].list =
             IF closer[x].pc = "recy" /\ Online(d) THEN "recy" ELSE conn[d].list
    BY <1>6, <2>1, Closing DEF zdClosesocketProc
  <2>3. CASE d = c
    BY <1>6, <2>2, <2>3 DEF Online, Goal
  <2> QED BY <1>4, <2>1, <2>2, <2>3
<1>7. ASSUME ReactorCloses PROVE Goal
  <2> DEFINE d == reactor.c
  <2>1. d \in Conn /\ reactor.pc \in {"fd", "throw", "less", "recy"}
    BY <1>7, ReactorPlace DEF ReactorCloses
  <2>2. /\ Changes(d)
        /\ conn'[d].fd = IF reactor.pc = "fd" THEN FALSE ELSE conn[d].fd
        /\ conn'[d].list =
             IF reactor.pc = "recy" /\ Online(d) THEN "recy" ELSE conn[d].list
    BY <1>7, <2>1, Closing DEF ReactorCloses
  <2>3. CASE d = c
    BY <1>7, <2>2, <2>3 DEF Online, Goal
  <2> QED BY <1>4, <2>1, <2>2, <2>3
<1>8. ASSUME NEW d \in Conn, Recycle(d) \/ Accept(d) PROVE Goal
  <2>1. Changes(d)
    BY <1>8, Recycled, Accepted
  <2> QED BY <1>4, <1>8, <2>1 DEF Goal
<1>9. CASE TakeMessage \/ SenderSends \/ SenderClears \/ RaiseThrow \/ Arm
  <2> DEFINE d == sender.c
  <2>1. d \in Conn
    BY SenderPlace
  <2>2. CASE TakeMessage
    <3>1. Current \in Msg
      BY <2>2, CurrentFacts DEF TakeMessage, QueueKept
    <3> QED BY <1>2, <2>1, <2>2, <3>1, Taken DEF TakeMessage
  <2>3. CASE SenderSends
    BY <1>2, <2>1, <2>3, Sent DEF SenderSends
  <2>4. CASE SenderClears
    <3>1. 0 \in Int
      OBVIOUS
    <3> QED BY <1>2, <2>1, <2>4, <3>1, PointerCleared DEF SenderClears
  <2>5. CASE RaiseThrow
    <3>1. conn[d].iThrowsendCount + 1 \in Int
      BY <2>1, Fields
    <3> QED BY <1>2, <2>1, <2>5, <3>1, ThrowSet DEF RaiseThrow
  <2>6. CASE Arm
    BY <1>2, <2>1, <2>6, EventsSet DEF Arm
  <2> QED BY <1>9, <2>2, <2>3, <2>4, <2>5, <2>6
<1>10. CASE HangupWrite \/ ReactorSends \/ Disarm \/ ReactorClears \/ LowerThrow
  <2> DEFINE d == reactor.c
  <2>1. d \in Conn
    BY ReactorPlace
  <2>2. conn[d].iThrowsendCount \in Int /\ conn[d].iThrowsendCount - 1 \in Int
    BY <2>1, Fields
  <2>3. CASE HangupWrite \/ LowerThrow
    BY <1>2, <1>3, <2>1, <2>2, <2>3, ThrowSet DEF HangupWrite, LowerThrow
  <2>4. CASE ReactorSends
    BY <1>2, <2>1, <2>4, Sent DEF ReactorSends
  <2>5. CASE Disarm
    BY <1>2, <2>1, <2>5, EventsSet DEF Disarm
  <2>6. CASE ReactorClears
    BY <1>2, <2>1, <2>2, <2>6, PointerCleared DEF ReactorClears
  <2> QED BY <1>10, <2>3, <2>4, <2>5, <2>6
<1>11. ASSUME NEW m \in Msg, Reply(m) \/ (msgSend(m) /\ ~Push(m)) PROVE Goal
  BY <1>3, <1>11 DEF Reply, msgSend, Discard, CutOff
<1>12. ASSUME NEW d \in Conn, TimerKicks(d) \/ PeerLeaves(d) \/ WriteEvent(d) \/ HangupEvent(d)
       PROVE Goal
  BY <1>3, <1>12 DEF TimerKicks, PeerLeaves, WriteEvent, HangupEvent
<1>13. CASE \/ SemWait \/ SemInterrupted \/ Lock \/ Unlock \/ DropStale \/ TestSequence \/ Skip
            \/ SenderFrees \/ Read \/ Post \/ ReactorFrees \/ UNCHANGED vars
  BY <1>3, <1>13 DEF SemWait, SemInterrupted, Lock, Unlock, DropStale, TestSequence, Skip,
                     SenderFrees, Read, Post, ReactorFrees, vars
<1>14. ASSUME NEW m \in Msg, msgSend(m) PROVE Goal
  BY <1>5, <1>11, <1>14
<1> QED BY <1>6, <1>7, <1>8, <1>9, <1>10, <1>11, <1>12, <1>13, <1>14, AllSteps

\* Only the send thread sets psendMemPointer.
LEMMA PointerSteps ==
  ASSUME TypeOK, QueueKept, [Next]_vars, NEW c \in Conn
  PROVE  \/ SamePointers(c)
         \/ TakeMessage /\ sender.c = c
         \/ /\ conn'[c].psendMemPointer = NoMsg
            /\ \/ Accept(c)
               \/ /\ conn'[c].psendbuf = conn[c].psendbuf
                  /\ \/ SenderClears /\ sender.c = c
                     \/ ReactorClears /\ reactor.c = c
                     \/ Recycle(c)
<1> DEFINE Goal == \/ SamePointers(c)
                   \/ TakeMessage /\ sender.c = c
                   \/ /\ conn'[c].psendMemPointer = NoMsg
                      /\ \/ Accept(c)
                         \/ /\ conn'[c].psendbuf = conn[c].psendbuf
                            /\ \/ SenderClears /\ sender.c = c
                               \/ ReactorClears /\ reactor.c = c
                               \/ Recycle(c)
<1> SUFFICES Goal
  OBVIOUS
<1> HIDE DEF Goal
<1>1. ASSUME SamePointers(c) PROVE Goal
  BY <1>1 DEF Goal
<1>2. ASSUME NEW d \in Conn, Changes(d), SamePointers(d) \/ d # c PROVE Goal
  <2>1. SamePointers(c)
    BY <1>2 DEF Changes, SamePointers
  <2> QED BY <1>1, <2>1
<1>3. ASSUME UNCHANGED conn PROVE Goal
  <2>1. SamePointers(c)
    BY <1>3 DEF SamePointers
  <2> QED BY <1>1, <2>1
<1>4. ASSUME NEW m \in Msg, msgSend(m) PROVE Goal
  <2>1. CASE Push(m)
    <3>1. To(m) \in Conn
      BY <1>4, SettingFacts DEF msgSend, QueueKept
    <3> QED BY <1>2, <1>4, <2>1, <3>1, Counted DEF Push
  <2> QED BY <1>3, <1>4, <2>1 DEF msgSend, Discard, CutOff
<1>5. ASSUME NEW x \in Closers, zdClosesocketProc(x) PROVE Goal
  BY <1>2, <1>5, CloserMoves, Closing DEF zdClosesocketProc
<1>6. CASE ReactorCloses
  BY <1>2, <1>6, ReactorPlace, Closing DEF ReactorCloses
<1>7. ASSUME NEW d \in Conn, Recycle(d) PROVE Goal
  BY <1>2, <1>7, Recycled DEF Goal
<1>8. ASSUME NEW d \in Conn, Accept(d) PROVE Goal
  BY <1>2, <1>8, Accepted DEF Goal
<1>9. CASE TakeMessage \/ SenderSends \/ SenderClears \/ RaiseThrow \/ Arm
  <2> DEFINE d == sender.c
  <2>1. d \in Conn
    BY SenderPlace
  <2>2. CASE TakeMessage
    <3>1. Current \in Msg
      BY <2>2, CurrentFacts DEF TakeMessage, QueueKept
    <3> QED BY <1>2, <2>1, <2>2, <3>1, Taken DEF TakeMessage, Goal
  <2>3. CASE SenderSends
    BY <1>2, <2>1, <2>3, Sent DEF SenderSends
  <2>4. CASE SenderClears
    <3>1. 0 \in Int
      OBVIOUS
    <3>2. Changes(d) /\ conn'[d].psendMemPointer = NoMsg /\ conn'[d].psendbuf = conn[d].psendbuf
      BY <2>1, <2>4, <3>1, PointerCleared DEF SenderClears
    <3> QED BY <1>2, <2>1, <2>4, <3>2 DEF Goal
  <2>5. CASE RaiseThrow
    <3>1. conn[d].iThrowsendCount + 1 \in Int
      BY <2>1, Fields
    <3> QED BY <1>2, <2>1, <2>5, <3>1, ThrowSet DEF RaiseThrow
  <2>6. CASE Arm
    BY <1>2, <2>1, <2>6, EventsSet DEF Arm
  <2> QED BY <1>9, <2>2, <2>3, <2>4, <2>5, <2>6
<1>10. CASE HangupWrite \/ ReactorSends \/ Disarm \/ ReactorClears \/ LowerThrow
  <2> DEFINE d == reactor.c
  <2>1. d \in Conn
    BY ReactorPlace
  <2>2. conn[d].iThrowsendCount \in Int /\ conn[d].iThrowsendCount - 1 \in Int
    BY <2>1, Fields
  <2>3. CASE HangupWrite \/ LowerThrow
    BY <1>2, <1>3, <2>1, <2>2, <2>3, ThrowSet DEF HangupWrite, LowerThrow
  <2>4. CASE ReactorSends
    BY <1>2, <2>1, <2>4, Sent DEF ReactorSends
  <2>5. CASE Disarm
    BY <1>2, <2>1, <2>5, EventsSet DEF Disarm
  <2>6. CASE ReactorClears
    <3>1. Changes(d) /\ conn'[d].psendMemPointer = NoMsg /\ conn'[d].psendbuf = conn[d].psendbuf
      BY <2>1, <2>2, <2>6, PointerCleared DEF ReactorClears
    <3> QED BY <1>2, <2>1, <2>6, <3>1 DEF Goal
  <2> QED BY <1>10, <2>3, <2>4, <2>5, <2>6
<1>11. ASSUME NEW m \in Msg, Reply(m) PROVE Goal
  BY <1>3, <1>11 DEF Reply
<1>12. ASSUME NEW d \in Conn, TimerKicks(d) \/ PeerLeaves(d) \/ WriteEvent(d) \/ HangupEvent(d)
       PROVE Goal
  BY <1>3, <1>12 DEF TimerKicks, PeerLeaves, WriteEvent, HangupEvent
<1>13. CASE \/ SemWait \/ SemInterrupted \/ Lock \/ Unlock \/ DropStale \/ TestSequence \/ Skip
            \/ SenderFrees \/ Read \/ Post \/ ReactorFrees \/ UNCHANGED vars
  BY <1>3, <1>13 DEF SemWait, SemInterrupted, Lock, Unlock, DropStale, TestSequence, Skip,
                     SenderFrees, Read, Post, ReactorFrees, vars
<1> QED BY <1>4, <1>5, <1>6, <1>7, <1>8, <1>9, <1>10, <1>11, <1>12, <1>13, AllSteps

\* How the threads come to where they use a connection.
LEMMA SenderSteps ==
  ASSUME TypeOK, [Next]_vars, sender'.pc \in Sending \cup {"throw"}
  PROVE  \/ TestSequence
         \/ /\ sender.pc \in Sending \cup {"throw"} /\ sender'.c = sender.c
            /\ \/ sender' = sender
               \/ TakeMessage \/ SenderSends \/ SenderFrees \/ RaiseThrow
<1>1. sender \in [pc : SenderPcs, pos : Nat, c : Conn]
  BY Types
<1> DEFINE Goal == \/ TestSequence
                   \/ /\ sender.pc \in Sending \cup {"throw"} /\ sender'.c = sender.c
                      /\ \/ sender' = sender
                         \/ TakeMessage \/ SenderSends \/ SenderFrees \/ RaiseThrow
<1> SUFFICES Goal
  OBVIOUS
<1> HIDE DEF Goal
<1> USE DEF threadVars
<1>2. CASE sender' = sender
  BY <1>2 DEF Goal
<1>3. CASE TakeMessage \/ SenderSends \/ SenderFrees \/ RaiseThrow
  BY <1>1, <1>3 DEF TakeMessage, SenderSends, SenderFrees, RaiseThrow, Sending, Goal
<1>4. CASE TestSequence
  BY <1>4 DEF Goal
<1>5. CASE SemWait \/ SemInterrupted \/ Lock \/ Unlock \/ Skip \/ SenderClears \/ Arm
  BY <1>1, <1>5 DEF SemWait, SemInterrupted, Lock, Unlock, Skip, SenderClears, Arm, Sending
<1>6. ASSUME NEW m \in Msg, Reply(m) \/ msgSend(m) PROVE Goal
  BY <1>2, <1>6 DEF Reply, msgSend
<1>7. ASSUME NEW c \in Conn, TimerKicks(c) \/ PeerLeaves(c) \/ Recycle(c) \/ Accept(c)
                             \/ WriteEvent(c) \/ HangupEvent(c)
      PROVE Goal
  BY <1>2, <1>7 DEF TimerKicks, PeerLeaves, Recycle, Accept, WriteEvent, HangupEvent
<1>8. ASSUME NEW x \in Closers, zdClosesocketProc(x) PROVE Goal
  BY <1>2, <1>8 DEF zdClosesocketProc
<1>9. CASE DropStale \/ UNCHANGED vars
  BY <1>2, <1>9 DEF DropStale, vars
<1>10. CASE \/ Read \/ ReactorCloses \/ HangupWrite \/ ReactorSends \/ Disarm \/ Post
            \/ ReactorFrees \/ ReactorClears \/ LowerThrow
  BY <1>2, <1>10 DEF Read, ReactorCloses, HangupWrite, ReactorSends, Disarm, Post, ReactorFrees,
                     ReactorClears, LowerThrow
<1> QED BY <1>3, <1>4, <1>5, <1>6, <1>7, <1>8, <1>9, <1>10, AllSteps

\* How the reactor comes to where it is with a connection.
LEMMA ReactorSteps ==
  ASSUME TypeOK, [Next]_vars, reactor'.pc # "idle"
  PROVE  \/ WriteEvent(reactor'.c) \/ HangupEvent(reactor'.c)
         \/ /\ reactor.pc # "idle" /\ reactor'.c = reactor.c
            /\ \/ reactor' = reactor
               \/ Read \/ ReactorCloses \/ ReactorSends \/ Disarm \/ Post \/ ReactorFrees
               \/ ReactorClears
<1>1. reactor \in [pc : ReactorPcs, c : Conn, out : BOOLEAN]
  BY Types
<1> DEFINE Goal == \/ WriteEvent(reactor'.c) \/ HangupEvent(reactor'.c)
                   \/ /\ reactor.pc # "idle" /\ reactor'.c = reactor.c
                      /\ \/ reactor' = reactor
                         \/ Read \/ ReactorCloses \/ ReactorSends \/ Disarm \/ Post
                         \/ ReactorFrees \/ ReactorClears
<1> SUFFICES Goal
  OBVIOUS
<1> HIDE DEF Goal
<1> USE DEF threadVars
<1>2. CASE reactor' = reactor
  BY <1>2 DEF Goal
<1>3. CASE Read \/ ReactorCloses \/ ReactorSends
  BY <1>1, <1>3 DEF Read, ReactorCloses, ReactorSends, Goal
<1>4. CASE Disarm \/ Post \/ ReactorFrees \/ ReactorClears
  BY <1>1, <1>4 DEF Disarm, Post, ReactorFrees, ReactorClears, Goal
<1>5. CASE HangupWrite \/ LowerThrow
  BY <1>1, <1>5 DEF HangupWrite, LowerThrow
<1>6. ASSUME NEW c \in Conn, WriteEvent(c) \/ HangupEvent(c) PROVE Goal
  <2>1. reactor'.c = c
    BY <1>6 DEF WriteEvent, HangupEvent
  <2> QED BY <1>6, <2>1 DEF Goal
<1>7. ASSUME NEW m \in Msg, Reply(m) \/ msgSend(m) PROVE Goal
  BY <1>2, <1>7 DEF Reply, msgSend
<1>8. ASSUME NEW c \in Conn, TimerKicks(c) \/ PeerLeaves(c) \/ Recycle(c) \/ Accept(c)
      PROVE Goal
  BY <1>2, <1>8 DEF TimerKicks, PeerLeaves, Recycle, Accept
<1>9. ASSUME NEW x \in Closers, zdClosesocketProc(x) PROVE Goal
  BY <1>2, <1>9 DEF zdClosesocketProc
<1>10. CASE \/ SemWait \/ SemInterrupted \/ Lock \/ Unlock \/ DropStale \/ TestSequence \/ Skip
            \/ TakeMessage \/ UNCHANGED vars
  BY <1>2, <1>10 DEF SemWait, SemInterrupted, Lock, Unlock, DropStale, TestSequence, Skip,
                     TakeMessage, vars
<1>11. CASE SenderSends \/ SenderFrees \/ SenderClears \/ RaiseThrow \/ Arm
  BY <1>2, <1>11 DEF SenderSends, SenderFrees, SenderClears, RaiseThrow, Arm
<1> QED BY <1>3, <1>4, <1>5, <1>6, <1>7, <1>8, <1>9, <1>10, <1>11, AllSteps

\* How a thread comes to close a connection.
LEMMA CloserSteps ==
  ASSUME TypeOK, [Next]_vars, NEW x \in Closers, closer'[x].pc # "idle"
  PROVE  \/ closer'[x] = closer[x] /\ closer[x].pc # "idle"
         \/ zdClosesocketProc(x)
         \/ x = "timer" /\ TimerKicks(closer'[x].c) /\ closer'[x].pc = "fd"
         \/ \E m \in Msg : msgSend(m) /\ CutOff(m) /\ closer'[x].c = To(m)
                           /\ closer'[x].pc = "fd"
<1>1. closer \in [Closers -> [pc : Step, c : Conn]] /\ "timer" \in Closers /\ "worker" \in Closers
  BY Types DEF Closers
<1> DEFINE Goal == \/ closer'[x] = closer[x] /\ closer[x].pc # "idle"
                   \/ zdClosesocketProc(x)
                   \/ x = "timer" /\ TimerKicks(closer'[x].c) /\ closer'[x].pc = "fd"
                   \/ \E m \in Msg : msgSend(m) /\ CutOff(m) /\ closer'[x].c = To(m)
                                     /\ closer'[x].pc = "fd"
<1> SUFFICES Goal
  OBVIOUS
<1> HIDE DEF Goal
<1> USE DEF threadVars
<1>2. ASSUME closer'[x] = closer[x] PROVE Goal
  BY <1>2 DEF Goal
<1>3. ASSUME NEW y \in Closers, zdClosesocketProc(y) PROVE Goal
  BY <1>2, <1>3, CloserMoves DEF Goal
<1>4. ASSUME NEW c \in Conn, TimerKicks(c) PROVE Goal
  <2>1. closer' = [closer EXCEPT !["timer"] = [pc |-> "fd", c |-> c]]
    BY <1>4 DEF TimerKicks
  <2>2. CASE x = "timer"
    <3>1. closer'[x] = [pc |-> "fd", c |-> c]
      BY <1>1, <2>1, <2>2
    <3> QED BY <1>4, <2>2, <3>1 DEF Goal
  <2>3. CASE x # "timer"
    BY <1>1, <1>2, <2>1, <2>3
  <2> QED BY <2>2, <2>3
<1>5. ASSUME NEW m \in Msg, msgSend(m) PROVE Goal
  <2>1. CASE CutOff(m)
    <3>1. closer' = [closer EXCEPT !["worker"] = [pc |-> "fd", c |-> To(m)]]
      BY <2>1 DEF CutOff
    <3>2. CASE x = "worker"
      <4>1. closer'[x] = [pc |-> "fd", c |-> To(m)]
        BY <1>1, <3>1, <3>2
      <4> QED BY <1>5, <2>1, <4>1 DEF Goal
    <3>3. CASE x # "worker"
      BY <1>1, <1>2, <3>1, <3>3
    <3> QED BY <3>2, <3>3
  <2> QED BY <1>2, <1>5, <2>1 DEF msgSend, Discard, Push
<1>6. ASSUME NEW m \in Msg, Reply(m) PROVE Goal
  BY <1>2, <1>6 DEF Reply
<1>7. ASSUME NEW c \in Conn, PeerLeaves(c) \/ Recycle(c) \/ Accept(c) \/ WriteEvent(c)
                             \/ HangupEvent(c)
      PROVE Goal
  BY <1>2, <1>7 DEF PeerLeaves, Recycle, Accept, WriteEvent, HangupEvent
<1>8. CASE \/ SemWait \/ SemInterrupted \/ Lock \/ Unlock \/ DropStale \/ TestSequence \/ Skip
            \/ TakeMessage \/ UNCHANGED vars
  BY <1>2, <1>8 DEF SemWait, SemInterrupted, Lock, Unlock, DropStale, TestSequence, Skip,
                     TakeMessage, vars
<1>9. CASE SenderSends \/ SenderFrees \/ SenderClears \/ RaiseThrow \/ Arm
  BY <1>2, <1>9 DEF SenderSends, SenderFrees, SenderClears, RaiseThrow, Arm
<1>10. CASE \/ Read \/ ReactorCloses \/ HangupWrite \/ ReactorSends \/ Disarm \/ Post
            \/ ReactorFrees \/ ReactorClears \/ LowerThrow
  BY <1>2, <1>10 DEF Read, ReactorCloses, HangupWrite, ReactorSends, Disarm, Post, ReactorFrees,
                     ReactorClears, LowerThrow
<1> QED BY <1>3, <1>4, <1>5, <1>6, <1>7, <1>8, <1>9, <1>10, AllSteps

\* Who frees, builds and hands over messages.
LEMMA MemSteps ==
  ASSUME TypeOK, [Next]_vars, NEW m \in Msg
  PROVE  \/ mem'[m] = mem[m]
         \/ Reply(m) /\ mem[m] = "none" /\ mem'[m] = "built"
         \/ msgSend(m) /\ mem[m] = "built" /\ mem'[m] \in {"sent", "freed"}
                       /\ (mem'[m] = "sent" => Push(m))
         \/ /\ mem'[m] = IF mem[m] = "freed" THEN "freed_twice" ELSE "freed"
            /\ \/ DropStale /\ m = Current
               \/ SenderFrees /\ m = conn[sender.c].psendMemPointer
               \/ ReactorFrees /\ m = conn[reactor.c].psendMemPointer
               \/ \E c \in Conn : Recycle(c) /\ m = conn[c].psendMemPointer
<1>1. mem \in [Msg -> MemType]
  BY Types
<1> DEFINE Goal ==
         \/ mem'[m] = mem[m]
         \/ Reply(m) /\ mem[m] = "none" /\ mem'[m] = "built"
         \/ msgSend(m) /\ mem[m] = "built" /\ mem'[m] \in {"sent", "freed"}
                       /\ (mem'[m] = "sent" => Push(m))
         \/ /\ mem'[m] = IF mem[m] = "freed" THEN "freed_twice" ELSE "freed"
            /\ \/ DropStale /\ m = Current
               \/ SenderFrees /\ m = conn[sender.c].psendMemPointer
               \/ ReactorFrees /\ m = conn[reactor.c].psendMemPointer
               \/ \E c \in Conn : Recycle(c) /\ m = conn[c].psendMemPointer
<1> SUFFICES Goal
  OBVIOUS
<1> HIDE DEF Goal
<1> USE DEF threadVars
<1>2. ASSUME mem'[m] = mem[m] PROVE Goal
  BY <1>2 DEF Goal
<1>3. ASSUME NEW k, mem' = Freed(k), k # m PROVE Goal
  BY <1>2, <1>3 DEF Freed
<1>4. ASSUME NEW k, mem' = Freed(k), k = m
      PROVE mem'[m] = IF mem[m] = "freed" THEN "freed_twice" ELSE "freed"
  BY <1>4 DEF Freed
<1>5. ASSUME NEW k \in Msg, Reply(k) PROVE Goal
  BY <1>1, <1>2, <1>5 DEF Reply, Goal
<1>6. ASSUME NEW k \in Msg, msgSend(k) PROVE Goal
  <2>1. CASE Discard(k) \/ CutOff(k)
    BY <1>3, <1>4, <1>6, <2>1 DEF msgSend, Discard, CutOff, Goal
  <2>2. CASE Push(k)
    <3>1. mem[k] = "built" /\ mem' = [mem EXCEPT ![k] = "sent"]
      BY <1>6, <2>2 DEF msgSend, Push
    <3> QED BY <1>1, <1>2, <1>6, <2>2, <3>1 DEF Goal
  <2> QED BY <1>6, <2>1, <2>2 DEF msgSend
<1>7. CASE DropStale
  <2>1. mem' = Freed(Current)
    BY <1>7 DEF DropStale
  <2> QED BY <1>3, <1>4, <1>7, <2>1 DEF Goal
<1>8. CASE SenderFrees
  <2>1. mem' = Freed(conn[sender.c].psendMemPointer)
    BY <1>8 DEF SenderFrees
  <2> QED BY <1>3, <1>4, <1>8, <2>1 DEF Goal
<1>9. CASE ReactorFrees
  <2>1. mem' = Freed(conn[reactor.c].psendMemPointer)
    BY <1>9 DEF ReactorFrees
  <2> QED BY <1>3, <1>4, <1>9, <2>1 DEF Goal
<1>10. ASSUME NEW c \in Conn, Recycle(c) PROVE Goal
  <2>1. mem' = Freed(conn[c].psendMemPointer)
    BY <1>10 DEF Recycle
  <2> QED BY <1>3, <1>4, <1>10, <2>1 DEF Goal
<1>11. ASSUME NEW c \in Conn, TimerKicks(c) \/ PeerLeaves(c) \/ Accept(c) \/ WriteEvent(c)
                              \/ HangupEvent(c)
       PROVE Goal
  BY <1>2, <1>11 DEF TimerKicks, PeerLeaves, Accept, WriteEvent, HangupEvent
<1>12. ASSUME NEW x \in Closers, zdClosesocketProc(x) PROVE Goal
  BY <1>2, <1>12 DEF zdClosesocketProc
<1>13. CASE \/ SemWait \/ SemInterrupted \/ Lock \/ Unlock \/ TestSequence \/ Skip
            \/ TakeMessage \/ UNCHANGED vars
  BY <1>2, <1>13 DEF SemWait, SemInterrupted, Lock, Unlock, TestSequence, Skip,
                     TakeMessage, vars
<1>14. CASE SenderSends \/ SenderClears \/ RaiseThrow \/ Arm
  BY <1>2, <1>14 DEF SenderSends, SenderClears, RaiseThrow, Arm
<1>15. CASE \/ Read \/ ReactorCloses \/ HangupWrite \/ ReactorSends \/ Disarm \/ Post
            \/ ReactorClears \/ LowerThrow
  BY <1>2, <1>15 DEF Read, ReactorCloses, HangupWrite, ReactorSends, Disarm, Post,
                     ReactorClears, LowerThrow
<1> QED BY <1>5, <1>6, <1>7, <1>8, <1>9, <1>10, <1>11, <1>12, <1>13, <1>14, <1>15, AllSteps

\* What becomes of the queue, of headers, of clients and of what a client got.
LEMMA QueueSteps ==
  ASSUME TypeOK, QueueKept, [Next]_vars
  PROVE  \/ UNCHANGED m_MsgSendQueue
         \/ (DropStale \/ TakeMessage) /\ m_MsgSendQueue' = Rest
         \/ \E m \in Msg : msgSend(m) /\ Push(m)
<1> USE DEF queueVars, threadVars
<1>1. ASSUME NEW m \in Msg, Reply(m) PROVE UNCHANGED m_MsgSendQueue
  BY <1>1 DEF Reply
<1>2. ASSUME NEW m \in Msg, msgSend(m) PROVE UNCHANGED m_MsgSendQueue \/ Push(m)
  BY <1>2 DEF msgSend, Discard, CutOff
<1>3. ASSUME NEW c \in Conn, TimerKicks(c) \/ PeerLeaves(c) \/ Accept(c) \/ Recycle(c)
                             \/ WriteEvent(c) \/ HangupEvent(c)
       PROVE UNCHANGED m_MsgSendQueue
  BY <1>3 DEF TimerKicks, PeerLeaves, Accept, Recycle, WriteEvent, HangupEvent
<1>4. ASSUME NEW x \in Closers, zdClosesocketProc(x) PROVE UNCHANGED m_MsgSendQueue
  BY <1>4 DEF zdClosesocketProc
<1>5. ASSUME \/ SemWait \/ SemInterrupted \/ Lock \/ Unlock \/ TestSequence \/ Skip
             \/ SenderSends \/ SenderFrees \/ SenderClears \/ RaiseThrow \/ Arm
             \/ UNCHANGED vars
      PROVE UNCHANGED m_MsgSendQueue
  BY <1>5 DEF SemWait, SemInterrupted, Lock, Unlock, TestSequence, Skip, SenderSends,
              SenderFrees, SenderClears, RaiseThrow, Arm, vars
<1>6. ASSUME \/ Read \/ ReactorCloses \/ HangupWrite \/ ReactorSends \/ Disarm \/ Post
             \/ ReactorFrees \/ ReactorClears \/ LowerThrow
      PROVE UNCHANGED m_MsgSendQueue
  BY <1>6 DEF Read, ReactorCloses, HangupWrite, ReactorSends, Disarm, Post, ReactorFrees,
              ReactorClears, LowerThrow
<1>7. DropStale \/ TakeMessage => m_MsgSendQueue' = Rest
  BY DEF DropStale, TakeMessage
<1> QED BY <1>1, <1>2, <1>3, <1>4, <1>5, <1>6, <1>7, AllSteps

\* What hardly any step changes: the setting, the headers, and the clients.
LEMMA OtherSteps ==
  ASSUME TypeOK, [Next]_vars
  PROVE  /\ UNCHANGED setting
         /\ \/ UNCHANGED hdr
            \/ \E m \in Msg : Reply(m) /\ hdr' = [hdr EXCEPT ![m] = conn[To(m)].iCurrsequence]
         /\ \A c \in Conn : peer'[c] = "there" => peer[c] = "there" \/ Accept(c)
         /\ "peer" \notin setting.ends => \A c \in Conn :
              peer'[c] = peer[c] \/ (Accept(c) /\ peer'[c] = "there") \/ ReactorAt(c, {"read"})
<1> USE DEF queueVars, threadVars
<1>1. peer \in [Conn -> {"there", "leaving", "gone"}] /\ sender.c \in Conn
  BY Types, SenderPlace
<1>2. CASE UNCHANGED <<setting, hdr, peer>>
  BY <1>2
<1>3. ASSUME NEW m \in Msg, Reply(m)
      PROVE  /\ UNCHANGED <<setting, peer>>
             /\ hdr' = [hdr EXCEPT ![m] = conn[To(m)].iCurrsequence]
  BY <1>3 DEF Reply
<1>4. ASSUME NEW m \in Msg, msgSend(m) PROVE UNCHANGED <<setting, hdr, peer>>
  BY <1>4 DEF msgSend
<1>5. ASSUME NEW c \in Conn, TimerKicks(c) \/ Recycle(c) \/ WriteEvent(c) \/ HangupEvent(c)
      PROVE UNCHANGED <<setting, hdr, peer>>
  BY <1>5 DEF TimerKicks, Recycle, WriteEvent, HangupEvent
<1>6. ASSUME NEW x \in Closers, zdClosesocketProc(x) PROVE UNCHANGED <<setting, hdr, peer>>
  BY <1>6 DEF zdClosesocketProc
<1>7. ASSUME \/ SemWait \/ SemInterrupted \/ Lock \/ Unlock \/ DropStale \/ TestSequence \/ Skip
             \/ TakeMessage \/ SenderSends \/ SenderFrees \/ SenderClears \/ RaiseThrow \/ Arm
             \/ UNCHANGED vars
      PROVE UNCHANGED <<setting, hdr, peer>>
  BY <1>7 DEF SemWait, SemInterrupted, Lock, Unlock, DropStale, TestSequence, Skip, TakeMessage,
              SenderSends, SenderFrees, SenderClears, RaiseThrow, Arm, vars
<1>8. ASSUME \/ ReactorCloses \/ HangupWrite \/ ReactorSends \/ Disarm \/ Post
             \/ ReactorFrees \/ ReactorClears \/ LowerThrow
      PROVE UNCHANGED <<setting, hdr, peer>>
  BY <1>8 DEF ReactorCloses, HangupWrite, ReactorSends, Disarm, Post, ReactorFrees,
              ReactorClears, LowerThrow
<1>9. CASE Read
  <2>1. UNCHANGED <<setting, hdr>> /\ peer' \in {peer, [peer EXCEPT ![reactor.c] = "gone"]}
        /\ reactor.pc = "read"
    BY <1>9 DEF Read
  <2>2. \A c \in Conn : c # reactor.c => peer'[c] = peer[c]
    BY <1>1, <2>1
  <2>3. \A c \in Conn : peer'[c] = "there" => peer[c] = "there"
    BY <1>1, <2>1
  <2> QED BY <2>1, <2>2, <2>3 DEF ReactorAt
<1>10. ASSUME NEW c \in Conn, PeerLeaves(c)
       PROVE /\ UNCHANGED <<setting, hdr>> /\ "peer" \in setting.ends
             /\ \A d \in Conn : peer'[d] = "there" => peer[d] = "there"
  <2>1. UNCHANGED <<setting, hdr>> /\ "peer" \in setting.ends
        /\ \E how \in {"leaving", "gone"} : peer' = [peer EXCEPT ![c] = how]
    BY <1>10 DEF PeerLeaves
  <2> QED BY <1>1, <2>1
<1>11. ASSUME NEW c \in Conn, Accept(c)
       PROVE /\ UNCHANGED <<setting, hdr>>
             /\ \A d \in Conn : peer'[d] = peer[d] \/ (Accept(d) /\ peer'[d] = "there")
  <2>1. UNCHANGED <<setting, hdr>> /\ peer' = [peer EXCEPT ![c] = "there"]
    BY <1>11 DEF Accept
  <2> QED BY <1>1, <1>11, <2>1
<1> QED BY <1>2, <1>3, <1>4, <1>5, <1>6, <1>7, <1>8, <1>9, <1>10, <1>11, AllSteps

\* Only recycling frees a connection, and only a new client opens a closed one.
LEMMA StaysUsed ==
  ASSUME TypeOK, QueueKept, [Next]_vars, NEW c \in Conn
  PROVE  /\ conn[c].list # "free" => conn'[c].list # "free" \/ Recycle(c)
         /\ ~conn[c].fd => ~conn'[c].fd \/ Accept(c)
         /\ Accept(c) => conn[c].list = "free" /\ ~Recycle(c)
<1>1. Recycle(c) => conn'[c].fd = conn[c].fd
  BY Recycled
<1>2. Accept(c) => conn[c].list = "free" /\ ~Recycle(c) /\ conn'[c].list # "free"
  BY Accepted DEF Accept, Recycle
<1> QED BY <1>1, <1>2, UseSteps

\* A connection is recycled when no thread is inside it.
LEMMA RecycleFacts ==
  ASSUME NEW c \in Conn, Recycle(c)
  PROVE  /\ conn[c].list = "recy" /\ sender.pc \notin Sending \cup {"throw"}
         /\ reactor.pc = "idle" \/ reactor.c # c
         /\ \A x \in DOMAIN closer : closer[x].pc = "idle" \/ closer[x].c # c
         /\ \A m \in DOMAIN setting.to : To(m) = c => mem[m] # "built"
         /\ UNCHANGED <<setting, queueVars, hdr, threadVars, peer, wire>>
         /\ mem' = Freed(conn[c].psendMemPointer)
BY DEF Recycle, Quiet, Sending

\* No step recycles a connection that a thread uses.
LEMMA ConnectionsStep ==
  TypeOK /\ QueueKept /\ ConnectionsKept /\ HeadersKept /\ [Next]_vars /\ TypeOK'
    => ConnectionsKept'
<1> SUFFICES ASSUME TypeOK, QueueKept, ConnectionsKept, HeadersKept, [Next]_vars, TypeOK'
             PROVE  ConnectionsKept'
  OBVIOUS
<1>0. /\ sender.c \in Conn /\ reactor.c \in Conn /\ DOMAIN closer = Closers
      /\ reactor'.c \in Conn /\ \A x \in Closers : closer[x].c \in Conn /\ closer'[x].c \in Conn
  <2>1. /\ reactor' \in [pc : ReactorPcs, c : Conn, out : BOOLEAN]
        /\ closer' \in [Closers -> [pc : Step, c : Conn]]
    BY DEF TypeOK
  <2> QED BY <2>1, SenderPlace, ReactorPlace, CloserPlace, Types
<1>1. ASSUME NEW c \in Conn, ~Online(c)' PROVE ~conn'[c].fd
  <2>1. conn'[c].list # "online"
    BY <1>1 DEF Online
  <2>2. ASSUME ~Online(c), ~Accept(c) PROVE ~conn'[c].fd
    BY <2>2, StaysUsed DEF ConnectionsKept
  <2>3. ~Accept(c)
    BY <2>1, Accepted
  <2>4. CASE Online(c)
    <3>1. ~Recycle(c) /\ ~SameUse(c)
      BY <2>1, <2>4, RecycleFacts DEF Online, SameUse
    <3>2. ASSUME NEW pc \in {"fd", "throw", "less", "recy"}, ~conn[c].fd \/ pc # "recy",
                 conn' = [conn EXCEPT ![c] = CloseStep(pc, @)]
          PROVE ~conn'[c].fd
      BY <2>1, <2>4, <3>2, Closing DEF Online
    <3>3. ASSUME NEW x \in Closers, zdClosesocketProc(x), closer[x].c = c PROVE ~conn'[c].fd
      <4>1. closer[x].pc \in {"fd", "throw", "less", "recy"}
        BY <3>3, CloserMoves
      <4> QED BY <3>2, <3>3, <4>1 DEF zdClosesocketProc, ConnectionsKept
    <3>4. CASE ReactorCloses /\ reactor.c = c
      BY <3>2, <3>4 DEF ReactorCloses, ConnectionsKept
    <3> QED BY <2>3, <3>1, <3>3, <3>4, UseSteps
  <2> QED BY <2>2, <2>3, <2>4
<1>2. ASSUME NEW c \in Conn, conn'[c].list = "free" PROVE conn'[c].psendMemPointer = NoMsg
  <2>1. CASE Recycle(c)
    BY <2>1, Recycled
  <2>2. CASE ~Recycle(c)
    <3>1. conn[c].list = "free" /\ conn[c].psendMemPointer = NoMsg
      BY <1>2, <2>2, StaysUsed DEF ConnectionsKept
    <3>2. ~(TakeMessage /\ sender.c = c)
      BY <3>1 DEF TakeMessage, ConnectionsKept
    <3> QED BY <3>1, <3>2, PointerSteps DEF SamePointers
  <2> QED BY <2>1, <2>2
<1>3. ASSUME sender'.pc \in Sending \cup {"throw"} PROVE conn'[sender'.c].list # "free"
  <2>1. CASE TestSequence
    <3>1. /\ sender'.c = To(Current) /\ UNCHANGED conn /\ To(Current) \in Conn
          /\ conn[To(Current)].iCurrsequence = hdr[Current]
          /\ mem[Current] = "sent" /\ Current \in Msg
      BY <2>1, CurrentFacts, Types DEF TestSequence
    <3>2. Online(To(Current))
      BY <3>1 DEF HeadersKept
    <3> QED BY <3>1, <3>2 DEF Online
  <2>2. CASE sender.pc \in Sending \cup {"throw"} /\ sender'.c = sender.c
    <3>1. conn[sender.c].list # "free" /\ ~Recycle(sender.c)
      BY <1>0, <2>2, RecycleFacts DEF ConnectionsKept
    <3> QED BY <1>0, <2>2, <3>1, StaysUsed
  <2> QED BY <1>3, <2>1, <2>2, SenderSteps
<1>4. ASSUME reactor'.pc # "idle"
      PROVE  /\ conn'[reactor'.c].list # "free"
             /\ reactor'.pc \in HangingUp => peer'[reactor'.c] # "there"
             /\ reactor'.pc \in {"throw", "less", "recy"} => ~conn'[reactor'.c].fd
  <2>1. CASE WriteEvent(reactor'.c)
    <3>1. conn[reactor'.c].fd /\ UNCHANGED conn /\ reactor'.pc = "write"
      BY <2>1 DEF WriteEvent
    <3> QED BY <1>0, <3>1 DEF ConnectionsKept, Online, HangingUp
  <2>2. CASE HangupEvent(reactor'.c)
    <3>1. /\ conn[reactor'.c].fd /\ UNCHANGED <<conn, peer>> /\ reactor'.pc = "read"
          /\ peer[reactor'.c] # "there"
      BY <2>2 DEF HangupEvent
    <3> QED BY <1>0, <3>1 DEF ConnectionsKept, Online
  <2>3. CASE reactor.pc # "idle" /\ reactor'.c = reactor.c
             /\ (\/ reactor' = reactor \/ Read \/ ReactorCloses \/ ReactorSends \/ Disarm \/ Post
                 \/ ReactorFrees \/ ReactorClears)
    <3>1. /\ conn[reactor.c].list # "free" /\ ~Recycle(reactor.c) /\ ~Accept(reactor.c)
      BY <1>0, <2>3, RecycleFacts DEF ConnectionsKept, Accept
    <3>2. ASSUME reactor'.pc \in HangingUp PROVE peer'[reactor.c] # "there"
      <4>1. CASE reactor.pc \in HangingUp
        BY <1>0, <3>1, <4>1, OtherSteps DEF ConnectionsKept
      <4>2. CASE reactor.pc \notin HangingUp
        <5>1. reactor \in [pc : ReactorPcs, c : Conn, out : BOOLEAN]
          BY Types
        <5>2. ~(\/ reactor' = reactor \/ Read \/ ReactorCloses)
          BY <3>2, <4>2 DEF Read, ReactorCloses, HangingUp
        <5>3. ~(\/ ReactorSends \/ Disarm \/ Post \/ ReactorFrees \/ ReactorClears)
          BY <5>1, <3>2, <4>2 DEF ReactorSends, Disarm, Post, ReactorFrees, ReactorClears,
             HangingUp
        <5> QED BY <2>3, <5>2, <5>3
      <4> QED BY <4>1, <4>2
    <3>3. ASSUME reactor'.pc \in {"throw", "less", "recy"} PROVE ~conn'[reactor.c].fd
      <4>1. CASE reactor.pc \in {"throw", "less", "recy"}
        BY <1>0, <3>1, <4>1, StaysUsed DEF ConnectionsKept
      <4>2. CASE reactor.pc = "fd"
        <5>1. ReactorCloses
          BY <2>3, <3>3, <4>2 DEF Read, ReactorSends, Disarm, Post, ReactorFrees, ReactorClears
        <5> QED BY <1>0, <4>2, <5>1, Closing DEF ReactorCloses
      <4>3. CASE reactor.pc \notin {"fd", "throw", "less", "recy"}
        <5>1. reactor \in [pc : ReactorPcs, c : Conn, out : BOOLEAN]
          BY Types
        <5> QED BY <2>3, <3>3, <4>3, <5>1 DEF Read, ReactorCloses, ReactorSends, Disarm, Post,
                   ReactorFrees, ReactorClears
      <4> QED BY <4>1, <4>2, <4>3
    <3> QED BY <1>0, <2>3, <3>1, <3>2, <3>3, StaysUsed
  <2> QED BY <1>4, <2>1, <2>2, <2>3, ReactorSteps
<1>5. ASSUME NEW x \in Closers, closer'[x].pc # "idle"
      PROVE  /\ conn'[closer'[x].c].list # "free"
             /\ closer'[x].pc \in {"throw", "less", "recy"} => ~conn'[closer'[x].c].fd
  <2> DEFINE c == closer[x].c
  <2>1. ASSUME closer[x].pc # "idle"
        PROVE conn'[c].list # "free" /\ ~Accept(c) /\ ~Recycle(c)
    <3>1. conn[c].list # "free" /\ ~Recycle(c)
      BY <1>0, <2>1, RecycleFacts DEF ConnectionsKept
    <3> QED BY <1>0, <3>1, StaysUsed
  <2>2. CASE closer'[x] = closer[x] /\ closer[x].pc # "idle"
    BY <1>0, <2>1, <2>2, StaysUsed DEF ConnectionsKept
  <2>3. CASE zdClosesocketProc(x)
    <3>1. closer[x].pc \in {"fd", "throw", "less", "recy"} /\ closer'[x].pc = After(closer[x].pc, conn[closer[x].c])
          /\ closer'[x].c = c
      BY <2>3, CloserMoves
    <3>2. CASE closer[x].pc = "fd"
      <4>1. ~conn'[c].fd
        BY <1>0, <2>3, <3>2, Closing DEF zdClosesocketProc
      <4> QED BY <2>1, <3>1, <3>2, <4>1
    <3>3. CASE closer[x].pc # "fd"
      BY <1>0, <2>1, <3>1, <3>3, StaysUsed DEF ConnectionsKept
    <3> QED BY <3>2, <3>3
  <2>4. CASE TimerKicks(closer'[x].c) /\ closer'[x].pc = "fd"
    BY <2>4 DEF TimerKicks
  <2>5. CASE \E m \in Msg : msgSend(m) /\ CutOff(m) /\ closer'[x].c = To(m)
                            /\ closer'[x].pc = "fd"
    <3>1. PICK m \in Msg : msgSend(m) /\ CutOff(m) /\ closer'[x].c = To(m)
                           /\ closer'[x].pc = "fd"
      BY <2>5
    <3>2. conn[To(m)].list # "free" /\ UNCHANGED conn
      BY <3>1 DEF msgSend, CutOff, ConnectionsKept
    <3> QED BY <3>1, <3>2
  <2> QED BY <1>5, <2>2, <2>3, <2>4, <2>5, CloserSteps
<1>6. ASSUME NEW m \in Msg, mem'[m] = "built" PROVE conn'[To(m)'].list # "free"
  <2>1. To(m)' = To(m)
    BY OtherSteps DEF To
  <2>2. CASE mem[m] = "built"
    <3>1. m \in DOMAIN setting.to /\ To(m) \in Conn /\ conn[To(m)].list # "free"
      BY <2>2, SettingFacts DEF QueueKept, ConnectionsKept
    <3>2. ~Recycle(To(m))
      BY <2>2, <3>1, RecycleFacts
    <3> QED BY <2>1, <3>1, <3>2, StaysUsed
  <2>3. CASE Reply(m)
    BY <2>1, <2>3 DEF Reply
  <2> QED BY <1>6, <2>2, <2>3, MemSteps
<1> QED BY <1>1, <1>2, <1>3, <1>4, <1>5, <1>6 DEF ConnectionsKept, Sending, HangingUp

\* A sequence number goes up when the connection is recycled or given to a client.
LEMMA SequenceSteps ==
  ASSUME TypeOK, QueueKept, [Next]_vars, NEW c \in Conn
  PROVE  \/ conn'[c].iCurrsequence = conn[c].iCurrsequence /\ (Online(c)' <=> Online(c))
         \/ /\ conn'[c].iCurrsequence = conn[c].iCurrsequence + 1
            /\ \/ ~Online(c)'
               \/ Accept(c) /\ conn[c].list = "free"
<1>1. CASE SameUse(c)
  BY <1>1 DEF SameUse, Online
<1>2. CASE Recycle(c)
  BY <1>2, Recycled DEF Online
<1>3. CASE Accept(c)
  BY <1>3, Accepted DEF Accept
<1>4. ASSUME NEW pc \in {"fd", "throw", "less", "recy"}, conn' = [conn EXCEPT ![c] = CloseStep(pc, @)]
      PROVE \/ conn'[c].iCurrsequence = conn[c].iCurrsequence /\ (Online(c)' <=> Online(c))
            \/ conn'[c].iCurrsequence = conn[c].iCurrsequence + 1 /\ ~Online(c)'
  BY <1>4, Closing DEF Online
<1>5. ASSUME NEW x \in Closers, zdClosesocketProc(x), closer[x].c = c
      PROVE \/ conn'[c].iCurrsequence = conn[c].iCurrsequence /\ (Online(c)' <=> Online(c))
            \/ conn'[c].iCurrsequence = conn[c].iCurrsequence + 1 /\ ~Online(c)'
  <2>1. closer[x].pc \in {"fd", "throw", "less", "recy"}
    BY <1>5, CloserMoves
  <2> QED BY <1>4, <1>5, <2>1 DEF zdClosesocketProc
<1>6. CASE ReactorCloses /\ reactor.c = c
  BY <1>4, <1>6 DEF ReactorCloses
<1> QED BY <1>1, <1>2, <1>3, <1>5, <1>6, UseSteps

\* A connection is only online after a step when it was before, or has a new client.
LEMMA OnlineBefore ==
  ASSUME TypeOK, QueueKept, [Next]_vars, NEW c \in Conn, Online(c)'
  PROVE  \/ Online(c) /\ conn'[c].iCurrsequence = conn[c].iCurrsequence /\ ~Accept(c)
         \/ Accept(c) /\ conn[c].list = "free"
<1>1. conn[c].iCurrsequence \in Nat
  BY Fields
<1>2. Accept(c) => conn[c].list = "free"
  BY DEF Accept
<1> QED BY <1>1, <1>2, SequenceSteps

\* What the socket of c has accepted is kept; what is added is part of psendbuf.
LEMMA WireSteps ==
  ASSUME TypeOK, [Next]_vars, NEW c \in Conn
  PROVE  \/ Accept(c) /\ Len(wire'[c]) = 0
         \/ /\ Len(wire[c]) \in Nat /\ Len(wire'[c]) \in Nat
            /\ \A i \in 1..Len(wire'[c]) :
                 \/ i \in 1..Len(wire[c]) /\ wire'[c][i] = wire[c][i]
                 \/ /\ wire'[c][i] = conn[c].psendbuf /\ conn[c].fd
                    /\ \/ SenderSends /\ sender.c = c /\ sender.pc = "send"
                       \/ ReactorSends /\ reactor.c = c /\ reactor.pc = "write"
<1> USE DEF queueVars, threadVars
<1> DEFINE Added == \/ SenderSends /\ sender.c = c /\ sender.pc = "send"
                    \/ ReactorSends /\ reactor.c = c /\ reactor.pc = "write"
           Kept == /\ Len(wire[c]) \in Nat /\ Len(wire'[c]) \in Nat
                   /\ \A i \in 1..Len(wire'[c]) :
                        \/ i \in 1..Len(wire[c]) /\ wire'[c][i] = wire[c][i]
                        \/ wire'[c][i] = conn[c].psendbuf /\ conn[c].fd /\ Added
<1> SUFFICES ASSUME ~(Accept(c) /\ Len(wire'[c]) = 0) PROVE Kept
  BY Zenon
<1>1. wire \in [Conn -> Seq(Msg)] /\ Len(wire[c]) \in Nat
  BY Types
<1>2. ASSUME wire'[c] = wire[c] PROVE Kept
  BY <1>1, <1>2
<1>3. ASSUME NEW d \in Conn, Accept(d) PROVE Kept
  <2>1. wire' = [wire EXCEPT ![d] = <<>>]
    BY <1>3 DEF Accept
  <2>2. c # d
    BY <1>1, <1>3, <2>1
  <2> QED BY <1>1, <1>2, <2>1, <2>2
<1>4. ASSUME NEW d \in Conn, d = c => Added,
             SendsAll(d) \/ SendsSome(d) \/ SendFails(d) \/ BufferFull(d)
      PROVE Kept
  <2>1. CASE d = c
    <3>1. PICK n \in Nat :
            \/ wire'[c] = wire[c]
            \/ conn[c].fd /\ wire'[c] = wire[c] \o [i \in 1..n |-> conn[c].psendbuf]
      BY <1>1, <1>4, <2>1, Sent
    <3>2. CASE conn[c].fd /\ wire'[c] = wire[c] \o [i \in 1..n |-> conn[c].psendbuf]
      <4> DEFINE w == wire[c]
                 b == conn[c].psendbuf
                 t == [i \in 1..n |-> b]
      <4>1. w \in Seq(Msg \cup {NoMsg}) /\ Len(w) \in Nat
        <5>1. w \in Seq(Msg)
          BY <1>1
        <5> QED BY <5>1
      <4>2. t \in Seq(Msg \cup {NoMsg}) /\ Len(t) = n /\ \A i \in 1..n : t[i] = b
        BY Fields
      <4> HIDE DEF w, t, b
      <4>3. /\ Len(w \o t) = Len(w) + n
            /\ \A i \in 1..(Len(w) + n) :
                 (w \o t)[i] = IF i <= Len(w) THEN w[i] ELSE t[i - Len(w)]
        BY <4>1, <4>2, ConcatProperties
      <4>4. \A i \in 1..(Len(w) + n) : i \in 1..Len(w) \/ (i - Len(w) \in 1..n /\ ~(i <= Len(w)))
        <5> DEFINE l == Len(w)
        <5>1. l \in Nat /\ n \in Nat
          BY <4>1
        <5> HIDE DEF l
        <5>2. \A i \in 1..(l + n) : i \in 1..l \/ (i - l \in 1..n /\ ~(i <= l))
          BY <5>1
        <5> QED BY <5>2 DEF l
      <4>5. \A i \in 1..(Len(w) + n) : (i \in 1..Len(w) /\ (w \o t)[i] = w[i]) \/ (w \o t)[i] = b
        BY <4>1, <4>2, <4>3, <4>4
      <4>6. Len(w) + n \in Nat
        BY <4>1
      <4>7. wire'[c] = w \o t /\ conn[c].fd /\ Added
        BY <1>4, <2>1, <3>2 DEF w, t, b
      <4> HIDE DEF Added
      <4>8. /\ Len(wire[c]) \in Nat /\ Len(wire'[c]) \in Nat
            /\ \A i \in 1..Len(wire'[c]) :
                        \/ i \in 1..Len(wire[c]) /\ wire'[c][i] = wire[c][i]
                        \/ wire'[c][i] = conn[c].psendbuf
        BY <4>1, <4>3, <4>5, <4>6, <4>7 DEF w, b
      <4> QED BY <4>7, <4>8
    <3> QED BY <1>2, <3>1, <3>2
  <2>2. CASE d # c
    BY <1>1, <1>2, <1>4, <2>2, Sent
  <2> QED BY <2>1, <2>2
<1> HIDE DEF Kept
<1>5. CASE SenderSends
  BY <1>4, <1>5, SenderPlace DEF SenderSends
<1>6. CASE ReactorSends
  BY <1>4, <1>6, ReactorPlace DEF ReactorSends
<1>7. ASSUME NEW m \in Msg, Reply(m) \/ msgSend(m) PROVE Kept
  BY <1>2, <1>7 DEF Reply, msgSend
<1>8. ASSUME NEW d \in Conn, TimerKicks(d) \/ Recycle(d) \/ WriteEvent(d) \/ HangupEvent(d)
                             \/ PeerLeaves(d)
      PROVE Kept
  BY <1>2, <1>8 DEF TimerKicks, Recycle, WriteEvent, HangupEvent, PeerLeaves
<1>9. ASSUME NEW x \in Closers, zdClosesocketProc(x) PROVE Kept
  BY <1>2, <1>9 DEF zdClosesocketProc
<1>10. CASE \/ SemWait \/ SemInterrupted \/ Lock \/ Unlock \/ DropStale \/ TestSequence \/ Skip
            \/ TakeMessage \/ SenderFrees \/ SenderClears \/ RaiseThrow \/ Arm
            \/ UNCHANGED vars
  BY <1>2, <1>10 DEF SemWait, SemInterrupted, Lock, Unlock, DropStale, TestSequence, Skip,
              TakeMessage, SenderFrees, SenderClears, RaiseThrow, Arm, vars
<1>11. CASE \/ Read \/ ReactorCloses \/ HangupWrite \/ Disarm \/ Post
             \/ ReactorFrees \/ ReactorClears \/ LowerThrow
  BY <1>2, <1>11 DEF Read, ReactorCloses, HangupWrite, Disarm, Post, ReactorFrees,
                     ReactorClears, LowerThrow
<1> QED BY <1>3, <1>5, <1>6, <1>7, <1>8, <1>9, <1>10, <1>11, AllSteps

\* A message keeps its header once it is built, and is built once.
LEMMA HeaderStays ==
  ASSUME TypeOK, [Next]_vars, NEW m \in Msg, mem[m] # "none"
  PROVE  hdr'[m] = hdr[m] /\ mem'[m] # "none" /\ To(m)' = To(m)
<1>1. mem'[m] # "none"
  BY MemSteps
<1>2. hdr'[m] = hdr[m]
  <2>1. ASSUME NEW k \in Msg, Reply(k), hdr' = [hdr EXCEPT ![k] = conn[To(k)].iCurrsequence]
        PROVE hdr'[m] = hdr[m]
    <3>1. k # m /\ hdr \in [Msg -> Nat]
      BY <2>1, Types DEF Reply
    <3> QED BY <2>1, <3>1
  <2> QED BY <2>1, OtherSteps
<1> QED BY <1>1, <1>2, OtherSteps DEF To

\* While the send thread has picked a message nobody changes the queue.
LEMMA CurrentStays ==
  ASSUME TypeOK, MutexKept, QueueKept, [Next]_vars, sender.pc = "throw", sender' = sender
  PROVE  Current' = Current /\ UNCHANGED m_MsgSendQueue
<1>1. sender \in [pc : SenderPcs, pos : Nat, c : Conn]
  BY Types
<1>2. ~DropStale /\ ~TakeMessage
  BY <1>1 DEF DropStale, TakeMessage
<1>3. \A m \in Msg : ~msgSend(m)
  BY DEF msgSend, MutexFree, MutexKept
<1>4. UNCHANGED m_MsgSendQueue
  BY <1>2, <1>3, QueueSteps
<1> QED BY <1>4 DEF Current

\* What is not built yet is neither queued nor pointed to.
LEMMA BuiltByReply ==
  ASSUME TypeOK, QueueKept, PointersKept, [Next]_vars, NEW m \in Msg,
         mem[m] = "none", mem'[m] # "none"
  PROVE  Reply(m)
<1>1. ~(DropStale /\ m = Current)
  BY CurrentFacts DEF DropStale
<1>2. \A c \in Conn : m # conn[c].psendMemPointer
  BY NoMsgAssumption DEF PointersKept, Points
<1>3. sender.c \in Conn /\ reactor.c \in Conn
  BY SenderPlace, ReactorPlace
<1> QED BY <1>1, <1>2, <1>3, MemSteps

\* No step makes an old header look like one of the present use.
LEMMA HeadersStep ==
  ASSUME TypeOK, MutexKept, QueueKept, ConnectionsKept, HeadersKept, PointersKept,
         [Next]_vars, TypeOK'
  PROVE  HeadersKept'
<1>1. ASSUME NEW m \in Msg, mem'[m] # "none"
      PROVE  /\ hdr'[m] <= conn'[To(m)'].iCurrsequence
             /\ hdr'[m] = conn'[To(m)'].iCurrsequence => Online(To(m))'
             /\ mem'[m] = "built" /\ Online(To(m))' => hdr'[m] = conn'[To(m)'].iCurrsequence
  <2>1. CASE mem[m] # "none"
    <3>0. PICK c \in Conn : c = To(m)
      BY <2>1, SettingFacts DEF QueueKept
    <3>1. hdr'[m] = hdr[m] /\ To(m)' = c
      BY <2>1, <3>0, HeaderStays
    <3>2. hdr[m] \in Nat /\ conn[c].iCurrsequence \in Nat
      BY <3>1, Types, Fields
    <3>3. /\ hdr[m] <= conn[c].iCurrsequence
          /\ hdr[m] = conn[c].iCurrsequence => Online(c)
          /\ mem[m] = "built" /\ Online(c) => hdr[m] = conn[c].iCurrsequence
          /\ mem[m] = "built" => conn[c].list # "free"
      BY <2>1, <3>0 DEF HeadersKept, ConnectionsKept
    <3>4. mem'[m] = "built" => mem[m] = "built"
      BY <2>1, MemSteps
    <3>5. CASE conn'[c].iCurrsequence = conn[c].iCurrsequence /\ (Online(c)' <=> Online(c))
      BY <3>1, <3>3, <3>4, <3>5
    <3>6. CASE /\ conn'[c].iCurrsequence = conn[c].iCurrsequence + 1
               /\ \/ ~Online(c)'
                  \/ Accept(c) /\ conn[c].list = "free"
      <4>1. hdr[m] <= conn'[c].iCurrsequence /\ hdr[m] # conn'[c].iCurrsequence
        BY <3>2, <3>3, <3>6
      <4>2. ~(mem'[m] = "built" /\ Online(c)')
        BY <3>3, <3>4, <3>6
      <4> QED BY <3>1, <4>1, <4>2
    <3> QED BY <3>5, <3>6, SequenceSteps
  <2>2. CASE mem[m] = "none"
    <3>1. Reply(m)
      BY <1>1, <2>2, BuiltByReply
    <3>2. /\ hdr' = [hdr EXCEPT ![m] = conn[To(m)].iCurrsequence] /\ UNCHANGED <<conn, setting>>
          /\ conn[To(m)].list = "online" /\ To(m) \in Conn
      BY <3>1, SettingFacts DEF Reply
    <3>3. hdr'[m] = conn[To(m)].iCurrsequence /\ conn[To(m)].iCurrsequence \in Nat
      BY <3>2, Types, Fields
    <3> QED BY <3>2, <3>3 DEF To, Online
  <2> QED BY <2>1, <2>2
<1>2. ASSUME sender'.pc = "throw", Online(sender.c)'
      PROVE  hdr'[Current'] = conn'[sender'.c].iCurrsequence
  <2>1. CASE TestSequence
    <3>1. /\ sender'.c = To(Current) /\ UNCHANGED <<conn, hdr, m_MsgSendQueue>>
          /\ conn[To(Current)].iCurrsequence = hdr[Current] /\ sender'.pos = sender.pos
      BY <2>1, Types DEF TestSequence, queueVars
    <3> QED BY <3>1 DEF Current
  <2>2. CASE sender.pc = "throw" /\ sender' = sender
    <3>1. sender.c \in Conn /\ Current' = Current /\ Current \in Msg /\ mem[Current] = "sent"
      BY <2>2, SenderPlace, CurrentStays, CurrentFacts DEF QueueKept
    <3>2. ~Accept(sender.c)
      BY <2>2 DEF ConnectionsKept, Accept
    <3>3. Online(sender.c) /\ conn'[sender.c].iCurrsequence = conn[sender.c].iCurrsequence
      BY <1>2, <2>2, <3>1, <3>2, OnlineBefore DEF Online
    <3> QED BY <2>2, <3>1, <3>3, HeaderStays DEF HeadersKept
  <2>3. sender \in [pc : SenderPcs, pos : Nat, c : Conn]
    BY Types
  <2>4. ~(TakeMessage \/ SenderSends \/ SenderFrees \/ RaiseThrow)
    BY <1>2, <2>3 DEF TakeMessage, SenderSends, SenderFrees, RaiseThrow
  <2> QED BY <1>2, <2>1, <2>2, <2>4, SenderSteps
<1>3. ASSUME NEW c \in Conn, conn'[c].psendbuf # NoMsg
      PROVE  /\ mem'[conn'[c].psendbuf] # "none"
             /\ Online(c)' => hdr'[conn'[c].psendbuf] = conn'[c].iCurrsequence
  <2>1. ~Accept(c)
    BY <1>3, Accepted
  <2>2. CASE conn'[c].psendbuf = conn[c].psendbuf
    <3>1. conn[c].psendbuf \in Msg /\ mem[conn[c].psendbuf] # "none"
      BY <1>3, <2>2, Fields DEF HeadersKept
    <3>2. Online(c)' => Online(c) /\ conn'[c].iCurrsequence = conn[c].iCurrsequence
      BY <2>1, OnlineBefore
    <3> QED BY <1>3, <2>2, <3>1, <3>2, HeaderStays DEF HeadersKept
  <2>3. CASE TakeMessage /\ sender.c = c
    <3>1. /\ Current \in Msg /\ mem[Current] = "sent" /\ sender.pc = "throw"
          /\ conn'[c].psendbuf = Current
      BY <2>3, CurrentFacts, Taken DEF TakeMessage, QueueKept
    <3>2. Online(c)' => Online(c) /\ conn'[c].iCurrsequence = conn[c].iCurrsequence
      BY <2>1, OnlineBefore
    <3> QED BY <2>3, <3>1, <3>2, HeaderStays DEF HeadersKept
  <2> QED BY <2>1, <2>2, <2>3, PointerSteps DEF SamePointers
<1>4. ASSUME NEW c \in Conn, NEW i \in 1..Len(wire'[c])
      PROVE  mem'[wire'[c][i]] # "none"
  <2>1. wire[c] \in Seq(Msg) /\ wire'[c] \in Seq(Msg)
    BY Types DEF TypeOK
  <2>2. wire'[c][i] \in Msg
    BY <2>1
  <2>3. CASE i \in 1..Len(wire[c]) /\ wire'[c][i] = wire[c][i]
    BY <2>2, <2>3, HeaderStays DEF HeadersKept
  <2>4. CASE wire'[c][i] = conn[c].psendbuf
    BY <2>2, <2>4, NoMsgAssumption, HeaderStays DEF HeadersKept
  <2>5. ~(Len(wire'[c]) = 0)
    OBVIOUS
  <2> QED BY <2>3, <2>4, <2>5, WireSteps
<1> QED BY <1>1, <1>2, <1>3, <1>4 DEF HeadersKept

\* No step gives bytes of a previous user's reply to the socket of the next.
LEMMA NoStaleStep ==
  TypeOK /\ QueueKept /\ ConnectionsKept /\ HeadersKept /\ NoStaleReply /\ [Next]_vars /\ TypeOK'
    => NoStaleReply'
<1> SUFFICES ASSUME TypeOK, QueueKept, ConnectionsKept, HeadersKept, NoStaleReply, [Next]_vars,
                    TypeOK', NEW c \in Conn, conn'[c].list = "online", NEW i \in 1..Len(wire'[c])
             PROVE  hdr'[wire'[c][i]] = conn'[c].iCurrsequence
  BY DEF NoStaleReply
<1>1. wire[c] \in Seq(Msg) /\ wire'[c] \in Seq(Msg) /\ wire'[c][i] \in Msg
  BY Types DEF TypeOK
<1>2. Online(c)' /\ Len(wire'[c]) # 0
  BY <1>1 DEF Online
<1>3. CASE Accept(c)
  BY <1>2, <1>3, Types DEF Accept
<1>4. CASE ~Accept(c)
  <2>1. Online(c) /\ conn'[c].iCurrsequence = conn[c].iCurrsequence
    BY <1>2, <1>4, OnlineBefore
  <2>2. CASE i \in 1..Len(wire[c]) /\ wire'[c][i] = wire[c][i]
    BY <1>1, <2>1, <2>2, HeaderStays DEF NoStaleReply, HeadersKept, Online
  <2>3. CASE wire'[c][i] = conn[c].psendbuf
    BY <1>1, <2>1, <2>3, NoMsgAssumption, HeaderStays DEF HeadersKept
  <2> QED BY <1>2, <1>4, <2>2, <2>3, WireSteps
<1> QED BY <1>3, <1>4

\* Only msgSend, the send thread and a new client change iSendCount.
LEMMA CountSteps ==
  ASSUME TypeOK, QueueKept, [Next]_vars, NEW c \in Conn
  PROVE  \/ SameCount(c) \/ Accept(c) \/ TakeMessage
         \/ \E m \in Msg : msgSend(m) /\ Push(m)
<1> DEFINE Goal == \/ SameCount(c) \/ Accept(c) \/ TakeMessage
                   \/ \E m \in Msg : msgSend(m) /\ Push(m)
<1> SUFFICES Goal
  OBVIOUS
<1> HIDE DEF Goal
<1>1. ASSUME NEW d \in Conn, Changes(d), SameCount(d) \/ d # c PROVE Goal
  <2>1. SameCount(c)
    BY <1>1 DEF Changes, SameCount
  <2> QED BY <2>1 DEF Goal
<1>2. ASSUME UNCHANGED conn PROVE Goal
  <2>1. SameCount(c)
    BY <1>2 DEF SameCount
  <2> QED BY <2>1 DEF Goal
<1>3. ASSUME NEW m \in Msg, msgSend(m) PROVE Goal
  BY <1>2, <1>3 DEF msgSend, Discard, CutOff, Goal
<1>4. ASSUME NEW x \in Closers, zdClosesocketProc(x) PROVE Goal
  BY <1>1, <1>4, CloserMoves, Closing DEF zdClosesocketProc
<1>5. CASE ReactorCloses
  BY <1>1, <1>5, ReactorPlace, Closing DEF ReactorCloses
<1>6. ASSUME NEW d \in Conn, Recycle(d) PROVE Goal
  BY <1>1, <1>6, Recycled
<1>7. ASSUME NEW d \in Conn, Accept(d) PROVE Goal
  BY <1>1, <1>7, Accepted DEF Goal
<1>8. CASE TakeMessage
  BY <1>8 DEF Goal
<1>9. CASE SenderSends \/ SenderClears \/ RaiseThrow \/ Arm
  <2> DEFINE d == sender.c
  <2>0. 0 \in Int
    OBVIOUS
  <2>1. d \in Conn
    BY SenderPlace
  <2>2. conn[d].iThrowsendCount + 1 \in Int
    BY <2>1, Fields
  <2>3. CASE SenderSends
    BY <1>1, <2>1, <2>3, Sent DEF SenderSends
  <2>4. CASE SenderClears
    BY <1>1, <2>0, <2>1, <2>4, PointerCleared DEF SenderClears
  <2>5. CASE RaiseThrow
    BY <1>1, <2>1, <2>2, <2>5, ThrowSet DEF RaiseThrow
  <2>6. CASE Arm
    BY <1>1, <2>1, <2>6, EventsSet DEF Arm
  <2> QED BY <1>9, <2>3, <2>4, <2>5, <2>6
<1>10. CASE HangupWrite \/ ReactorSends \/ Disarm \/ ReactorClears \/ LowerThrow
  <2> DEFINE d == reactor.c
  <2>1. d \in Conn
    BY ReactorPlace
  <2>2. conn[d].iThrowsendCount \in Int /\ conn[d].iThrowsendCount - 1 \in Int
    BY <2>1, Fields
  <2>3. CASE HangupWrite \/ LowerThrow
    BY <1>1, <1>2, <2>1, <2>2, <2>3, ThrowSet DEF HangupWrite, LowerThrow
  <2>4. CASE ReactorSends
    BY <1>1, <2>1, <2>4, Sent DEF ReactorSends
  <2>5. CASE Disarm
    BY <1>1, <2>1, <2>5, EventsSet DEF Disarm
  <2>6. CASE ReactorClears
    BY <1>1, <2>1, <2>2, <2>6, PointerCleared DEF ReactorClears
  <2> QED BY <1>10, <2>3, <2>4, <2>5, <2>6
<1>11. ASSUME NEW m \in Msg, Reply(m) PROVE Goal
  BY <1>2, <1>11 DEF Reply
<1>12. ASSUME NEW d \in Conn, TimerKicks(d) \/ PeerLeaves(d) \/ WriteEvent(d) \/ HangupEvent(d)
       PROVE Goal
  BY <1>2, <1>12 DEF TimerKicks, PeerLeaves, WriteEvent, HangupEvent
<1>13. CASE \/ SemWait \/ SemInterrupted \/ Lock \/ Unlock \/ DropStale \/ TestSequence \/ Skip
            \/ SenderFrees \/ Read \/ Post \/ ReactorFrees \/ UNCHANGED vars
  BY <1>2, <1>13 DEF SemWait, SemInterrupted, Lock, Unlock, DropStale, TestSequence, Skip,
                     SenderFrees, Read, Post, ReactorFrees, vars
<1> QED BY <1>3, <1>4, <1>5, <1>6, <1>7, <1>8, <1>9, <1>10, <1>11, <1>12, <1>13, AllSteps

\* The queued messages of the present user of c.
Backlog(c) ==
  {m \in ToSet(m_MsgSendQueue) : To(m) = c /\ hdr[m] = conn[c].iCurrsequence}

\* The backlog of a user is finite.
LEMMA BacklogFinite ==
  ASSUME TypeOK, NEW c
  PROVE  IsFiniteSet(Backlog(c)) /\ Cardinality(Backlog(c)) \in Nat
<1>1. IsFiniteSet(ToSet(m_MsgSendQueue))
  BY Types, ToSetFinite
<1> QED BY <1>1, FS_Subset, FS_CardinalityType DEF Backlog

\* iSendCount changes with the messages of the user in the queue.
LEMMA BacklogStep ==
  ASSUME TypeOK, MutexKept, QueueKept, ConnectionsKept, HeadersKept, BacklogCounted,
         [Next]_vars, QueueKept'
  PROVE  BacklogCounted'
<1>1. setting' = setting /\ setting.MaxBacklog \in Nat
  BY SettingFacts, OtherSteps
<1>2. Len(m_MsgSendQueue') <= setting'.MaxQueue + 1
  BY DEF QueueKept
<1>3. ASSUME NEW m \in ToSet(m_MsgSendQueue)
      PROVE  m \in Msg /\ hdr'[m] = hdr[m] /\ To(m)' = To(m) /\ mem[m] = "sent"
  <2>1. m \in Msg /\ mem[m] = "sent"
    BY <1>3, Types DEF QueueKept, ToSet
  <2> QED BY <2>1, HeaderStays
<1> SUFFICES ASSUME NEW c \in Conn
             PROVE  /\ conn'[c].iSendCount <= setting.MaxBacklog + 1
                    /\ Online(c)' => conn'[c].iSendCount = Cardinality(Backlog(c)')
  BY <1>1, <1>2 DEF BacklogCounted, Online, Backlog
<1>4. /\ conn[c].iSendCount \in Int /\ conn[c].iSendCount <= setting.MaxBacklog + 1
      /\ Online(c) => conn[c].iSendCount = Cardinality(Backlog(c))
      /\ IsFiniteSet(Backlog(c)) /\ Cardinality(Backlog(c)) \in Nat
      /\ conn[c].iCurrsequence \in Nat
  BY Fields, BacklogFinite DEF BacklogCounted, Online, Backlog
<1> DEFINE Goal == /\ conn'[c].iSendCount <= setting.MaxBacklog + 1
                   /\ Online(c)' => conn'[c].iSendCount = Cardinality(Backlog(c)')
<1> HIDE DEF Goal
<1> SUFFICES Goal
  BY DEF Goal
<1>5. ASSUME NEW m \in Msg, msgSend(m), Push(m) PROVE Goal
  <2>1. mem[m] = "built" /\ m \notin ToSet(m_MsgSendQueue) /\ To(m) \in Conn
        /\ conn[To(m)].list # "free"
    BY <1>5, SettingFacts DEF msgSend, QueueKept, ConnectionsKept
  <2>2. /\ Changes(To(m)) /\ SameUse(To(m))
        /\ conn'[To(m)].iSendCount = conn[To(m)].iSendCount + 1
    BY <1>5, <2>1, Counted DEF Push
  <2>3. SameUse(c) /\ (Online(c)' <=> Online(c))
    BY <2>2 DEF Changes, SameUse, Online
  <2>4. ToSet(m_MsgSendQueue') = ToSet(m_MsgSendQueue) \cup {m}
    BY <1>5, <2>1, AppendFacts, Types DEF Push, QueueKept
  <2>5. hdr'[m] = hdr[m] /\ To(m)' = To(m)
    BY <2>1, HeaderStays
  <2>6. CASE To(m) = c
    <3>1. conn'[c].iSendCount <= setting.MaxBacklog + 1
      <4>1. ~(conn[c].iSendCount > setting.MaxBacklog)
        BY <1>5, <2>6 DEF Push, TooMany
      <4>2. conn'[c].iSendCount = conn[c].iSendCount + 1
        BY <2>2, <2>6
      <4> QED BY <1>1, <1>4, <4>1, <4>2
    <3>2. ASSUME Online(c) PROVE conn'[c].iSendCount = Cardinality(Backlog(c)')
      <4>1. hdr[m] = conn[c].iCurrsequence
        BY <2>1, <2>6, <3>2 DEF HeadersKept
      <4>2. Backlog(c)' = Backlog(c) \cup {m} /\ m \notin Backlog(c)
        BY <1>3, <2>1, <2>3, <2>4, <2>5, <2>6, <4>1 DEF Backlog, SameUse
      <4>3. Cardinality(Backlog(c) \cup {m}) = Cardinality(Backlog(c)) + 1
        BY <1>4, <4>2, FS_AddElement
      <4> QED BY <1>4, <2>2, <2>6, <3>2, <4>2, <4>3
    <3> QED BY <2>3, <3>1, <3>2 DEF Goal
  <2>7. CASE To(m) # c
    <3>1. Backlog(c)' = Backlog(c)
      BY <1>3, <2>3, <2>4, <2>5, <2>7 DEF Backlog, SameUse
    <3>2. conn'[c].iSendCount = conn[c].iSendCount
      BY <2>2, <2>7 DEF Changes
    <3> QED BY <1>4, <2>3, <3>1, <3>2 DEF Goal
  <2> QED BY <2>6, <2>7
<1>6. CASE TakeMessage
  <2>1. /\ sender.pc = "throw" /\ sender.pos <= Len(m_MsgSendQueue) /\ To(Current) = sender.c
        /\ sender.c \in Conn
    BY <1>6, SenderPlace DEF TakeMessage, QueueKept
  <2>2. /\ Current \in Msg /\ Current \in ToSet(m_MsgSendQueue)
        /\ ToSet(m_MsgSendQueue') = ToSet(m_MsgSendQueue) \ {Current}
    BY <1>6, <2>1, CurrentFacts DEF TakeMessage
  <2>3. /\ Changes(sender.c) /\ SameUse(sender.c)
        /\ conn'[sender.c].iSendCount = conn[sender.c].iSendCount - 1
    BY <1>6, <2>1, <2>2, Taken DEF TakeMessage
  <2>4. SameUse(c) /\ (Online(c)' <=> Online(c))
    BY <2>3 DEF Changes, SameUse, Online
  <2>5. CASE sender.c = c
    <3>1. conn'[c].iSendCount = conn[c].iSendCount - 1
      BY <2>3, <2>5
    <3>2. conn'[c].iSendCount <= setting.MaxBacklog + 1
      BY <1>1, <1>4, <3>1
    <3>3. ASSUME Online(c) PROVE conn'[c].iSendCount = Cardinality(Backlog(c)')
      <4>1. PICK m \in Msg : m = Current
        BY <2>2
      <4>2. hdr[m] = conn[c].iCurrsequence
        BY <2>1, <2>5, <3>3, <4>1 DEF HeadersKept
      <4>3. Backlog(c)' = Backlog(c) \ {m} /\ m \in Backlog(c)
        BY <1>3, <2>1, <2>2, <2>4, <2>5, <4>1, <4>2 DEF Backlog, SameUse
      <4>4. Cardinality(Backlog(c) \ {m}) = Cardinality(Backlog(c)) - 1
        BY <1>4, <4>3, FS_RemoveElement
      <4> QED BY <1>4, <3>1, <3>3, <4>3, <4>4
    <3> QED BY <2>4, <3>2, <3>3 DEF Goal
  <2>6. CASE sender.c # c
    <3>1. Backlog(c)' = Backlog(c)
      BY <1>3, <2>1, <2>2, <2>4, <2>6 DEF Backlog, SameUse
    <3>2. conn'[c].iSendCount = conn[c].iSendCount
      BY <2>3, <2>6 DEF Changes
    <3> QED BY <1>4, <2>4, <3>1, <3>2 DEF Goal
  <2> QED BY <2>5, <2>6
<1>7. CASE DropStale
  <2>1. /\ sender.pos <= Len(m_MsgSendQueue) /\ UNCHANGED conn
        /\ conn[To(Current)].iCurrsequence # hdr[Current]
    BY <1>7 DEF DropStale
  <2>2. ToSet(m_MsgSendQueue') = ToSet(m_MsgSendQueue) \ {Current}
    BY <1>7, <2>1, CurrentFacts DEF DropStale
  <2>3. Backlog(c)' = Backlog(c)
    BY <1>3, <2>1, <2>2 DEF Backlog
  <2> QED BY <1>4, <2>1, <2>3 DEF Online, Goal
<1>8. CASE Accept(c)
  <2>1. conn'[c].iSendCount = 0 /\ conn'[c].iCurrsequence = conn[c].iCurrsequence + 1
    BY <1>8, Accepted
  <2>2. m_MsgSendQueue' = m_MsgSendQueue
    BY <1>8 DEF Accept, queueVars
  <2>3. ASSUME NEW m \in ToSet(m_MsgSendQueue), To(m) = c
        PROVE hdr[m] # conn[c].iCurrsequence + 1
    <3>1. hdr[m] \in Nat /\ hdr[m] <= conn[c].iCurrsequence
      BY <1>3, <2>3, Types DEF HeadersKept
    <3> QED BY <1>4, <3>1
  <2>4. Backlog(c)' = {}
    BY <1>3, <2>1, <2>2, <2>3 DEF Backlog
  <2>5. Cardinality(Backlog(c)') = 0
    BY <2>4, FS_EmptySet
  <2> QED BY <1>1, <2>1, <2>5 DEF Goal
<1>9. CASE /\ ~Accept(c) /\ ~DropStale /\ ~TakeMessage
           /\ ~\E m \in Msg : msgSend(m) /\ Push(m)
  <2>1. m_MsgSendQueue' = m_MsgSendQueue /\ SameCount(c)
    BY <1>9, QueueSteps, CountSteps
  <2>2. ASSUME Online(c)' PROVE Online(c) /\ Backlog(c)' = Backlog(c)
    <3>1. Online(c) /\ conn'[c].iCurrsequence = conn[c].iCurrsequence
      BY <1>9, <2>2, OnlineBefore
    <3> QED BY <1>3, <2>1, <3>1 DEF Backlog
  <2> QED BY <1>4, <2>1, <2>2 DEF SameCount, Goal
<1> QED BY <1>5, <1>6, <1>7, <1>8, <1>9

\* Which steps move the send thread and the reactor.
LEMMA SenderMoves ==
  ASSUME TypeOK, [Next]_vars
  PROVE  \/ sender' = sender
         \/ SemWait \/ SemInterrupted \/ Lock \/ Unlock \/ TestSequence \/ Skip \/ TakeMessage
         \/ SenderSends \/ SenderFrees \/ SenderClears \/ RaiseThrow \/ Arm
<1> USE DEF threadVars
<1>1. ASSUME NEW m \in Msg, Reply(m) \/ msgSend(m) PROVE sender' = sender
  BY <1>1 DEF Reply, msgSend
<1>2. ASSUME NEW c \in Conn, TimerKicks(c) \/ PeerLeaves(c) \/ Recycle(c) \/ Accept(c)
                             \/ WriteEvent(c) \/ HangupEvent(c)
      PROVE sender' = sender
  BY <1>2 DEF TimerKicks, PeerLeaves, Recycle, Accept, WriteEvent, HangupEvent
<1>3. ASSUME NEW x \in Closers, zdClosesocketProc(x) PROVE sender' = sender
  BY <1>3 DEF zdClosesocketProc
<1>4. DropStale \/ UNCHANGED vars => sender' = sender
  BY DEF DropStale, vars
<1>5. ASSUME \/ Read \/ ReactorCloses \/ HangupWrite \/ ReactorSends \/ Disarm \/ Post
             \/ ReactorFrees \/ ReactorClears \/ LowerThrow
      PROVE sender' = sender
  BY <1>5 DEF Read, ReactorCloses, HangupWrite, ReactorSends, Disarm, Post, ReactorFrees,
         ReactorClears, LowerThrow
<1> QED BY <1>1, <1>2, <1>3, <1>4, <1>5, AllSteps

\* What a step can be for the reactor.
LEMMA ReactorMoves ==
  ASSUME TypeOK, [Next]_vars
  PROVE  \/ reactor' = reactor
         \/ \E c \in Conn : WriteEvent(c) \/ HangupEvent(c)
         \/ Read \/ ReactorCloses \/ HangupWrite \/ ReactorSends \/ Disarm \/ Post
         \/ ReactorFrees \/ ReactorClears \/ LowerThrow
<1> USE DEF threadVars
<1>1. ASSUME NEW m \in Msg, Reply(m) \/ msgSend(m) PROVE reactor' = reactor
  BY <1>1 DEF Reply, msgSend
<1>2. ASSUME NEW c \in Conn, TimerKicks(c) \/ PeerLeaves(c) \/ Recycle(c) \/ Accept(c)
      PROVE reactor' = reactor
  BY <1>2 DEF TimerKicks, PeerLeaves, Recycle, Accept
<1>3. ASSUME NEW x \in Closers, zdClosesocketProc(x) PROVE reactor' = reactor
  BY <1>3 DEF zdClosesocketProc
<1>4. ASSUME \/ SemWait \/ SemInterrupted \/ Lock \/ Unlock \/ DropStale \/ TestSequence
             \/ Skip \/ TakeMessage \/ UNCHANGED vars
      PROVE reactor' = reactor
  BY <1>4 DEF SemWait, SemInterrupted, Lock, Unlock, DropStale, TestSequence, Skip,
              TakeMessage, vars
<1>5. ASSUME SenderSends \/ SenderFrees \/ SenderClears \/ RaiseThrow \/ Arm
      PROVE reactor' = reactor
  BY <1>5 DEF SenderSends, SenderFrees, SenderClears, RaiseThrow, Arm
<1> QED BY <1>1, <1>2, <1>3, <1>4, <1>5, AllSteps

\* Who starts and who ends clearing psendMemPointer.
LEMMA ClearingSteps ==
  ASSUME TypeOK, [Next]_vars, NEW c \in Conn
  PROVE  \/ Clearing(c)' <=> Clearing(c)
         \/ sender.c = c /\ (SenderFrees \/ SenderClears)
         \/ reactor.c = c /\ (ReactorFrees \/ ReactorClears)
<1>1. /\ sender \in [pc : SenderPcs, pos : Nat, c : Conn]
      /\ reactor \in [pc : ReactorPcs, c : Conn, out : BOOLEAN]
  BY Types
<1>2. \/ SenderAt(c, {"clear"})' <=> SenderAt(c, {"clear"})
      \/ sender.c = c /\ (SenderFrees \/ SenderClears)
  <2>1. CASE SenderFrees \/ SenderClears
    BY <1>1, <2>1 DEF SenderFrees, SenderClears, SenderAt
  <2>2. CASE (sender.pc # "clear" /\ sender'.pc # "clear") \/ sender' = sender
    BY <2>2 DEF SenderAt
  <2>3. CASE \/ SemWait \/ SemInterrupted \/ Lock \/ Unlock \/ TestSequence \/ Skip
             \/ TakeMessage \/ SenderSends \/ RaiseThrow \/ Arm
    <3>1. sender.pc # "clear" /\ sender'.pc # "clear"
      BY <1>1, <2>3 DEF SemWait, SemInterrupted, Lock, Unlock, TestSequence, Skip,
                        TakeMessage, SenderSends, RaiseThrow, Arm
    <3> QED BY <2>2, <3>1
  <2> QED BY <2>1, <2>2, <2>3, SenderMoves
<1>3. \/ ReactorAt(c, {"clear"})' <=> ReactorAt(c, {"clear"})
      \/ reactor.c = c /\ (ReactorFrees \/ ReactorClears)
  <2>1. CASE ReactorFrees \/ ReactorClears
    BY <1>1, <2>1 DEF ReactorFrees, ReactorClears, ReactorAt
  <2>2. CASE (reactor.pc # "clear" /\ reactor'.pc # "clear") \/ reactor' = reactor
    BY <2>2 DEF ReactorAt
  <2>3. CASE \/ \E d \in Conn : WriteEvent(d) \/ HangupEvent(d)
             \/ Read \/ ReactorCloses \/ HangupWrite \/ ReactorSends \/ Disarm \/ Post
             \/ LowerThrow
    <3>1. ASSUME NEW d \in Conn, WriteEvent(d) \/ HangupEvent(d)
          PROVE  reactor.pc # "clear" /\ reactor'.pc # "clear"
      BY <3>1 DEF WriteEvent, HangupEvent
    <3>2. ASSUME Read \/ ReactorCloses \/ HangupWrite
          PROVE  reactor.pc # "clear" /\ reactor'.pc # "clear"
      BY <1>1, <3>2 DEF Read, ReactorCloses, HangupWrite, After
    <3>3. ASSUME ReactorSends \/ Disarm \/ Post \/ LowerThrow
          PROVE  reactor.pc # "clear" /\ reactor'.pc # "clear"
      BY <1>1, <3>3 DEF ReactorSends, Disarm, Post, LowerThrow
    <3> QED BY <2>2, <2>3, <3>1, <3>2, <3>3
  <2> QED BY <2>1, <2>2, <2>3, ReactorMoves
<1> QED BY <1>2, <1>3 DEF Clearing

\* The connection is the send thread's alone when it takes a message.
LEMMA TakenAlone ==
  ASSUME TypeOK, MutexKept, HandedOver, TakeMessage, Shared(sender.c)
  PROVE  ~ReactorAt(sender.c, Writing) /\ ~Armed(sender.c)
<1>1. sender.c \in Conn /\ PassedOn(sender.c) /\ SenderAt(sender.c, {"throw"})
      /\ ~(conn[sender.c].iThrowsendCount > 0)
  BY SenderPlace DEF HandedOver, TakeMessage, GivenToReactor, SenderAt
<1>2. ~WorkerQueues(sender.c)
  BY <1>1 DEF MutexKept, WorkerQueues, SenderAt
<1> QED BY <1>1, <1>2 DEF PassedOn

\* No step leaves a pointer to a message that another thread frees or queues.
LEMMA PointersStep ==
  ASSUME TypeOK, MutexKept, QueueKept, PointersKept, HandedOver, [Next]_vars
  PROVE  PointersKept'
<1> SUFFICES ASSUME NEW c \in Conn, conn'[c].psendMemPointer # NoMsg
             PROVE  Points(c, conn[c].psendMemPointer)'
  BY DEF PointersKept
<1>1. /\ sender.c \in Conn /\ reactor.c \in Conn /\ PassedOn(c) /\ mem \in [Msg -> MemType]
      /\ sender \in [pc : SenderPcs, pos : Nat, c : Conn]
      /\ reactor \in [pc : ReactorPcs, c : Conn, out : BOOLEAN]
      /\ \A d \in Conn : conn[d].psendMemPointer \in Msg \cup {NoMsg}
  BY SenderPlace, ReactorPlace, Types, Fields DEF HandedOver
<1>2. ~Accept(c) /\ ~Recycle(c) /\ ~(SenderClears /\ sender.c = c)
      /\ ~(ReactorClears /\ reactor.c = c)
  <2>1. 0 \in Int /\ conn[c].iThrowsendCount \in Int
    <3>1. conn[c].iThrowsendCount \in Int
      BY Fields
    <3> QED BY <3>1
  <2>2. ~(SenderClears /\ sender.c = c)
    BY <2>1, PointerCleared DEF SenderClears
  <2>3. ~(ReactorClears /\ reactor.c = c)
    BY <2>1, PointerCleared DEF ReactorClears
  <2> QED BY <2>2, <2>3, Accepted, Recycled
<1>3. Shared(c)' => Shared(c)
  BY <1>2, StaysUsed, OtherSteps DEF Shared
<1>4. CASE SamePointers(c)
  <2>1. PICK p \in Msg : p = conn[c].psendMemPointer /\ p = conn'[c].psendMemPointer
    BY <1>1, <1>4 DEF SamePointers
  <2>2. /\ mem[p] \notin {"none", "built"} /\ To(p) = c /\ p \notin ToSet(m_MsgSendQueue)
        /\ Shared(c) => mem[p] = IF Clearing(c) THEN "freed" ELSE "sent"
    BY <2>1, NoMsgAssumption DEF PointersKept, Points
  <2>3. \A d \in Conn : conn[d].psendMemPointer = p => d = c
    BY <2>1, <2>2, NoMsgAssumption DEF PointersKept, Points
  <2>4. p \notin ToSet(m_MsgSendQueue)'
    <3>1. CASE UNCHANGED m_MsgSendQueue
      BY <2>2, <3>1
    <3>2. CASE (DropStale \/ TakeMessage) /\ m_MsgSendQueue' = Rest
      <4>1. sender.pos <= Len(m_MsgSendQueue)
        BY <3>2 DEF DropStale, TakeMessage, QueueKept
      <4> QED BY <2>2, <3>2, <4>1, CurrentFacts
    <3>3. ASSUME NEW m \in Msg, msgSend(m), Push(m) PROVE p \notin ToSet(m_MsgSendQueue)'
      <4>1. m # p /\ m \notin ToSet(m_MsgSendQueue)
        BY <2>2, <3>3 DEF msgSend, QueueKept
      <4> QED BY <2>2, <3>3, <4>1, AppendFacts, Types DEF Push, QueueKept
    <3> QED BY <3>1, <3>2, <3>3, QueueSteps
  <2>5. To(p)' = c
    BY <2>2, HeaderStays
  <2>6. mem'[p] \notin {"none", "built"}
    BY <2>2, MemSteps
  <2>7. Shared(c)' => mem'[p] = IF Clearing(c)' THEN "freed" ELSE "sent"
    <3>1. CASE SenderFrees /\ sender.c = c
      <4>1. SenderAt(c, {"free"}) /\ Clearing(c)' /\ mem' = Freed(p)
        BY <1>1, <2>1, <3>1 DEF SenderFrees, SenderAt, Clearing
      <4>2. ASSUME Shared(c) PROVE ~Clearing(c)
        BY <1>1, <4>1, <4>2 DEF PassedOn, SenderAt, ReactorAt, Sending, Writing, Clearing
      <4> QED BY <1>3, <2>2, <4>1, <4>2 DEF Freed
    <3>2. CASE ReactorFrees /\ reactor.c = c
      <4>1. ReactorAt(c, {"free"}) /\ Clearing(c)' /\ mem' = Freed(p)
        BY <1>1, <2>1, <3>2 DEF ReactorFrees, ReactorAt, Clearing
      <4>2. ASSUME Shared(c) PROVE ~Clearing(c)
        BY <1>1, <4>1, <4>2 DEF PassedOn, SenderAt, ReactorAt, Sending, Writing, Clearing
      <4> QED BY <1>3, <2>2, <4>1, <4>2 DEF Freed
    <3>3. CASE ~(SenderFrees /\ sender.c = c) /\ ~(ReactorFrees /\ reactor.c = c)
      <4>1. Clearing(c)' <=> Clearing(c)
        BY <1>2, <3>3, ClearingSteps
      <4>2. ~(DropStale /\ p = Current)
        BY <2>2, CurrentFacts DEF DropStale
      <4>3. mem'[p] = mem[p]
        BY <1>1, <1>2, <2>2, <2>3, <3>3, <4>2, MemSteps
      <4> QED BY <1>3, <2>2, <4>1, <4>3
    <3> QED BY <3>1, <3>2, <3>3
  <2> QED BY <2>1, <2>4, <2>5, <2>6, <2>7 DEF Points
<1>5. CASE TakeMessage /\ sender.c = c
  <2>1. /\ sender.pos <= Len(m_MsgSendQueue) /\ To(Current) = c
        /\ UNCHANGED <<mem, reactor, setting>> /\ sender'.pc = "send"
    BY <1>1, <1>5 DEF TakeMessage, QueueKept
  <2>2. PICK p \in Msg : p = Current
    BY <2>1, CurrentFacts
  <2>3. conn'[c].psendMemPointer = p
    BY <1>5, <2>2, Taken DEF TakeMessage
  <2>4. mem'[p] = "sent" /\ To(p)' = c /\ p \notin ToSet(m_MsgSendQueue)'
    BY <1>5, <2>1, <2>2, CurrentFacts DEF TakeMessage, To
  <2>5. Shared(c)' => ~Clearing(c)'
    BY <1>3, <1>5, <2>1, TakenAlone DEF Clearing, SenderAt, ReactorAt, Writing
  <2> QED BY <2>3, <2>4, <2>5 DEF Points
<1> QED BY <1>2, <1>4, <1>5, PointerSteps

\* A connection with which only the list of the queue, or nothing, is done, from which a
\* thread goes, or of which the client leaves.
LEMMA Untouched ==
  ASSUME NEW c \in Conn, PassedOn(c), setting' = setting,
         SameUse(c), SamePointers(c), SameThrow(c), SameEvents(c),
         peer'[c] = "there" => peer[c] = "there",
         sender' = sender \/ ~SenderAt(c, Sending \cup {"throw"})',
         reactor' = reactor \/ ~ReactorAt(c, Writing)',
         WorkerQueues(c) => WorkerQueues(c)'
  PROVE  PassedOn(c)'
<1>1. /\ Online(c)' <=> Online(c)
      /\ Shared(c)' <=> Shared(c)
      /\ Armed(c)' => Armed(c)
      /\ conn'[c].fd = conn[c].fd /\ conn'[c].iThrowsendCount = conn[c].iThrowsendCount
      /\ conn'[c].psendMemPointer = conn[c].psendMemPointer
      /\ conn'[c].psendbuf = conn[c].psendbuf
  BY DEF SameUse, SamePointers, SameThrow, SameEvents, Online, Shared, Armed
<1>2. /\ SenderAt(c, Sending)' => SenderAt(c, Sending)
      /\ SenderAt(c, Sending \ {"clear"})' => SenderAt(c, Sending \ {"clear"})
      /\ SenderAt(c, {"arm"})' => SenderAt(c, {"arm"})
      /\ SenderAt(c, {"throw"})' => SenderAt(c, {"throw"})
  BY DEF SenderAt, Sending
<1>3. /\ ReactorAt(c, Writing)' => ReactorAt(c, Writing)
      /\ ReactorAt(c, {"write", "disarm", "post", "free"})'
           => ReactorAt(c, {"write", "disarm", "post", "free"})
      /\ ReactorAt(c, {"post", "free", "clear", "lower"})'
           => ReactorAt(c, {"post", "free", "clear", "lower"})
      /\ ReactorAt(c, {"lower"})' => ReactorAt(c, {"lower"})
  BY DEF ReactorAt, Writing
<1> HIDE DEF SenderAt, ReactorAt, Armed, Shared, Online
<1> QED BY <1>1, <1>2, <1>3 DEF PassedOn

\* A step for another connection leaves this one alone.
LEMMA SameConn ==
  ASSUME NEW c \in Conn, conn' = conn \/ \E d \in Conn : d # c /\ Changes(d)
  PROVE  SameUse(c) /\ SamePointers(c) /\ SameThrow(c) /\ SameEvents(c)
BY DEF SameUse, SamePointers, SameThrow, SameEvents, Changes

\* Send thread and reactor keep passing the sending state on.
LEMMA HandedBySender ==
  ASSUME TypeOK, MutexKept, QueueKept, ConnectionsKept, HeadersKept, HandedOver,
         \/ SemWait \/ SemInterrupted \/ Lock \/ Unlock \/ DropStale \/ TestSequence \/ Skip
         \/ TakeMessage \/ SenderSends \/ SenderFrees \/ SenderClears \/ RaiseThrow \/ Arm,
         NEW c \in Conn
  PROVE  PassedOn(c)'
<1> USE DEF threadVars
<1>1. /\ sender.c \in Conn /\ PassedOn(c) /\ conn[c].iThrowsendCount \in Int
      /\ sender \in [pc : SenderPcs, pos : Nat, c : Conn]
  BY SenderPlace, Types, Fields DEF HandedOver
<1>2. CASE SemWait \/ SemInterrupted \/ Lock \/ Unlock \/ Skip \/ DropStale
  <2>1. /\ UNCHANGED <<setting, conn, reactor, closer, peer>>
        /\ sender' = sender \/ sender'.pc \notin Sending \cup {"throw"}
    BY <1>1, <1>2 DEF SemWait, SemInterrupted, Lock, Unlock, Skip, DropStale, Sending
  <2> QED BY <1>1, <2>1, SameConn, Untouched DEF SenderAt, WorkerQueues
<1>3. CASE TestSequence
  <2>1. /\ UNCHANGED <<setting, conn, reactor, closer, peer>>
        /\ sender'.pc = "throw" /\ sender'.c = To(Current) /\ sender.pos <= Len(m_MsgSendQueue)
        /\ conn[To(Current)].iCurrsequence = hdr[Current]
    BY <1>1, <1>3 DEF TestSequence
  <2>2. Online(To(Current))
    <3>1. Current \in Msg /\ mem[Current] = "sent"
      BY <2>1, CurrentFacts
    <3> QED BY <2>1, <3>1 DEF HeadersKept
  <2>3. SameUse(c) /\ SamePointers(c) /\ SameThrow(c) /\ SameEvents(c)
    BY <2>1, SameConn
  <2>4. CASE To(Current) # c
    BY <1>1, <2>1, <2>3, <2>4, Untouched DEF SenderAt, WorkerQueues
  <2>5. CASE To(Current) = c
    BY <1>1, <2>1, <2>2, <2>3, <2>5 DEF PassedOn, Armed, SenderAt, ReactorAt, Sending, Writing,
       Online, WorkerQueues, Shared, SameUse, SamePointers, SameEvents, SameThrow
  <2> QED BY <2>4, <2>5
<1>4. CASE TakeMessage
  <2>1. /\ UNCHANGED <<setting, reactor, closer, peer>>
        /\ sender'.pc = "send" /\ sender'.c = sender.c
        /\ conn' = [conn EXCEPT ![sender.c] = Loaded(@)]
        /\ sender.pos <= Len(m_MsgSendQueue)
    BY <1>1, <1>4 DEF TakeMessage, QueueKept
  <2>2. Current \in Msg
    BY <2>1, CurrentFacts
  <2>3. /\ Changes(sender.c) /\ SameUse(sender.c) /\ SameThrow(sender.c)
        /\ SameEvents(sender.c)
        /\ conn'[sender.c].psendMemPointer = Current /\ conn'[sender.c].psendbuf = Current
    BY <1>1, <2>1, <2>2, Taken
  <2>4. CASE sender.c # c
    BY <1>1, <2>1, <2>3, <2>4, SameConn, Untouched DEF SenderAt, WorkerQueues
  <2>5. CASE sender.c = c
    <3>1. Shared(c) => ~ReactorAt(c, Writing) /\ ~Armed(c)
      BY <1>4, <2>5, TakenAlone
    <3>2. conn'[c].psendMemPointer = conn'[c].psendbuf /\ conn'[c].psendbuf # NoMsg
      BY <2>2, <2>3, <2>5, NoMsgAssumption
    <3> QED BY <1>1, <2>1, <2>3, <2>5, <3>1, <3>2
        DEF PassedOn, Armed, SenderAt, ReactorAt, Sending, Writing, Online, WorkerQueues, Shared,
            SameUse, SameEvents, SameThrow
  <2> QED BY <2>4, <2>5
<1>5. CASE SenderSends
  <2>1. /\ UNCHANGED <<setting, reactor, closer, peer>> /\ sender.pc = "send"
        /\ sender'.pc \in {"free", "raise"} /\ sender'.c = sender.c
        /\ Changes(sender.c) /\ SameUse(sender.c) /\ SamePointers(sender.c)
        /\ SameThrow(sender.c) /\ SameEvents(sender.c)
    BY <1>1, <1>5, Sent DEF SenderSends
  <2>2. CASE sender.c # c
    BY <1>1, <2>1, <2>2, SameConn, Untouched DEF SenderAt, WorkerQueues
  <2>3. CASE sender.c = c
    BY <1>1, <2>1, <2>3
       DEF PassedOn, Armed, SenderAt, ReactorAt, Sending, Writing, Online, WorkerQueues, Shared,
           SameUse, SamePointers, SameEvents, SameThrow
  <2> QED BY <2>2, <2>3
<1>6. CASE SenderFrees
  <2>1. /\ UNCHANGED <<setting, conn, reactor, closer, peer>> /\ sender.pc = "free"
        /\ sender'.pc = "clear" /\ sender'.c = sender.c
    BY <1>1, <1>6 DEF SenderFrees
  <2> QED BY <1>1, <2>1
      DEF PassedOn, Armed, SenderAt, ReactorAt, Sending, Writing, Online, WorkerQueues, Shared
<1>7. CASE SenderClears
  <2>0. 0 \in Int
    OBVIOUS
  <2>1. /\ UNCHANGED <<setting, reactor, closer, peer>> /\ sender.pc = "clear"
        /\ sender'.pc = "seq" /\ sender'.c = sender.c
        /\ Changes(sender.c) /\ SameUse(sender.c) /\ SameEvents(sender.c)
        /\ conn'[sender.c].psendbuf = conn[sender.c].psendbuf
        /\ conn'[sender.c].psendMemPointer = NoMsg
        /\ conn'[sender.c].iThrowsendCount = 0
    BY <1>1, <1>7, <2>0, PointerCleared DEF SenderClears
  <2>2. CASE sender.c # c
    BY <1>1, <2>1, <2>2, SameConn, Untouched DEF SenderAt, WorkerQueues
  <2>3. CASE sender.c = c
    BY <1>1, <2>1, <2>3
       DEF PassedOn, Armed, SenderAt, ReactorAt, Sending, Writing, Online, WorkerQueues, Shared,
           SameUse, SameEvents
  <2> QED BY <2>2, <2>3
<1>8. CASE RaiseThrow
  <2>0. conn[sender.c].iThrowsendCount \in Int /\ conn[sender.c].iThrowsendCount + 1 \in Int
    <3>1. conn[sender.c].iThrowsendCount \in Int
      BY <1>1, Fields
    <3> QED BY <3>1
  <2>1. /\ UNCHANGED <<setting, reactor, closer, peer>> /\ sender.pc = "raise"
        /\ sender'.pc = "arm" /\ sender'.c = sender.c
        /\ Changes(sender.c) /\ SameUse(sender.c) /\ SamePointers(sender.c)
        /\ SameEvents(sender.c)
        /\ conn'[sender.c].iThrowsendCount = conn[sender.c].iThrowsendCount + 1
    BY <1>1, <1>8, <2>0, ThrowSet DEF RaiseThrow
  <2>2. CASE sender.c # c
    BY <1>1, <2>1, <2>2, SameConn, Untouched DEF SenderAt, WorkerQueues
  <2>3. CASE sender.c = c
    BY <1>1, <2>1, <2>3
       DEF PassedOn, Armed, SenderAt, ReactorAt, Sending, Writing, Online, WorkerQueues, Shared,
           SameUse, SamePointers, SameEvents
  <2> QED BY <2>2, <2>3
<1>9. CASE Arm
  <2>1. /\ UNCHANGED <<setting, reactor, closer, peer>> /\ sender.pc = "arm"
        /\ sender'.pc = "seq" /\ sender'.c = sender.c
        /\ Changes(sender.c) /\ SameUse(sender.c) /\ SamePointers(sender.c)
        /\ SameThrow(sender.c)
    BY <1>1, <1>9, EventsSet DEF Arm
  <2>2. CASE sender.c # c
    BY <1>1, <2>1, <2>2, SameConn, Untouched DEF SenderAt, WorkerQueues
  <2>3. CASE sender.c = c
    <3>1. Armed(c)' => conn[c].fd /\ peer[c] = "there"
      BY <2>1, <2>3 DEF Armed, SameUse
    <3> QED BY <1>1, <2>1, <2>3, <3>1
        DEF PassedOn, Armed, SenderAt, ReactorAt, Sending, Writing, Online, WorkerQueues, Shared,
            SameUse, SamePointers, SameThrow
  <2> QED BY <2>2, <2>3
<1> QED BY <1>2, <1>3, <1>4, <1>5, <1>6, <1>7, <1>8, <1>9

\* The reactor keeps passing the sending state on.
LEMMA HandedByReactor ==
  ASSUME TypeOK, ConnectionsKept, HandedOver,
         \/ \E d \in Conn : WriteEvent(d) \/ HangupEvent(d)
         \/ Read \/ ReactorCloses \/ HangupWrite \/ ReactorSends \/ Disarm \/ Post
         \/ ReactorFrees \/ ReactorClears \/ LowerThrow,
         NEW c \in Conn
  PROVE  PassedOn(c)'
<1> USE DEF threadVars
<1>1. /\ reactor.c \in Conn /\ PassedOn(c) /\ conn[c].iThrowsendCount \in Int
      /\ reactor \in [pc : ReactorPcs, c : Conn, out : BOOLEAN]
      /\ conn[reactor.c].iThrowsendCount \in Int
      /\ peer \in [Conn -> {"there", "leaving", "gone"}]
  BY ReactorPlace, Types, Fields DEF HandedOver
<1>0. conn[reactor.c].iThrowsendCount - 1 \in Int
  BY <1>1
<1>2. ASSUME NEW d \in Conn, WriteEvent(d) PROVE PassedOn(c)'
  <2>1. /\ UNCHANGED <<setting, conn, sender, closer, peer>>
        /\ reactor'.pc = "write" /\ reactor'.c = d /\ Armed(d) /\ Online(d) /\ Shared(d)
    BY <1>2 DEF WriteEvent, Armed, Shared, ConnectionsKept
  <2>2. CASE d # c
    BY <1>1, <2>1, <2>2, SameConn, Untouched DEF ReactorAt, WorkerQueues
  <2>3. CASE d = c
    BY <1>1, <2>1, <2>3
       DEF PassedOn, Armed, SenderAt, ReactorAt, Sending, Writing, Online, WorkerQueues, Shared
  <2> QED BY <2>2, <2>3
<1>3. ASSUME NEW d \in Conn, HangupEvent(d) PROVE PassedOn(c)'
  <2>1. /\ UNCHANGED <<setting, conn, sender, closer, peer>> /\ reactor'.pc = "read"
    BY <1>3 DEF HangupEvent
  <2> QED BY <1>1, <2>1, SameConn, Untouched DEF ReactorAt, Writing, WorkerQueues
<1>4. CASE Read
  <2>1. /\ UNCHANGED <<setting, conn, sender, closer>> /\ reactor'.pc \in {"out", "fd"}
        /\ (peer'[c] = "there" => peer[c] = "there")
    BY <1>1, <1>4 DEF Read
  <2> QED BY <1>1, <2>1, SameConn, Untouched DEF ReactorAt, Writing, WorkerQueues
<1>5. CASE ReactorCloses
  <2>1. /\ UNCHANGED <<setting, sender, closer, peer>>
        /\ reactor.pc \in {"fd", "throw", "less", "recy"} /\ reactor'.pc \in {"throw", "less", "recy", "out"}
        /\ conn' = [conn EXCEPT ![reactor.c] = CloseStep(reactor.pc, @)]
    BY <1>1, <1>5 DEF ReactorCloses, After
  <2>2. /\ Changes(reactor.c) /\ SamePointers(reactor.c) /\ SameEvents(reactor.c)
        /\ conn'[reactor.c].fd = IF reactor.pc = "fd" THEN FALSE ELSE conn[reactor.c].fd
        /\ conn'[reactor.c].list = IF reactor.pc = "recy" /\ Online(reactor.c)
                                   THEN "recy" ELSE conn[reactor.c].list
    BY <1>1, <2>1, Closing
  <2>3. CASE reactor.c # c
    BY <1>1, <2>1, <2>2, <2>3, SameConn, Untouched DEF ReactorAt, WorkerQueues, Writing
  <2>4. CASE reactor.c = c
    <3>1. peer'[c] # "there" /\ ~ReactorAt(c, Writing)'
      BY <2>1, <2>4 DEF ConnectionsKept, HangingUp, ReactorAt, Writing
    <3>2. ~ReactorAt(c, {"write", "disarm", "post", "free"})' /\ ~ReactorAt(c, {"lower"})'
          /\ ~ReactorAt(c, {"post", "free", "clear", "lower"})'
      BY <2>1 DEF ReactorAt
    <3>3. Shared(c)' => Shared(c)
      BY <2>1, <2>2, <2>4, Fields DEF Shared
    <3> QED BY <1>1, <2>1, <2>2, <2>4, <3>1, <3>2, <3>3
        DEF PassedOn, Armed, SenderAt, SamePointers, SameEvents
  <2> QED BY <2>3, <2>4
<1>6. CASE HangupWrite
  <2>1. /\ UNCHANGED <<setting, sender, closer, peer>>
        /\ reactor.pc = "out" /\ reactor'.pc = "idle" /\ peer[reactor.c] # "there"
    BY <1>1, <1>6 DEF HangupWrite, ConnectionsKept, HangingUp
  <2>2. conn' = conn \/ (Changes(reactor.c) /\ SameUse(reactor.c) /\ SamePointers(reactor.c)
                         /\ SameEvents(reactor.c))
    BY <1>0, <1>1, <1>6, ThrowSet DEF HangupWrite
  <2>3. CASE conn' = conn \/ reactor.c # c
    BY <1>1, <2>1, <2>2, <2>3, SameConn, Untouched DEF ReactorAt, WorkerQueues, Writing
  <2>4. CASE reactor.c = c /\ conn' # conn
    <3>1. ~ReactorAt(c, {"write", "disarm", "post", "free"})' /\ ~ReactorAt(c, {"lower"})'
          /\ ~ReactorAt(c, {"post", "free", "clear", "lower"})' /\ ~ReactorAt(c, Writing)'
      BY <2>1 DEF ReactorAt, Writing
    <3> QED BY <1>1, <2>1, <2>2, <2>4, <3>1
        DEF PassedOn, Armed, SenderAt, SamePointers, SameEvents, SameUse, Shared, Online
  <2> QED BY <2>3, <2>4
<1>7. CASE ReactorSends
  <2>1. /\ UNCHANGED <<setting, sender, closer, peer>> /\ reactor.pc = "write"
        /\ reactor'.pc \in {"disarm", "post", "idle"} /\ reactor'.c = reactor.c
        /\ (reactor'.pc = "post" => ~conn[reactor.c].fd \/ peer[reactor.c] # "there")
        /\ Changes(reactor.c) /\ SameUse(reactor.c) /\ SamePointers(reactor.c)
        /\ SameThrow(reactor.c) /\ SameEvents(reactor.c)
    BY <1>1, <1>7, Sent DEF ReactorSends, SendFails
  <2>2. CASE reactor.c # c
    BY <1>1, <2>1, <2>2, SameConn, Untouched DEF ReactorAt, WorkerQueues
  <2>3. CASE reactor.c = c
    BY <1>1, <2>1, <2>3
       DEF PassedOn, Armed, SenderAt, ReactorAt, Sending, Writing, Online, WorkerQueues, Shared,
           SameUse, SamePointers, SameEvents, SameThrow
  <2> QED BY <2>2, <2>3
<1>8. CASE Disarm
  <2>1. /\ UNCHANGED <<setting, sender, closer, peer>> /\ reactor.pc = "disarm"
        /\ reactor'.pc = "post" /\ reactor'.c = reactor.c
        /\ Changes(reactor.c) /\ SameUse(reactor.c) /\ SamePointers(reactor.c)
        /\ SameThrow(reactor.c)
        /\ conn'[reactor.c].EPOLLOUT = IF conn[reactor.c].fd THEN FALSE
                                       ELSE conn[reactor.c].EPOLLOUT
    BY <1>1, <1>8, EventsSet DEF Disarm
  <2>2. CASE reactor.c # c
    BY <1>1, <2>1, <2>2, SameConn, Untouched DEF ReactorAt, WorkerQueues
  <2>3. CASE reactor.c = c
    <3>1. ~Armed(c)'
      BY <2>1, <2>3 DEF Armed, SameUse
    <3> QED BY <1>1, <2>1, <2>3, <3>1
       DEF PassedOn, SenderAt, ReactorAt, Sending, Writing, Online, WorkerQueues, Shared,
           SameUse, SamePointers, SameThrow
  <2> QED BY <2>2, <2>3
<1>9. CASE Post \/ ReactorFrees
  <2>1. /\ UNCHANGED <<setting, conn, sender, closer, peer>> /\ reactor'.c = reactor.c
        /\ reactor.pc \in {"post", "free"} /\ reactor'.pc \in {"free", "clear"}
        /\ (reactor'.pc = "free" => reactor.pc = "post")
    BY <1>1, <1>9 DEF Post, ReactorFrees
  <2> QED BY <1>1, <2>1
      DEF PassedOn, Armed, SenderAt, ReactorAt, Sending, Writing, Online, WorkerQueues, Shared
<1>10. CASE ReactorClears
  <2>1. /\ UNCHANGED <<setting, sender, closer, peer>> /\ reactor.pc = "clear"
        /\ reactor'.pc = "lower" /\ reactor'.c = reactor.c
        /\ Changes(reactor.c) /\ SameUse(reactor.c) /\ SameEvents(reactor.c)
        /\ conn'[reactor.c].psendbuf = conn[reactor.c].psendbuf
        /\ conn'[reactor.c].psendMemPointer = NoMsg
        /\ conn'[reactor.c].iThrowsendCount = conn[reactor.c].iThrowsendCount
    BY <1>1, <1>10, PointerCleared DEF ReactorClears
  <2>2. CASE reactor.c # c
    BY <1>1, <2>1, <2>2, SameConn, Untouched DEF ReactorAt, WorkerQueues
  <2>3. CASE reactor.c = c
    BY <1>1, <2>1, <2>3
       DEF PassedOn, Armed, SenderAt, ReactorAt, Sending, Writing, Online, WorkerQueues, Shared,
           SameUse, SameEvents
  <2> QED BY <2>2, <2>3
<1>11. CASE LowerThrow
  <2>0. conn' = [conn EXCEPT ![reactor.c].iThrowsendCount = conn[reactor.c].iThrowsendCount - 1]
    BY <1>1, <1>11, Types DEF LowerThrow
  <2>1. /\ UNCHANGED <<setting, sender, closer, peer>> /\ reactor.pc = "lower"
        /\ reactor'.pc = "idle" /\ reactor'.c = reactor.c
    BY <1>1, <1>11 DEF LowerThrow
  <2>4. /\ Changes(reactor.c) /\ SameUse(reactor.c) /\ SamePointers(reactor.c)
        /\ SameEvents(reactor.c)
        /\ conn'[reactor.c].iThrowsendCount = conn[reactor.c].iThrowsendCount - 1
    <3>1. PICK d \in Conn, n \in Int : d = reactor.c /\ n = conn[d].iThrowsendCount - 1
      BY <1>0, <1>1
    <3>2. conn' = [conn EXCEPT ![d].iThrowsendCount = n]
      BY <2>0, <3>1
    <3>3. /\ Changes(d) /\ SameUse(d) /\ SamePointers(d) /\ SameEvents(d)
          /\ conn'[d].iThrowsendCount = n
      BY <3>2, ThrowSet
    <3> QED BY <3>1, <3>3
  <2>2. CASE reactor.c # c
    BY <1>1, <2>1, <2>2, <2>4, SameConn, Untouched DEF ReactorAt, WorkerQueues
  <2>3. CASE reactor.c = c
    <3>1. conn[c].fd => Online(c) /\ ~WorkerQueues(c)
      BY DEF ConnectionsKept, WorkerQueues, Closers
    <3> QED BY <1>1, <2>1, <2>3, <2>4, <3>1
       DEF PassedOn, Armed, SenderAt, ReactorAt, Sending, Writing, Online, WorkerQueues, Shared,
           SameUse, SamePointers, SameEvents
  <2> QED BY <2>2, <2>3
<1> QED BY <1>2, <1>3, <1>4, <1>5, <1>6, <1>7, <1>8, <1>9, <1>10, <1>11

\* A thread that closes takes the sending state from nobody who still uses it.
LEMMA HandedByClosers ==
  ASSUME TypeOK, MutexKept, ConnectionsKept, HandedOver,
         NEW x \in Closers, zdClosesocketProc(x), NEW c \in Conn
  PROVE  PassedOn(c)'
<1> DEFINE d == closer[x].c
<1>1. /\ d \in Conn /\ PassedOn(c) /\ conn[c].iThrowsendCount \in Int
      /\ closer[x].pc \in {"fd", "throw", "less", "recy"}
      /\ closer'[x].pc = After(closer[x].pc, conn[closer[x].c]) /\ closer'[x].c = d
      /\ \A y \in Closers : y # x => closer'[y] = closer[y]
      /\ UNCHANGED <<setting, sender, reactor, peer>>
      /\ conn' = [conn EXCEPT ![d] = CloseStep(closer[x].pc, @)]
      /\ closer \in [Closers -> [pc : Step, c : Conn]] /\ "worker" \in Closers
      /\ closer' \in [Closers -> [pc : Step, c : Conn]]
  <2>1. closer' \in [Closers -> [pc : Step, c : Conn]]
    <3>1. After(closer[x].pc, conn[closer[x].c]) \in Step
      BY CloserMoves DEF After, Step
    <3> QED BY <3>1, CloserPlace DEF zdClosesocketProc
  <2> QED BY <2>1, CloserMoves, Fields, Types DEF HandedOver, zdClosesocketProc, Closers
<1>2. /\ Changes(d) /\ SamePointers(d) /\ SameEvents(d)
      /\ conn'[d].fd = IF closer[x].pc = "fd" THEN FALSE ELSE conn[d].fd
      /\ conn'[d].iThrowsendCount =
           IF closer[x].pc = "less" THEN conn[d].iThrowsendCount - 1 ELSE conn[d].iThrowsendCount
      /\ conn'[d].list = IF closer[x].pc = "recy" /\ Online(d) THEN "recy" ELSE conn[d].list
  BY <1>1, Closing
<1> HIDE DEF d
<1>3. CASE c # d
  <2>1. WorkerQueues(c) => WorkerQueues(c)'
    BY <1>1, <1>3 DEF WorkerQueues, d
  <2> QED BY <1>1, <1>2, <1>3, <2>1, SameConn, Untouched
<1>4. CASE c = d
  <2>1. ~conn'[c].fd
    BY <1>1, <1>2, <1>4 DEF ConnectionsKept, d
  <2>2. Shared(c)' => Shared(c) /\ "timer" \notin setting.ends
    BY <1>1, <2>1 DEF Shared
  <2>3. CASE x = "worker"
    <3>1. sender.pc \notin Sending \cup {"throw"} /\ sender'.pc \notin Sending \cup {"throw"}
      BY <1>1, <2>3 DEF MutexKept, Sending
    <3>2. ASSUME conn[c].iThrowsendCount > 0 \/ WorkerQueues(c) \/ ~Online(c)
          PROVE  conn'[c].iThrowsendCount > 0 \/ WorkerQueues(c)' \/ ~Online(c)'
      <4>1. CASE closer[x].pc \in {"fd", "throw"}
        BY <1>1, <1>2, <1>4, <2>3, <3>2, <4>1 DEF WorkerQueues, Online
      <4>2. CASE closer[x].pc = "less"
        <5>1. closer'["worker"].pc = "recy" /\ closer'["worker"].c = c
          BY <1>1, <1>4, <2>3, <4>2 DEF After
        <5>2. closer'["worker"] \in [pc : Step, c : Conn]
          BY <1>1
        <5>3. WorkerQueues(c)'
          BY <5>1, <5>2 DEF WorkerQueues
        <5> QED BY <5>3
      <4>3. CASE closer[x].pc = "recy"
        BY <1>2, <1>4, <4>3 DEF Online
      <4> QED BY <1>1, <4>1, <4>2, <4>3
    <3> QED BY <1>1, <1>2, <1>4, <2>1, <2>2, <3>1, <3>2
        DEF PassedOn, Armed, SenderAt, ReactorAt, SamePointers, SameEvents, Sending
  <2>4. CASE x # "worker"
    <3>1. ~Shared(c)'
      BY <1>1, <2>2, <2>4 DEF MutexKept, Closers
    <3> QED BY <1>1, <1>2, <1>4, <2>1, <3>1
        DEF PassedOn, Armed, SenderAt, ReactorAt, SamePointers, SameEvents
  <2> QED BY <2>3, <2>4
<1> QED BY <1>3, <1>4

\* Every step keeps the agreement about the sending state.
LEMMA HandedStep ==
  ASSUME TypeOK, MutexKept, QueueKept, ConnectionsKept, HeadersKept, HandedOver, [Next]_vars
  PROVE  HandedOver'
<1> SUFFICES ASSUME NEW c \in Conn PROVE PassedOn(c)'
  BY DEF HandedOver
<1> USE DEF threadVars
<1>1. PassedOn(c) /\ closer \in [Closers -> [pc : Step, c : Conn]]
      /\ peer \in [Conn -> {"there", "leaving", "gone"}]
      /\ "worker" \in Closers /\ "timer" \in Closers
  BY Types DEF HandedOver, Closers
<1>2. ASSUME UNCHANGED <<setting, conn, sender, reactor>>,
             peer'[c] = "there" => peer[c] = "there", WorkerQueues(c) => WorkerQueues(c)'
      PROVE  PassedOn(c)'
  BY <1>1, <1>2, SameConn, Untouched
<1>3. ASSUME NEW m \in Msg, Reply(m) PROVE PassedOn(c)'
  BY <1>2, <1>3 DEF Reply, WorkerQueues
<1>4. ASSUME NEW m \in Msg, msgSend(m) PROVE PassedOn(c)'
  <2>1. UNCHANGED <<setting, sender, reactor, peer>> /\ ~WorkerQueues(c)
    BY <1>4 DEF msgSend, MutexFree, MutexKept, WorkerQueues
  <2>2. CASE Discard(m) \/ CutOff(m)
    BY <1>2, <2>1, <2>2 DEF Discard, CutOff
  <2>3. CASE Push(m)
    <3>1. To(m) \in Conn
      BY <1>4, SettingFacts DEF msgSend, QueueKept
    <3>2. /\ Changes(To(m)) /\ SameUse(To(m)) /\ SamePointers(To(m)) /\ SameThrow(To(m))
          /\ SameEvents(To(m))
      BY <2>3, <3>1, Counted DEF Push
    <3>3. SameUse(c) /\ SamePointers(c) /\ SameThrow(c) /\ SameEvents(c)
      <4>1. CASE To(m) = c
        BY <3>2, <4>1
      <4>2. CASE To(m) # c
        BY <3>1, <3>2, <4>2, SameConn
      <4> QED BY <4>1, <4>2
    <3> QED BY <1>1, <2>1, <3>3, Untouched
  <2> QED BY <1>4, <2>2, <2>3 DEF msgSend
<1>5. ASSUME NEW d \in Conn, TimerKicks(d) \/ PeerLeaves(d) PROVE PassedOn(c)'
  <2>1. UNCHANGED <<setting, conn, sender, reactor>> /\ closer'["worker"] = closer["worker"]
    BY <1>1, <1>5 DEF TimerKicks, PeerLeaves
  <2>2. peer'[c] = "there" => peer[c] = "there"
    BY <1>1, <1>5 DEF TimerKicks, PeerLeaves
  <2> QED BY <1>2, <2>1, <2>2 DEF WorkerQueues
<1>6. ASSUME NEW d \in Conn, Recycle(d) PROVE PassedOn(c)'
  <2>1. Changes(d) /\ UNCHANGED <<setting, sender, reactor, closer, peer>>
    BY <1>6, Recycled DEF Recycle
  <2>2. CASE d # c
    BY <1>1, <2>1, <2>2, SameConn, Untouched DEF WorkerQueues
  <2>3. CASE d = c
    <3>1. ~conn'[c].fd
      BY <1>6, <2>3, Recycled, RecycleFacts DEF ConnectionsKept, Online
    <3>2. \A S : S \subseteq Sending \cup {"throw"} => ~SenderAt(c, S)'
      BY <1>6, <2>1, <2>3, RecycleFacts DEF SenderAt
    <3>3. \A S : S \subseteq Writing => ~ReactorAt(c, S)'
      BY <1>6, <2>1, <2>3, RecycleFacts DEF ReactorAt, Writing
    <3> QED BY <3>1, <3>2, <3>3 DEF PassedOn, Armed, Sending, Writing
  <2> QED BY <2>2, <2>3
<1>7. ASSUME NEW d \in Conn, Accept(d) PROVE PassedOn(c)'
  <2>1. /\ Changes(d) /\ UNCHANGED <<setting, sender, reactor, closer>>
        /\ peer' = [peer EXCEPT ![d] = "there"] /\ conn[d].list = "free"
        /\ conn'[d].iThrowsendCount = 0 /\ conn'[d].EPOLLOUT = FALSE
    BY <1>7, Accepted DEF Accept
  <2>2. CASE d # c
    BY <1>1, <2>1, <2>2, SameConn, Untouched DEF WorkerQueues
  <2>3. CASE d = c
    <3>1. ~Armed(c)'
      BY <2>1, <2>3 DEF Armed
    <3>2. \A S : S \subseteq Sending \cup {"throw"} => ~SenderAt(c, S)'
      BY <2>1, <2>3 DEF SenderAt, ConnectionsKept
    <3>3. \A S : S \subseteq Writing => ~ReactorAt(c, S)'
      BY <2>1, <2>3 DEF ReactorAt, Writing, ConnectionsKept
    <3>4. conn'[c].iThrowsendCount >= 0
      BY <2>1, <2>3
    <3> QED BY <3>1, <3>2, <3>3, <3>4 DEF PassedOn, Sending, Writing
  <2> QED BY <2>2, <2>3
<1>8. CASE UNCHANGED vars
  BY <1>2, <1>8 DEF vars, WorkerQueues
<1> QED BY <1>3, <1>4, <1>5, <1>6, <1>7, <1>8, AllSteps, HandedBySender, HandedByReactor,
           HandedByClosers

\* No step frees a message twice, unless the timer thread closes.
LEMMA FreedOnceStep ==
  ASSUME TypeOK, QueueKept, PointersKept, HandedOver,
         FreedOnce \/ "timer" \in setting.ends, [Next]_vars
  PROVE  (FreedOnce \/ "timer" \in setting.ends)'
<1>1. setting' = setting
  BY OtherSteps
<1> SUFFICES ASSUME "timer" \notin setting.ends, FreedOnce, NEW m \in Msg,
                    mem'[m] = "freed_twice"
             PROVE  FALSE
  BY <1>1 DEF FreedOnce
<1>2. sender.c \in Conn /\ reactor.c \in Conn /\ mem[m] # "freed_twice"
  BY SenderPlace, ReactorPlace DEF FreedOnce
<1>3. ASSUME NEW c \in Conn, m = conn[c].psendMemPointer, ~Clearing(c) PROVE mem[m] = "sent"
  BY <1>3, NoMsgAssumption DEF PointersKept, Points, Shared
<1>4. \/ DropStale /\ m = Current
      \/ SenderFrees /\ m = conn[sender.c].psendMemPointer
      \/ ReactorFrees /\ m = conn[reactor.c].psendMemPointer
      \/ \E c \in Conn : Recycle(c) /\ m = conn[c].psendMemPointer
  BY <1>2, MemSteps
<1>5. mem[m] = "sent"
  <2>1. CASE DropStale /\ m = Current
    BY <2>1, CurrentFacts DEF DropStale
  <2>2. CASE SenderFrees /\ m = conn[sender.c].psendMemPointer
    <3>1. ~Clearing(sender.c)
      BY <1>2, <2>2 DEF SenderFrees, Clearing, HandedOver, PassedOn, Shared, SenderAt, ReactorAt,
                        Sending, Writing
    <3> QED BY <1>2, <1>3, <2>2, <3>1
  <2>3. CASE ReactorFrees /\ m = conn[reactor.c].psendMemPointer
    <3>1. ~Clearing(reactor.c)
      BY <1>2, <2>3 DEF ReactorFrees, Clearing, HandedOver, PassedOn, Shared, SenderAt, ReactorAt,
                        Sending, Writing
    <3> QED BY <1>2, <1>3, <2>3, <3>1
  <2>4. ASSUME NEW c \in Conn, Recycle(c), m = conn[c].psendMemPointer PROVE mem[m] = "sent"
    <3>1. ~Clearing(c)
      BY <2>4, RecycleFacts DEF Clearing, SenderAt, ReactorAt, Sending
    <3> QED BY <1>3, <2>4, <3>1
  <2> QED BY <1>4, <2>1, <2>2, <2>3, <2>4
<1> QED BY <1>2, <1>4, <1>5, MemSteps

\* Who changes iThrowsendCount.
LEMMA ThrowSteps ==
  ASSUME TypeOK, QueueKept, [Next]_vars, NEW c \in Conn
  PROVE  \/ SameThrow(c) \/ Accept(c) \/ Recycle(c)
         \/ SenderClears /\ sender.c = c
         \/ RaiseThrow /\ sender.c = c /\ conn'[c].iThrowsendCount = conn[c].iThrowsendCount + 1
         \/ LowerThrow /\ reactor.c = c
         \/ HangupWrite \/ ReactorCloses
         \/ \E x \in Closers : zdClosesocketProc(x) /\ closer[x].c = c /\ closer[x].pc = "less"
<1> DEFINE Goal ==
         \/ SameThrow(c) \/ Accept(c) \/ Recycle(c)
         \/ SenderClears /\ sender.c = c
         \/ RaiseThrow /\ sender.c = c /\ conn'[c].iThrowsendCount = conn[c].iThrowsendCount + 1
         \/ LowerThrow /\ reactor.c = c
         \/ HangupWrite \/ ReactorCloses
         \/ \E x \in Closers : zdClosesocketProc(x) /\ closer[x].c = c /\ closer[x].pc = "less"
<1> SUFFICES Goal
  OBVIOUS
<1> HIDE DEF Goal
<1>1. ASSUME NEW d \in Conn, Changes(d), SameThrow(d) \/ d # c PROVE Goal
  <2>1. SameThrow(c)
    BY <1>1 DEF Changes, SameThrow
  <2> QED BY <2>1 DEF Goal
<1>2. ASSUME UNCHANGED conn PROVE Goal
  <2>1. SameThrow(c)
    BY <1>2 DEF SameThrow
  <2> QED BY <2>1 DEF Goal
<1>3. ASSUME NEW m \in Msg, msgSend(m) PROVE Goal
  <2>1. CASE Push(m)
    <3>1. To(m) \in Conn
      BY <1>3, SettingFacts DEF msgSend, QueueKept
    <3> QED BY <1>1, <2>1, <3>1, Counted DEF Push
  <2> QED BY <1>2, <1>3, <2>1 DEF msgSend, Discard, CutOff
<1>4. ASSUME NEW x \in Closers, zdClosesocketProc(x) PROVE Goal
  <2> DEFINE d == closer[x].c
  <2>1. d \in Conn /\ closer[x].pc \in {"fd", "throw", "less", "recy"}
    BY <1>4, CloserMoves
  <2>2. /\ Changes(d)
        /\ closer[x].pc # "less" => SameThrow(d)
    BY <1>4, <2>1, Closing DEF zdClosesocketProc, SameThrow
  <2>3. CASE d = c /\ closer[x].pc = "less"
    BY <1>4, <2>3 DEF Goal
  <2> QED BY <1>1, <2>1, <2>2, <2>3
<1>5. CASE ReactorCloses \/ HangupWrite
  BY <1>5 DEF Goal
<1>6. ASSUME NEW d \in Conn, Recycle(d) PROVE Goal
  BY <1>1, <1>6, Recycled DEF Goal
<1>7. ASSUME NEW d \in Conn, Accept(d) PROVE Goal
  BY <1>1, <1>7, Accepted DEF Goal
<1>8. CASE TakeMessage \/ SenderSends \/ SenderClears \/ RaiseThrow \/ Arm
  <2> DEFINE d == sender.c
  <2>0. 0 \in Int
    OBVIOUS
  <2>1. d \in Conn
    BY SenderPlace
  <2>2. conn[d].iThrowsendCount + 1 \in Int
    BY <2>1, Fields
  <2>3. CASE SenderSends
    BY <1>1, <2>1, <2>3, Sent DEF SenderSends
  <2>4. CASE SenderClears
    <3>1. Changes(d)
      BY <2>0, <2>1, <2>4, PointerCleared DEF SenderClears
    <3> QED BY <1>1, <2>1, <2>4, <3>1 DEF Goal
  <2>5. CASE RaiseThrow
    <3>1. Changes(d) /\ conn'[d].iThrowsendCount = conn[d].iThrowsendCount + 1
      BY <2>1, <2>2, <2>5, ThrowSet DEF RaiseThrow
    <3> QED BY <1>1, <2>1, <2>5, <3>1 DEF Goal
  <2>6. CASE Arm
    BY <1>1, <2>1, <2>6, EventsSet DEF Arm
  <2>7. CASE TakeMessage
    <3>1. Current \in Msg
      BY <2>7, CurrentFacts DEF TakeMessage, QueueKept
    <3> QED BY <1>1, <2>1, <2>7, <3>1, Taken DEF TakeMessage
  <2> QED BY <1>8, <2>3, <2>4, <2>5, <2>6, <2>7
<1>9. CASE ReactorSends \/ Disarm \/ ReactorClears \/ LowerThrow
  <2> DEFINE d == reactor.c
  <2>1. d \in Conn
    BY ReactorPlace
  <2>2. conn[d].iThrowsendCount \in Int /\ conn[d].iThrowsendCount - 1 \in Int
    BY <2>1, Fields
  <2>3. CASE LowerThrow
    <3>1. Changes(d)
      BY <2>1, <2>2, <2>3, ThrowSet DEF LowerThrow
    <3> QED BY <1>1, <2>1, <2>3, <3>1 DEF Goal
  <2>4. CASE ReactorSends
    BY <1>1, <2>1, <2>4, Sent DEF ReactorSends
  <2>5. CASE Disarm
    BY <1>1, <2>1, <2>5, EventsSet DEF Disarm
  <2>6. CASE ReactorClears
    <3>1. Changes(d) /\ SameThrow(d)
      BY <2>1, <2>2, <2>6, PointerCleared DEF ReactorClears, SameThrow
    <3> QED BY <1>1, <2>1, <3>1
  <2> QED BY <1>9, <2>3, <2>4, <2>5, <2>6
<1>10. ASSUME NEW m \in Msg, Reply(m) PROVE Goal
  BY <1>2, <1>10 DEF Reply
<1>11. ASSUME NEW d \in Conn, TimerKicks(d) \/ PeerLeaves(d) \/ WriteEvent(d) \/ HangupEvent(d)
       PROVE Goal
  BY <1>2, <1>11 DEF TimerKicks, PeerLeaves, WriteEvent, HangupEvent
<1>12. CASE \/ SemWait \/ SemInterrupted \/ Lock \/ Unlock \/ DropStale \/ TestSequence \/ Skip
            \/ SenderFrees \/ Read \/ Post \/ ReactorFrees \/ UNCHANGED vars
  BY <1>2, <1>12 DEF SemWait, SemInterrupted, Lock, Unlock, DropStale, TestSequence, Skip,
                     SenderFrees, Read, Post, ReactorFrees, vars
<1> QED BY <1>3, <1>4, <1>5, <1>6, <1>7, <1>8, <1>9, <1>10, <1>11, <1>12, AllSteps

\* What a step can be for the pool thread that closes in msgSend.
LEMMA WorkerMoves ==
  ASSUME TypeOK, MutexKept, [Next]_vars, closer["worker"].pc # "idle"
  PROVE  \/ closer'["worker"] = closer["worker"]
         \/ zdClosesocketProc("worker")
<1> USE DEF threadVars
<1>1. closer \in [Closers -> [pc : Step, c : Conn]] /\ "worker" \in Closers
  BY Types DEF Closers
<1>2. ASSUME NEW m \in Msg, Reply(m) \/ msgSend(m) PROVE closer' = closer
  BY <1>2 DEF Reply, msgSend, MutexFree, MutexKept
<1>3. ASSUME NEW x \in Closers, zdClosesocketProc(x), x # "worker"
      PROVE closer'["worker"] = closer["worker"]
  BY <1>1, <1>3, CloserMoves
<1>4. ASSUME NEW c \in Conn, TimerKicks(c) \/ PeerLeaves(c) \/ Recycle(c) \/ Accept(c)
                             \/ WriteEvent(c) \/ HangupEvent(c)
      PROVE closer'["worker"] = closer["worker"]
  BY <1>1, <1>4 DEF TimerKicks, PeerLeaves, Recycle, Accept, WriteEvent, HangupEvent
<1>5. ASSUME \/ SemWait \/ SemInterrupted \/ Lock \/ Unlock \/ DropStale \/ TestSequence
             \/ Skip \/ TakeMessage \/ UNCHANGED vars
      PROVE closer' = closer
  BY <1>5 DEF SemWait, SemInterrupted, Lock, Unlock, DropStale, TestSequence, Skip,
              TakeMessage, vars
<1>6. ASSUME SenderSends \/ SenderFrees \/ SenderClears \/ RaiseThrow \/ Arm
      PROVE closer' = closer
  BY <1>6 DEF SenderSends, SenderFrees, SenderClears, RaiseThrow, Arm
<1>7. ASSUME \/ Read \/ ReactorCloses \/ HangupWrite \/ ReactorSends \/ Disarm \/ Post
             \/ ReactorFrees \/ ReactorClears \/ LowerThrow
      PROVE closer' = closer
  BY <1>7 DEF Read, ReactorCloses, HangupWrite, ReactorSends, Disarm, Post, ReactorFrees,
              ReactorClears, LowerThrow
<1> QED BY <1>2, <1>3, <1>4, <1>5, <1>6, <1>7, AllSteps

\* While only msgSend closes, a connection goes offline only at the end of its close.
LEMMA OnlineStays ==
  ASSUME TypeOK, MutexKept, QueueKept, NoneLost, setting.ends = {}, [Next]_vars,
         NEW c \in Conn, Online(c), ~WorkerQueues(c)
  PROVE  Online(c)'
<1>1. ~Recycle(c) /\ ~Accept(c) /\ ~ReactorCloses
  BY DEF Recycle, Accept, ReactorCloses, NoneLost, HangingUp, Online
<1>2. ASSUME NEW x \in Closers, zdClosesocketProc(x), closer[x].c = c PROVE Online(c)'
  <2>1. x = "worker" /\ closer[x].pc \in {"fd", "throw", "less", "recy"}
    BY <1>2, CloserMoves DEF MutexKept, Closers
  <2>2. closer[x] \in [pc : Step, c : Conn]
    BY Types
  <2>3. closer[x].pc # "recy"
    BY <1>2, <2>1, <2>2 DEF WorkerQueues
  <2>4. conn' = [conn EXCEPT ![c] = CloseStep(closer[x].pc, @)]
    BY <1>2 DEF zdClosesocketProc
  <2> QED BY <2>1, <2>3, <2>4, Closing DEF Online
<1> QED BY <1>1, <1>2, UseSteps DEF SameUse, Online

\* While nobody hangs up, no step leaves a taken message without anybody to send it.
LEMMA LeftStep ==
  ASSUME TypeOK, MutexKept, QueueKept, ConnectionsKept, PointersKept, HandedOver, NoneLost,
         setting.ends = {}, [Next]_vars, NEW c \in Conn
  PROVE  NotLeft(c)'
<1> USE DEF threadVars
<1>1. /\ NotLeft(c) /\ PassedOn(c) /\ Shared(c) /\ conn[c].iThrowsendCount \in Int
      /\ conn[c].fd \in BOOLEAN
      /\ sender \in [pc : SenderPcs, pos : Nat, c : Conn]
      /\ closer \in [Closers -> [pc : Step, c : Conn]] /\ "worker" \in Closers
  BY Types, Fields DEF NoneLost, HandedOver, Shared, Closers
<1>2. ~ReactorCloses /\ ~HangupWrite /\ ~ReactorAt(c, {"read"})
  BY DEF ReactorCloses, HangupWrite, NoneLost, HangingUp, ReactorAt
<1>3. peer'[c] = "there"
  <2>1. CASE Accept(c)
    BY <2>1, Types DEF Accept
  <2> QED BY <1>1, <1>2, <2>1, OtherSteps DEF NotLeft
<1>4. ASSUME NEW x \in Closers, zdClosesocketProc(x), closer[x].c = c, Online(c)'
      PROVE  /\ x = "worker" /\ closer[x].pc \in {"fd", "throw", "less"} /\ closer'[x].c = c
             /\ closer'[x].pc = After(closer[x].pc, conn[closer[x].c]) /\ closer'[x].pc # "idle"
  <2>1. /\ x = "worker" /\ closer[x].pc \in {"fd", "throw", "less", "recy"} /\ closer'[x].c = c
        /\ closer'[x].pc = After(closer[x].pc, conn[closer[x].c])
    BY <1>4, CloserMoves DEF MutexKept, Closers
  <2>2. conn' = [conn EXCEPT ![c] = CloseStep(closer[x].pc, @)]
    BY <1>4 DEF zdClosesocketProc
  <2>3. closer[x].pc # "recy"
    <3>1. PICK pc \in {"fd", "throw", "less", "recy"} : pc = closer[x].pc
      BY <2>1
    <3>2. conn' = [conn EXCEPT ![c] = CloseStep(pc, @)]
      BY <2>2, <3>1
    <3>3. conn'[c].list = IF pc = "recy" /\ Online(c) THEN "recy" ELSE conn[c].list
      BY <3>2, Closing
    <3> QED BY <1>4, <3>1, <3>3 DEF Online
  <2> QED BY <2>1, <2>3 DEF After
<1>5. ASSUME Online(c)', ~conn'[c].fd PROVE closer'["worker"].pc # "idle" /\ closer'["worker"].c = c
  <2>1. ~Accept(c) /\ Online(c)
    BY <1>5, Accepted, OnlineBefore
  <2>2. CASE conn[c].fd
    <3>1. ~SameUse(c) /\ ~Recycle(c)
      BY <1>5, <2>1, <2>2, RecycleFacts DEF SameUse, Online
    <3> QED BY <1>2, <1>4, <1>5, <2>1, <3>1, UseSteps
  <2>3. CASE ~conn[c].fd
    <3>1. closer["worker"].pc # "idle" /\ closer["worker"].c = c
      BY <1>1, <2>1, <2>3 DEF NotLeft
    <3> QED BY <1>1, <1>4, <1>5, <3>1, WorkerMoves
  <2> QED BY <1>1, <2>2, <2>3
<1>6. ASSUME Online(c)', conn'[c].psendMemPointer # NoMsg
      PROVE  conn'[c].iThrowsendCount > 0 \/ SenderAt(c, Sending)' \/ WorkerQueues(c)'
  <2> DEFINE Goal == conn'[c].iThrowsendCount > 0 \/ SenderAt(c, Sending)' \/ WorkerQueues(c)'
  <2> SUFFICES Goal
    OBVIOUS
  <2> HIDE DEF Goal
  <2>1. ~Accept(c) /\ Online(c) /\ ~Recycle(c)
    BY <1>6, Accepted, Recycled, OnlineBefore
  <2>2. CASE TakeMessage /\ sender.c = c
    <3>1. sender'.pc = "send" /\ sender'.c = c
      BY <1>1, <2>2 DEF TakeMessage
    <3> QED BY <3>1 DEF Goal, SenderAt, Sending
  <2>3. CASE SamePointers(c)
    <3>1. ~(SenderClears /\ sender.c = c)
      <4>1. 0 \in Int
        OBVIOUS
      <4> QED BY <1>6, <4>1, PointerCleared DEF SenderClears
    <3>2. conn[c].psendMemPointer # NoMsg
      BY <1>6, <2>3 DEF SamePointers
    <3>3. CASE WorkerQueues(c)
      <4>1. ~zdClosesocketProc("worker")
        BY <1>1, <1>4, <1>6, <3>3 DEF WorkerQueues
      <4>2. closer'["worker"] = closer["worker"]
        BY <3>3, <4>1, WorkerMoves DEF WorkerQueues
      <4> QED BY <3>3, <4>2 DEF Goal, WorkerQueues
    <3>4. CASE conn[c].iThrowsendCount > 0
      <4>1. ~(LowerThrow /\ reactor.c = c)
        BY <1>1, <3>2 DEF LowerThrow, PassedOn, ReactorAt
      <4>2. ASSUME NEW x \in Closers, zdClosesocketProc(x), closer[x].c = c,
                   closer[x].pc = "less"
            PROVE  Goal
        <5>1. closer'["worker"].pc = "recy" /\ closer'["worker"].c = c
          BY <1>4, <1>6, <4>2 DEF After
        <5>2. closer' = [closer EXCEPT ![x].pc = After(closer[x].pc, conn[closer[x].c])]
          BY <4>2 DEF zdClosesocketProc
        <5>3. closer'["worker"] = [pc |-> "recy", c |-> c]
          BY <1>1, <1>4, <1>6, <4>2, <5>1, <5>2
        <5> QED BY <5>3 DEF Goal, WorkerQueues
      <4>3. CASE SameThrow(c)
        BY <3>4, <4>3 DEF SameThrow, Goal
      <4>4. CASE conn'[c].iThrowsendCount = conn[c].iThrowsendCount + 1
        BY <1>1, <3>4, <4>4 DEF Goal
      <4> QED BY <1>2, <2>1, <3>1, <4>1, <4>2, <4>3, <4>4, ThrowSteps
    <3>5. CASE SenderAt(c, Sending)
      <4>1. closer["worker"].pc = "idle"
        BY <3>5 DEF MutexKept, SenderAt, Sending
      <4>2. conn[c].fd /\ peer[c] = "there"
        BY <1>1, <2>1, <4>1 DEF NotLeft
      <4>3. CASE sender' = sender
        BY <3>5, <4>3 DEF SenderAt, Goal
      <4>4. CASE SenderSends \/ SenderFrees \/ RaiseThrow
        <5>1. sender'.pc \in Sending /\ sender'.c = c
          BY <1>1, <3>5, <4>4 DEF SenderSends, SenderFrees, RaiseThrow, Sending, SenderAt
        <5> QED BY <5>1 DEF Goal, SenderAt
      <4>5. CASE Arm
        <5>1. conn[c].iThrowsendCount > 0
          BY <1>1, <3>5, <4>2, <4>5 DEF Arm, PassedOn, SenderAt
        <5>2. SameThrow(c)
          BY <1>1, <3>5, <4>5, EventsSet DEF Arm, SenderAt
        <5> QED BY <5>1, <5>2 DEF SameThrow, Goal
      <4>6. sender.c = c /\ sender.pc \in Sending
        BY <3>5 DEF SenderAt
      <4>7. ~(SemWait \/ SemInterrupted \/ Lock \/ Unlock \/ TestSequence \/ Skip \/ TakeMessage)
        BY <4>6 DEF SemWait, SemInterrupted, Lock, Unlock, TestSequence, Skip, TakeMessage, Sending
      <4> QED BY <3>1, <4>3, <4>4, <4>5, <4>6, <4>7, SenderMoves
    <3> QED BY <1>1, <2>1, <3>2, <3>3, <3>4, <3>5 DEF NotLeft
  <2> QED BY <1>6, <2>2, <2>3, PointerSteps
<1> QED BY <1>3, <1>5, <1>6 DEF NotLeft

\* While nobody hangs up, no step drops a message that was queued.
LEMMA LostStep ==
  ASSUME TypeOK, MutexKept, QueueKept, ConnectionsKept, HeadersKept, PointersKept, HandedOver,
         NoneLost, [Next]_vars, TypeOK', QueueKept'
  PROVE  NoneLost'
<1>1. setting' = setting /\ sender.c \in Conn
  BY OtherSteps, SenderPlace
<1> SUFFICES ASSUME setting.ends = {}
             PROVE  /\ reactor'.pc \notin HangingUp
                    /\ sender'.pc = "throw" => Online(sender.c)'
                    /\ \A c \in Conn : NotLeft(c)'
                    /\ NoneForgotten'
  BY <1>1 DEF NoneLost
<1>2. reactor'.pc \notin HangingUp
  <2>0. reactor \in [pc : ReactorPcs, c : Conn, out : BOOLEAN] /\ reactor.pc \notin HangingUp
    BY Types DEF NoneLost
  <2>1. \A c \in Conn : ~HangupEvent(c)
    BY DEF HangupEvent, NoneLost, NotLeft
  <2>2. ASSUME NEW c \in Conn, WriteEvent(c) PROVE reactor'.pc \notin HangingUp
    BY <2>2 DEF WriteEvent, HangingUp
  <2>3. ~(Read \/ ReactorCloses \/ HangupWrite)
    BY <2>0 DEF Read, ReactorCloses, HangupWrite, HangingUp
  <2>4. ASSUME \/ ReactorSends \/ Disarm \/ Post \/ ReactorFrees \/ ReactorClears \/ LowerThrow
        PROVE  reactor'.pc \notin HangingUp
    BY <2>0, <2>4 DEF ReactorSends, Disarm, Post, ReactorFrees, ReactorClears, LowerThrow,
       HangingUp
  <2>5. CASE reactor' = reactor
    BY <2>0, <2>5
  <2> QED BY <2>1, <2>2, <2>3, <2>4, <2>5, ReactorMoves
<1>3. ASSUME sender'.pc = "throw" PROVE Online(sender.c)'
  <2>1. CASE TestSequence
    <3>1. /\ sender'.c = To(Current) /\ UNCHANGED conn /\ sender.pos <= Len(m_MsgSendQueue)
          /\ conn[To(Current)].iCurrsequence = hdr[Current]
      BY <2>1, Types DEF TestSequence
    <3>2. Current \in Msg /\ mem[Current] = "sent"
      BY <3>1, CurrentFacts
    <3> QED BY <3>1, <3>2 DEF HeadersKept, Online
  <2>2. CASE sender' = sender
    <3>1. Online(sender.c) /\ ~WorkerQueues(sender.c)
      BY <1>3, <2>2 DEF NoneLost, MutexKept, WorkerQueues
    <3>2. PICK c \in Conn : c = sender.c
      BY <1>1
    <3>3. Online(c)'
      BY <3>1, <3>2, OnlineStays
    <3> QED BY <2>2, <3>2, <3>3 DEF Online
  <2>3. ~(TakeMessage \/ SenderSends \/ SenderFrees \/ RaiseThrow)
    BY <1>3, Types DEF TakeMessage, SenderSends, SenderFrees, RaiseThrow
  <2> QED BY <1>3, <2>1, <2>2, <2>3, SenderSteps
<1>4. ASSUME NEW m \in Msg, mem'[m] = "sent", m \notin ToSet(m_MsgSendQueue)'
      PROVE  conn'[To(m)'].psendMemPointer = m
  <2>1. ~\E k \in Msg : msgSend(k) /\ Push(k) /\ k = m
    <3> SUFFICES ASSUME msgSend(m), Push(m) PROVE FALSE
      OBVIOUS
    <3>1. m \notin ToSet(m_MsgSendQueue)
      BY DEF msgSend, QueueKept
    <3> QED BY <1>4, <3>1, AppendFacts, Types DEF Push, QueueKept
  <2>2. mem[m] = "sent"
    BY <1>4, <2>1, MemSteps
  <2>3. PICK c \in Conn : c = To(m)
    BY <2>2, SettingFacts DEF QueueKept
  <2>4. To(m)' = c
    BY <2>2, <2>3, HeaderStays
  <2>5. CASE m \in ToSet(m_MsgSendQueue)
    <3>1. ASSUME NEW k \in Msg, msgSend(k), Push(k) PROVE FALSE
      <4>1. k \notin ToSet(m_MsgSendQueue)
        BY <3>1 DEF msgSend, QueueKept
      <4> QED BY <1>4, <2>5, <3>1, <4>1, AppendFacts, Types DEF Push, QueueKept
    <3>2. (DropStale \/ TakeMessage) /\ m_MsgSendQueue' = Rest
      BY <1>4, <2>5, <3>1, QueueSteps
    <3>3. sender.pos <= Len(m_MsgSendQueue)
      BY <3>2 DEF DropStale, TakeMessage, QueueKept
    <3>4. m = Current
      BY <1>4, <2>5, <3>2, <3>3, CurrentFacts
    <3>5. CASE DropStale
      BY <1>4, <3>4, <3>5 DEF DropStale, Freed
    <3>6. CASE TakeMessage
      <4>1. sender.c = c /\ sender.c \in Conn
        BY <1>1, <2>3, <3>4, <3>6 DEF TakeMessage, QueueKept
      <4>2. conn'[c].psendMemPointer = m
        BY <3>3, <3>4, <3>6, <4>1, CurrentFacts, Taken DEF TakeMessage
      <4> QED BY <2>4, <4>2
    <3> QED BY <3>2, <3>5, <3>6
  <2>6. CASE m \notin ToSet(m_MsgSendQueue)
    <3>1. conn[c].psendMemPointer = m /\ conn[c].psendMemPointer # NoMsg
      BY <2>2, <2>3, <2>6, NoMsgAssumption DEF NoneLost, NoneForgotten
    <3>2. Shared(c) /\ ~Clearing(c)
      BY <2>2, <3>1 DEF PointersKept, Points, Shared
    <3>3. ~(SenderClears /\ sender.c = c) /\ ~(ReactorClears /\ reactor.c = c)
      BY <3>2 DEF SenderClears, ReactorClears, Clearing, SenderAt, ReactorAt
    <3>4. ~Recycle(c)
      BY <1>4, <3>1 DEF Recycle, Freed
    <3>5. ~Accept(c)
      BY <3>1 DEF Accept, ConnectionsKept
    <3>6. ~(TakeMessage /\ sender.c = c)
      <4> SUFFICES ASSUME TakeMessage, sender.c = c PROVE FALSE
        OBVIOUS
      <4>1. /\ sender.pc = "throw" /\ Online(c) /\ ~(conn[c].iThrowsendCount > 0)
            /\ closer["worker"].pc = "idle"
        BY DEF TakeMessage, GivenToReactor, NoneLost, MutexKept
      <4>2. ~SenderAt(c, Sending) /\ ~WorkerQueues(c)
        BY <4>1 DEF SenderAt, Sending, WorkerQueues
      <4>3. NotLeft(c)
        BY DEF NoneLost
      <4> QED BY <3>1, <4>1, <4>2, <4>3 DEF NotLeft
    <3>7. conn'[c].psendMemPointer = conn[c].psendMemPointer
      BY <3>3, <3>4, <3>5, <3>6, PointerSteps DEF SamePointers
    <3> QED BY <2>4, <3>1, <3>7
  <2> QED BY <2>5, <2>6
<1>5. NoneForgotten'
  BY <1>4 DEF NoneForgotten
<1> QED BY <1>2, <1>3, <1>5, LeftStep

(* What the socket has accepted *)

\* With the n pieces of m that one call of sendproc adds.
With(s, m, n) == s \o [i \in 1..n |-> m]

\* It adds them at the end.
LEMMA CopiesAdded ==
  ASSUME NEW s \in Seq(Msg), NEW m \in Msg, NEW n \in Nat, n > 0
  PROVE  LET t == With(s, m, n) IN
         t \in Seq(Msg) /\ t[Len(t)] = m /\ ToSet(t) \subseteq ToSet(s) \cup {m}
<1>0. PICK t : t = With(s, m, n)
  OBVIOUS
<1>1. PICK l \in Nat : l = Len(s)
  OBVIOUS
<1>2. PICK u : u = [i \in 1..n |-> m] /\ t = s \o u
  BY <1>0 DEF With
<1>3. u \in Seq(Msg) /\ Len(u) = n /\ \A i \in 1..n : u[i] = m
  BY <1>2
<1>4. /\ t \in Seq(Msg) /\ Len(t) = l + n
      /\ \A i \in 1..(l + n) : t[i] = IF i <= l THEN s[i] ELSE u[i - l]
  BY <1>1, <1>2, <1>3, ConcatProperties
<1>5. \A i \in 1..(l + n) : t[i] = m \/ (i \in 1..l /\ t[i] = s[i])
  <2>1. \A i \in 1..(l + n) : (i <= l /\ i \in 1..l) \/ (~(i <= l) /\ i - l \in 1..n)
    OBVIOUS
  <2> QED BY <1>3, <1>4, <2>1
<1>6. t[l + n] = m
  <2>1. l + n \in 1..(l + n) /\ l + n \notin 1..l
    OBVIOUS
  <2> QED BY <1>5, <2>1
<1>7. DOMAIN s = 1..l /\ DOMAIN t = 1..(l + n)
  BY <1>1, <1>4
<1> QED BY <1>0, <1>4, <1>5, <1>6, <1>7 DEF ToSet

\* The pieces of a message are counted one by one.
LEMMA PiecesAppended ==
  ASSUME NEW s \in Seq(Msg), NEW m \in Msg, NEW n \in Nat, n > 0,
         Whole(s), Given(s, m) + n <= Size[m],
         Given(s, m) = 0 => Complete(s), Given(s, m) # 0 => s[Len(s)] = m
  PROVE  LET t == With(s, m, n) IN
         /\ Given(t, m) = Given(s, m) + n
         /\ Given(t, m) = Size[m] => Complete(t)
         /\ Whole(t)
<1>0. PICK t : t = With(s, m, n)
  OBVIOUS
<1>1. PICK l \in Nat : l = Len(s)
  OBVIOUS
<1>2. /\ t \in Seq(Msg) /\ Len(t) = l + n
      /\ \A i \in 1..l : t[i] = s[i]
      /\ \A i \in (l + 1)..(l + n) : t[i] = m
  <2>1. PICK u : u = [i \in 1..n |-> m] /\ t = s \o u
    BY <1>0 DEF With
  <2>2. u \in Seq(Msg) /\ Len(u) = n /\ \A i \in 1..n : u[i] = m
    BY <2>1
  <2>3. /\ s \o u \in Seq(Msg) /\ Len(s \o u) = l + n
        /\ \A i \in 1..(l + n) : (s \o u)[i] = IF i <= l THEN s[i] ELSE u[i - l]
    BY <1>1, <2>2, ConcatProperties
  <2>4. \A i \in (l + 1)..(l + n) : i \in 1..(l + n) /\ ~(i <= l) /\ i - l \in 1..n
    OBVIOUS
  <2>5. \A i \in 1..l : i \in 1..(l + n) /\ i <= l
    OBVIOUS
  <2> QED BY <2>1, <2>2, <2>3, <2>4, <2>5
<1>3. PICK G : G = {i \in 1..l : s[i] = m}
  OBVIOUS
<1>4. PICK g \in Nat : g = Cardinality(G) /\ g = Given(s, m) /\ IsFiniteSet(G)
  <2>1. IsFiniteSet(1..l)
    BY FS_Interval
  <2>2. IsFiniteSet(G) /\ Cardinality(G) \in Nat
    BY <1>3, <2>1, FS_Subset, FS_CardinalityType
  <2> QED BY <1>1, <1>3, <2>2 DEF Given
<1>5. ASSUME NEW k \in 0..n
      PROVE  Cardinality({i \in 1..(l + k) : t[i] = m}) = g + k
  <2>1. PICK I : I = (l + 1)..(l + k)
    OBVIOUS
  <2>2. IsFiniteSet(I) /\ Cardinality(I) = k
    <3>1. l + 1 \in Int /\ l + k \in Int /\ (l + 1 > l + k => k = 0)
          /\ (l + k) - (l + 1) + 1 = k
      OBVIOUS
    <3> QED BY <2>1, <3>1, FS_Interval
  <2>3. G \cap I = {}
    BY <1>3, <2>1
  <2>4. {i \in 1..(l + k) : t[i] = m} = G \cup I
    <3>1. \A i \in 1..(l + k) : i \in 1..l \/ i \in I
      BY <2>1
    <3>2. \A i \in I : i \in 1..(l + k) /\ i \in (l + 1)..(l + n)
      BY <2>1
    <3>3. \A i \in 1..l : i \in 1..(l + k)
      OBVIOUS
    <3> QED BY <1>2, <1>3, <3>1, <3>2, <3>3
  <2>5. Cardinality(G \cup I) = Cardinality(G) + Cardinality(I) - Cardinality(G \cap I)
    BY <1>4, <2>2, FS_Union
  <2>6. Cardinality({}) = 0
    BY FS_EmptySet
  <2>7. Cardinality(G \cup I) = g + k
    <3>1. Cardinality(G \cup I) = g + k - 0
      BY <1>4, <2>2, <2>3, <2>5, <2>6, Zenon
    <3> QED BY <3>1
  <2> QED BY <2>4, <2>7
<1>6. \A i \in 1..l : Pieces(t, i) = Pieces(s, i)
  <2>1. ASSUME NEW i \in 1..l PROVE Pieces(t, i) = Pieces(s, i)
    <3>1. \A j \in 1..i : t[j] = s[j] /\ t[i] = s[i]
      BY <1>2
    <3>2. {j \in 1..i : t[j] = t[i]} = {j \in 1..i : s[j] = s[i]}
      BY <3>1
    <3> QED BY <3>2 DEF Pieces
  <2> QED BY <2>1
<1>7. \A i \in (l + 1)..(l + n) : Pieces(t, i) = g + (i - l)
  <2>1. ASSUME NEW i \in (l + 1)..(l + n) PROVE Pieces(t, i) = g + (i - l)
    <3>1. PICK k \in 0..n : k = i - l /\ i = l + k
      OBVIOUS
    <3>2. t[i] = m
      BY <1>2
    <3> QED BY <1>5, <3>1, <3>2 DEF Pieces
  <2> QED BY <2>1
<1>8. /\ Given(t, m) = g + n /\ Pieces(t, Len(t)) = g + n /\ t[Len(t)] = m /\ Len(t) > 0
  <2>1. n \in 0..n /\ l + n \in (l + 1)..(l + n) /\ l + n > 0 /\ (l + n) - l = n
    OBVIOUS
  <2> QED BY <1>2, <1>5, <1>7, <2>1 DEF Given
<1>9. g + n <= Size[m] /\ Size[m] \in Nat
  BY <1>4, SizesAssumption
<1>10. ASSUME NEW i \in 1..l
       PROVE  /\ Pieces(t, i) <= Size[t[i]]
              /\ t[i + 1] # t[i] => Pieces(t, i) = Size[t[i]]
  <2>1. Pieces(t, i) = Pieces(s, i) /\ t[i] = s[i] /\ Pieces(s, i) <= Size[s[i]]
    BY <1>1, <1>2, <1>6 DEF Whole
  <2>2. ASSUME i < l, t[i + 1] # t[i] PROVE Pieces(t, i) = Size[t[i]]
    <3>1. i + 1 \in 1..l
      BY <2>2
    <3>2. t[i + 1] = s[i + 1]
      BY <1>2, <3>1
    <3> QED BY <1>1, <2>1, <2>2, <3>2 DEF Whole
  <2>3. ASSUME i = l, t[i + 1] # t[i] PROVE Pieces(t, i) = Size[t[i]]
    <3>1. l + 1 \in (l + 1)..(l + n) /\ l # 0
      BY <2>3
    <3>2. s[Len(s)] # m /\ s # <<>>
      BY <1>1, <1>2, <2>1, <2>3, <3>1
    <3>3. Pieces(s, Len(s)) = Size[s[Len(s)]]
      BY <3>2 DEF Complete
    <3> QED BY <1>1, <2>1, <2>3, <3>3
  <2>4. i < l \/ i = l
    OBVIOUS
  <2> QED BY <2>1, <2>2, <2>3, <2>4
<1>11. Whole(t)
  <2>1. ASSUME NEW i \in 1..(l + n)
        PROVE  /\ Pieces(t, i) <= Size[t[i]]
               /\ i < l + n /\ t[i + 1] # t[i] => Pieces(t, i) = Size[t[i]]
    <3>1. CASE i \in 1..l
      BY <1>10, <3>1
    <3>2. CASE i \in (l + 1)..(l + n)
      <4>1. g + (i - l) <= Size[m]
        BY <1>9, <3>2
      <4>2. i < l + n => i + 1 \in (l + 1)..(l + n)
        BY <3>2
      <4> QED BY <1>2, <1>7, <3>2, <4>1, <4>2
    <3>3. i \in 1..l \/ i \in (l + 1)..(l + n)
      OBVIOUS
    <3> QED BY <3>1, <3>2, <3>3
  <2> QED BY <1>2, <2>1 DEF Whole
<1> QED BY <1>0, <1>2, <1>4, <1>8, <1>11 DEF Complete

\* A message that has left the queue does not come back.
LEMMA LeftStays ==
  ASSUME TypeOK, QueueKept, [Next]_vars, NEW m \in Msg, LeftQueue(m)
  PROVE  LeftQueue(m)'
<1>1. mem[m] \notin {"none", "built"} /\ m \notin ToSet(m_MsgSendQueue)
  BY DEF LeftQueue
<1>2. mem'[m] \notin {"none", "built"}
  BY <1>1, MemSteps
<1>3. m \notin ToSet(m_MsgSendQueue')
  <2>1. CASE (DropStale \/ TakeMessage) /\ m_MsgSendQueue' = Rest
    <3>1. sender.pos <= Len(m_MsgSendQueue)
      BY <2>1 DEF DropStale, TakeMessage, QueueKept
    <3> QED BY <1>1, <2>1, <3>1, CurrentFacts
  <2>2. ASSUME NEW k \in Msg, msgSend(k), Push(k) PROVE m \notin ToSet(m_MsgSendQueue')
    <3>1. /\ mem[k] = "built" /\ m_MsgSendQueue' = Append(m_MsgSendQueue, k)
          /\ k \notin ToSet(m_MsgSendQueue)
      BY <2>2 DEF msgSend, Push, QueueKept
    <3>2. ToSet(m_MsgSendQueue') = ToSet(m_MsgSendQueue) \cup {k}
      BY <3>1, Types, AppendFacts DEF QueueKept
    <3> QED BY <1>1, <3>1, <3>2
  <2> QED BY <1>1, <2>1, <2>2, QueueSteps
<1> QED BY <1>2, <1>3 DEF LeftQueue

\* Clients that do not leave stay.
LEMMA PeersStay ==
  ASSUME TypeOK, ConnectionsKept, [Next]_vars, "peer" \notin setting.ends,
         \A c \in Conn : peer[c] = "there"
  PROVE  reactor.pc \notin HangingUp /\ \A c \in Conn : peer'[c] = "there"
<1>1. reactor.pc \notin HangingUp
  BY ReactorPlace DEF ConnectionsKept
<1>2. ASSUME NEW c \in Conn PROVE ~ReactorAt(c, {"read"})
  BY <1>1 DEF ReactorAt, HangingUp
<1> QED BY <1>1, <1>2, OtherSteps

\* What the socket of c has accepted changes with a new client and when a thread sends.
LEMMA WireGrows ==
  ASSUME TypeOK, [Next]_vars, NEW c \in Conn
  PROVE  \/ Accept(c) /\ wire'[c] = <<>>
         \/ wire'[c] = wire[c]
         \/ /\ SendsAll(c) \/ SendsSome(c)
            /\ (SenderSends /\ sender.c = c) \/ (ReactorSends /\ reactor.c = c)
<1> DEFINE Goal == \/ Accept(c) /\ wire'[c] = <<>>
                   \/ wire'[c] = wire[c]
                   \/ /\ SendsAll(c) \/ SendsSome(c)
                      /\ (SenderSends /\ sender.c = c) \/ (ReactorSends /\ reactor.c = c)
<1> SUFFICES Goal
  OBVIOUS
<1>1. wire \in [Conn -> Seq(Msg)]
  BY Types
<1>2. ASSUME wire' = wire PROVE Goal
  BY <1>2
<1>3. ASSUME NEW d \in Conn, d # c, SendsAll(d) \/ SendsSome(d) PROVE Goal
  BY <1>1, <1>3 DEF SendsAll, SendsSome, Sends
<1>4. ASSUME NEW d \in Conn, Accept(d) PROVE Goal
  <2>1. wire' = [wire EXCEPT ![d] = <<>>]
    BY <1>4 DEF Accept
  <2> QED BY <1>1, <1>4, <2>1
<1> HIDE DEF Goal
<1>5. CASE SenderSends
  <2>1. sender.c \in Conn
    BY SenderPlace
  <2>2. CASE SendFails(sender.c) \/ BufferFull(sender.c)
    BY <1>2, <2>2 DEF SendFails, BufferFull
  <2>3. CASE SendsAll(sender.c) \/ SendsSome(sender.c)
    BY <1>3, <1>5, <2>1, <2>3 DEF Goal
  <2> QED BY <1>5, <2>2, <2>3 DEF SenderSends
<1>6. CASE ReactorSends
  <2>1. reactor.c \in Conn
    BY ReactorPlace
  <2>2. CASE SendFails(reactor.c) \/ BufferFull(reactor.c)
    BY <1>2, <2>2 DEF SendFails, BufferFull
  <2>3. CASE SendsAll(reactor.c) \/ SendsSome(reactor.c)
    BY <1>3, <1>6, <2>1, <2>3 DEF Goal
  <2> QED BY <1>6, <2>2, <2>3 DEF ReactorSends
<1> USE DEF queueVars, threadVars
<1>7. ASSUME NEW m \in Msg, Reply(m) \/ msgSend(m) PROVE Goal
  BY <1>2, <1>7 DEF Reply, msgSend
<1>8. ASSUME NEW d \in Conn, TimerKicks(d) \/ Recycle(d) \/ WriteEvent(d) \/ HangupEvent(d)
                             \/ PeerLeaves(d)
      PROVE Goal
  BY <1>2, <1>8 DEF TimerKicks, Recycle, WriteEvent, HangupEvent, PeerLeaves
<1>9. ASSUME NEW x \in Closers, zdClosesocketProc(x) PROVE Goal
  BY <1>2, <1>9 DEF zdClosesocketProc
<1>10. CASE \/ SemWait \/ SemInterrupted \/ Lock \/ Unlock \/ DropStale \/ TestSequence \/ Skip
            \/ TakeMessage \/ SenderFrees \/ SenderClears \/ RaiseThrow \/ Arm
            \/ UNCHANGED vars
  BY <1>2, <1>10 DEF SemWait, SemInterrupted, Lock, Unlock, DropStale, TestSequence, Skip,
              TakeMessage, SenderFrees, SenderClears, RaiseThrow, Arm, vars
<1>11. CASE \/ Read \/ ReactorCloses \/ HangupWrite \/ Disarm \/ Post
             \/ ReactorFrees \/ ReactorClears \/ LowerThrow
  BY <1>2, <1>11 DEF Read, ReactorCloses, HangupWrite, Disarm, Post, ReactorFrees,
                     ReactorClears, LowerThrow
<1> QED BY <1>4, <1>5, <1>6, <1>7, <1>8, <1>9, <1>10, <1>11, AllSteps

\* sendproc moves pieces of the message in hand to the socket.
LEMMA PartSent ==
  ASSUME TypeOK, NEW c \in Conn, SendsAll(c) \/ SendsSome(c),
         Unsent(c), InHand(c), Whole(wire[c]), conn[c].psendbuf # NoMsg
  PROVE  LET m == conn[c].psendbuf IN
         /\ Whole(wire'[c]) /\ conn[c].fd
         /\ ToSet(wire'[c]) \subseteq ToSet(wire[c]) \cup {m}
         /\ SendsAll(c) => Complete(wire'[c])
         /\ SendsSome(c) =>
              /\ conn'[c].isendlen \in 1..Size[m] /\ conn'[c].isendlen < Size[m]
              /\ Given(wire'[c], m) = Size[m] - conn'[c].isendlen
              /\ wire'[c][Len(wire'[c])] = m
<1>1. PICK m \in Msg : m = conn[c].psendbuf
  BY Fields
<1>2. PICK l \in Nat : l = conn[c].isendlen
  BY Fields
<1>3. PICK s \in Seq(Msg) : s = wire[c]
  BY Types
<1>4. PICK n \in 1..l : Sends(c, n) /\ ((SendsAll(c) /\ n = l) \/ (~SendsAll(c) /\ n < l))
  <2>1. SendsAll(c) => Sends(c, l) /\ l \in 1..l
    BY <1>2 DEF SendsAll, Sends
  <2>2. SendsSome(c) => \E n \in 1..l : Sends(c, n) /\ n < l
    BY <1>2 DEF SendsSome
  <2>3. CASE SendsAll(c)
    BY <2>1, <2>3
  <2>4. CASE ~SendsAll(c)
    BY <2>2, <2>4
  <2> QED BY <2>3, <2>4
<1>5. conn[c].fd /\ Begun(c, m, l)
  BY <1>1, <1>2, <1>4 DEF Sends, InHand
<1>6. PICK t : t = With(s, m, n)
  OBVIOUS
<1>7. wire'[c] = t
  BY <1>1, <1>3, <1>4, <1>6, Types DEF Sends, With
<1>8. /\ l \in 1..Size[m] /\ Given(s, m) = Size[m] - l /\ Size[m] \in Nat
      /\ l = Size[m] => Complete(s)
      /\ l < Size[m] => s[Len(s)] = m
  BY <1>3, <1>5, SizesAssumption DEF Begun
<1>9. PICK g \in Nat, z \in Nat : g = Given(s, m) /\ z = Size[m] /\ g = z - l /\ l <= z
  <2>1. Size[m] \in Nat /\ Size[m] - l \in Nat /\ l <= Size[m]
    BY <1>8
  <2> QED BY <1>8, <2>1
<1>10. ASSUME NEW k \in Nat, k > 0, k <= l, t = With(s, m, k)
       PROVE  /\ Given(t, m) = g + k /\ Whole(t)
              /\ g + k = z => Complete(t)
  <2>1. g + k <= z /\ (g = 0 => l = z) /\ (g # 0 => l < z)
    BY <1>9, <1>10
  <2>2. (Given(s, m) = 0 => Complete(s)) /\ (Given(s, m) # 0 => s[Len(s)] = m)
        /\ Whole(s) /\ Given(s, m) + k <= Size[m]
    BY <1>3, <1>8, <1>9, <2>1
  <2>3. Given(t, m) = Given(s, m) + k
    BY <1>10, <2>2, PiecesAppended
  <2>4. Whole(t)
    BY <1>10, <2>2, PiecesAppended
  <2>5. Given(t, m) = Size[m] => Complete(t)
    BY <1>10, <2>2, PiecesAppended
  <2> QED BY <1>9, <2>3, <2>4, <2>5
<1>11. Whole(t) /\ (SendsAll(c) => Complete(t))
  <2>1. n \in Nat /\ n > 0 /\ n <= l
    OBVIOUS
  <2>2. Whole(t) /\ (g + n = z => Complete(t))
    BY <1>6, <1>10, <2>1
  <2>3. SendsAll(c) => g + n = z
    BY <1>4, <1>9
  <2> QED BY <2>2, <2>3
<1>13. t \in Seq(Msg) /\ t[Len(t)] = m /\ ToSet(t) \subseteq ToSet(s) \cup {m}
  <2>1. n \in Nat /\ n > 0
    OBVIOUS
  <2>2. t \in Seq(Msg) /\ t[Len(t)] = m
    BY <1>6, <2>1, CopiesAdded
  <2>3. ToSet(t) \subseteq ToSet(s) \cup {m}
    BY <1>6, <2>1, CopiesAdded
  <2> QED BY <2>2, <2>3
<1>12. ASSUME SendsSome(c)
       PROVE /\ conn'[c].isendlen \in 1..Size[m] /\ conn'[c].isendlen < Size[m]
             /\ Given(t, m) = Size[m] - conn'[c].isendlen
  <2>1. PICK k \in 1..(l - 1) : Sends(c, k)
    BY <1>2, <1>12 DEF SendsSome
  <2>2. wire'[c] = With(s, m, k)
    BY <1>1, <1>3, <2>1, Types DEF Sends, With
  <2>3. Given(t, m) = g + k
    <3>1. k \in Nat /\ k > 0 /\ k <= l
      OBVIOUS
    <3>2. t = With(s, m, k)
      BY <1>7, <2>2
    <3> QED BY <1>10, <3>1, <3>2
  <2>4. conn' = [conn EXCEPT ![c].isendlen = l - k]
    BY <1>2, <2>1 DEF Sends
  <2>5. conn'[c].isendlen = l - k
    <3>1. l - k \in Nat
      OBVIOUS
    <3> QED BY <2>4, <3>1, LengthSet
  <2>6. l - k \in 1..z /\ l - k < z /\ g + k = z - (l - k)
    BY <1>9
  <2> QED BY <1>9, <2>3, <2>5, <2>6
<1> QED BY <1>1, <1>3, <1>5, <1>7, <1>10, <1>11, <1>12, <1>13

\* A step that does not touch the sending state of a connection leaves it in hand.
LEMMA HandKept ==
  ASSUME NEW c \in Conn, InHand(c), conn'[c].fd => conn[c].fd, wire'[c] = wire[c],
         SamePointers(c), SameLength(c), Unsent(c)' <=> Unsent(c),
         conn'[c].fd /\ Unsent(c) /\
           (conn[c].iThrowsendCount > 0 \/ SenderAt(c, {"send", "raise"})) =>
             conn'[c].iThrowsendCount > 0 \/ SenderAt(c, {"send", "raise"})'
  PROVE  InHand(c)'
<1>1. ASSUME conn'[c].fd, Unsent(c)
      PROVE  Begun(c, conn[c].psendbuf, conn[c].isendlen)'
  <2>1. Begun(c, conn[c].psendbuf, conn[c].isendlen)
    BY <1>1 DEF InHand
  <2>2. PICK m, n : m = conn[c].psendbuf /\ n = conn[c].isendlen
    OBVIOUS
  <2>3. conn'[c].psendbuf = m /\ conn'[c].isendlen = n
    BY <2>2 DEF SamePointers, SameLength
  <2>4. Begun(c, m, n)
    BY <2>1, <2>2
  <2>5. Begun(c, m, n)'
    BY <1>1, <2>4 DEF Begun
  <2> QED BY <2>3, <2>5
<1>2. ASSUME conn'[c].fd, ~Unsent(c) PROVE Complete(wire'[c])
  BY <1>2 DEF InHand
<1> QED BY <1>1, <1>2 DEF InHand

\* The same, for another connection than the one of the step.
LEMMA HandOfOther ==
  ASSUME TypeOK, NEW c \in Conn, InHand(c), wire'[c] = wire[c],
         conn' = conn \/ \E d \in Conn : d # c /\ Changes(d),
         SenderAt(c, {"free", "clear"})' <=> SenderAt(c, {"free", "clear"}),
         SenderAt(c, {"send", "raise"}) => SenderAt(c, {"send", "raise"})',
         ReactorAt(c, {"disarm", "post", "free", "clear"})'
           <=> ReactorAt(c, {"disarm", "post", "free", "clear"})
  PROVE  InHand(c)'
<1>1. conn'[c] = conn[c]
  BY DEF Changes
<1>2. Unsent(c)' <=> Unsent(c)
  BY <1>1 DEF Unsent
<1> QED BY <1>1, <1>2, HandKept DEF SamePointers, SameLength

\* The steps of pool threads, closers and clients.
LEMMA HandByOthers ==
  ASSUME TypeOK, QueueKept, ConnectionsKept, NEW c \in Conn, InHand(c),
         \/ \E m \in Msg : Reply(m)
         \/ \E m \in Msg : msgSend(m)
         \/ \E x \in Closers : zdClosesocketProc(x)
         \/ \E d \in Conn : TimerKicks(d) \/ PeerLeaves(d)
         \/ \E d \in Conn : Recycle(d)
         \/ \E d \in Conn : Accept(d)
         \/ DropStale \/ UNCHANGED vars
  PROVE  InHand(c)'
<1> USE DEF queueVars, threadVars
<1>1. ASSUME UNCHANGED <<sender, reactor, wire>>, NEW d \in Conn, Changes(d),
             SamePointers(d), SameLength(d), SameThrow(d), conn'[d].fd => conn[d].fd
      PROVE  InHand(c)'
  <2>1. SamePointers(c) /\ SameLength(c) /\ SameThrow(c) /\ (conn'[c].fd => conn[c].fd)
    BY <1>1 DEF Changes, SamePointers, SameLength, SameThrow
  <2>2. Unsent(c)' <=> Unsent(c)
    BY <1>1, <2>1 DEF Unsent, SenderAt, ReactorAt, SamePointers
  <2> QED BY <1>1, <2>1, <2>2, HandKept DEF SenderAt, SameThrow
<1>2. ASSUME UNCHANGED <<sender, reactor, wire, conn>> PROVE InHand(c)'
  BY <1>2, HandOfOther DEF SenderAt, ReactorAt
<1>3. ASSUME UNCHANGED <<sender, reactor, wire>>, NEW d \in Conn, d # c, Changes(d)
      PROVE  InHand(c)'
  BY <1>3, HandOfOther DEF SenderAt, ReactorAt
<1>4. ASSUME NEW m \in Msg, msgSend(m) PROVE InHand(c)'
  <2>1. UNCHANGED <<sender, reactor, wire>>
    BY <1>4 DEF msgSend
  <2>2. CASE Push(m)
    <3>1. To(m) \in Conn
      BY <1>4, SettingFacts DEF msgSend, QueueKept
    <3>2. /\ Changes(To(m)) /\ SameUse(To(m)) /\ SamePointers(To(m)) /\ SameThrow(To(m))
          /\ SameLength(To(m))
      BY <2>2, <3>1, Counted DEF Push
    <3> QED BY <1>1, <2>1, <3>1, <3>2 DEF SameUse
  <2> QED BY <1>2, <1>4, <2>1, <2>2 DEF msgSend, Discard, CutOff
<1>5. ASSUME NEW x \in Closers, zdClosesocketProc(x) PROVE InHand(c)'
  <2>1. PICK d \in Conn : d = closer[x].c
    BY CloserPlace
  <2>2. /\ closer[x].pc \in {"fd", "throw", "less", "recy"} /\ UNCHANGED <<sender, reactor, wire>>
    BY <1>5, CloserMoves
  <2>3. conn' = [conn EXCEPT ![d] = CloseStep(closer[x].pc, @)]
    BY <1>5, <2>1 DEF zdClosesocketProc
  <2>4. Changes(d) /\ conn'[d].fd = IF closer[x].pc = "fd" THEN FALSE ELSE conn[d].fd
    BY <2>2, <2>3, Closing
  <2>5. closer[x].pc \in {"throw", "less", "recy"} => ~conn[d].fd
    BY <2>1 DEF ConnectionsKept
  <2>6. ~conn'[d].fd
    BY <2>2, <2>4, <2>5
  <2>7. CASE d = c
    BY <2>6, <2>7 DEF InHand
  <2>8. CASE d # c
    BY <1>3, <2>2, <2>4, <2>8
  <2> QED BY <2>7, <2>8
<1>6. ASSUME NEW d \in Conn, Recycle(d) PROVE InHand(c)'
  <2>1. Changes(d) /\ conn'[d].fd = conn[d].fd /\ ~conn[d].fd /\ UNCHANGED <<sender, reactor, wire>>
    BY <1>6, Recycled DEF Recycle, ConnectionsKept, Online
  <2>2. CASE d = c
    BY <2>1, <2>2 DEF InHand
  <2>3. CASE d # c
    BY <1>3, <2>1, <2>3
  <2> QED BY <2>2, <2>3
<1>7. ASSUME NEW d \in Conn, Accept(d) PROVE InHand(c)'
  <2>1. /\ Changes(d) /\ conn'[d].psendMemPointer = NoMsg
        /\ UNCHANGED <<sender, reactor>> /\ wire' = [wire EXCEPT ![d] = <<>>]
    BY <1>7, Accepted DEF Accept
  <2>2. CASE d = c
    <3>1. wire'[c] = <<>>
      BY <2>1, <2>2, Types
    <3>2. ~Unsent(c)'
      BY <2>1, <2>2 DEF Unsent
    <3> QED BY <3>1, <3>2 DEF InHand, Complete
  <2>3. CASE d # c
    <3>1. wire'[c] = wire[c]
      BY <2>1, <2>3, Types
    <3> QED BY <2>1, <2>3, <3>1, HandOfOther DEF SenderAt, ReactorAt
  <2> QED BY <2>2, <2>3
<1>8. ASSUME NEW m \in Msg, Reply(m) PROVE InHand(c)'
  BY <1>2, <1>8 DEF Reply
<1>9. ASSUME NEW d \in Conn, TimerKicks(d) \/ PeerLeaves(d) PROVE InHand(c)'
  BY <1>2, <1>9 DEF TimerKicks, PeerLeaves
<1>10. CASE DropStale \/ UNCHANGED vars
  BY <1>2, <1>10 DEF DropStale, vars
<1> QED BY <1>4, <1>5, <1>6, <1>7, <1>8, <1>9, <1>10

\* A thread sends on one connection at a time.
LEMMA ElsewhereSent ==
  ASSUME TypeOK, NEW c \in Conn, NEW d \in Conn, d # c,
         SendsAll(d) \/ SendsSome(d) \/ SendFails(d) \/ BufferFull(d)
  PROVE  wire'[c] = wire[c]
<1>1. wire \in [Conn -> Seq(Msg)]
  BY Types
<1>2. CASE SendsAll(d) \/ SendsSome(d)
  BY <1>1, <1>2 DEF SendsAll, SendsSome, Sends
<1>3. CASE SendFails(d) \/ BufferFull(d)
  BY <1>3 DEF SendFails, BufferFull
<1> QED BY <1>2, <1>3

\* With the last piece sent, and psendMemPointer cleared, whole messages are left.
LEMMA HandDone ==
  ASSUME NEW c \in Conn, InHand(c), SameUse(c), wire'[c] = wire[c], ~Unsent(c), ~Unsent(c)'
  PROVE  InHand(c)'
<1>1. ASSUME conn'[c].fd PROVE Complete(wire'[c])
  BY <1>1 DEF InHand, SameUse
<1> QED BY <1>1 DEF InHand

\* One call of sendproc by the thread that has the message in hand.
LEMMA HandSent ==
  ASSUME TypeOK, NEW c \in Conn, InHand(c), Whole(wire[c]), peer[c] = "there",
         conn[c].fd => Unsent(c) /\ conn[c].psendbuf # NoMsg,
         \/ SendsAll(c) /\ ~Unsent(c)'
         \/ /\ SendsSome(c) \/ BufferFull(c)
            /\ Unsent(c)'
            /\ conn'[c].iThrowsendCount > 0 \/ SenderAt(c, {"send", "raise"})'
         \/ SendFails(c)
  PROVE  InHand(c)'
<1>1. CASE SendFails(c)
  BY <1>1 DEF SendFails, InHand
<1>2. CASE SendsAll(c) /\ ~Unsent(c)'
  <2>1. conn[c].fd
    BY <1>2 DEF SendsAll, Sends
  <2>2. Complete(wire'[c])
    BY <1>2, <2>1, PartSent
  <2> QED BY <1>2, <2>2 DEF InHand
<1>3. ASSUME Unsent(c)', conn'[c].iThrowsendCount > 0 \/ SenderAt(c, {"send", "raise"})',
             SendsSome(c)
      PROVE  InHand(c)'
  <2>1. conn[c].fd
    BY <1>3 DEF SendsSome, Sends
  <2>2. PICK m : m = conn[c].psendbuf
    OBVIOUS
  <2>3. PICK n : n = conn'[c].isendlen
    OBVIOUS
  <2>4. /\ conn'[c].isendlen \in 1..Size[m] /\ conn'[c].isendlen < Size[m]
        /\ Given(wire'[c], m) = Size[m] - conn'[c].isendlen
        /\ wire'[c][Len(wire'[c])] = m
    BY <1>3, <2>1, <2>2, PartSent
  <2>5. Size[m] \in Nat
    BY <2>1, <2>2, Fields, SizesAssumption
  <2>6. n # Size[m]
    BY <2>3, <2>4, <2>5
  <2>7. Begun(c, m, n)'
    BY <1>3, <2>3, <2>4, <2>6 DEF Begun
  <2>8. conn'[c].psendbuf = m
    BY <1>3, <2>2, Sent DEF SamePointers
  <2>9. Begun(c, conn[c].psendbuf, conn[c].isendlen)'
    BY <2>3, <2>7, <2>8
  <2> QED BY <1>3, <2>9 DEF InHand
<1>4. ASSUME Unsent(c)', conn'[c].iThrowsendCount > 0 \/ SenderAt(c, {"send", "raise"})',
             BufferFull(c)
      PROVE  InHand(c)'
  <2>1. conn' = conn /\ wire' = wire /\ conn[c].fd
    BY <1>4 DEF BufferFull
  <2>2. Unsent(c)
    BY <2>1
  <2> QED BY <1>4, <2>1, <2>2, HandKept DEF SamePointers, SameLength
<1> QED BY <1>1, <1>2, <1>3, <1>4

\* The steps of the send thread.
LEMMA HandBySender ==
  ASSUME TypeOK, MutexKept, QueueKept, PointersKept, HandedOver, NEW c \in Conn, InHand(c),
         Whole(wire[c]), \A m \in ToSet(wire[c]) : LeftQueue(m), \A d \in Conn : peer[d] = "there",
         \/ SemWait \/ SemInterrupted \/ Lock \/ Unlock \/ TestSequence \/ Skip \/ TakeMessage
         \/ SenderSends \/ SenderFrees \/ SenderClears \/ RaiseThrow \/ Arm
  PROVE  InHand(c)'
<1> USE DEF queueVars, threadVars
<1>1. PICK d \in Conn : d = sender.c
  BY SenderPlace
<1>2. /\ sender \in [pc : SenderPcs, pos : Nat, c : Conn] /\ PassedOn(c)
      /\ conn[c].iThrowsendCount \in Int
  BY Types, Fields DEF HandedOver
<1>3. conn[c].fd => Shared(c)
  BY DEF Shared
<1>4. CASE SemWait \/ SemInterrupted \/ Lock \/ Unlock \/ TestSequence \/ Skip
  <2>1. /\ UNCHANGED <<conn, wire, reactor>>
        /\ sender.pc \in {"wait", "lock", "seq", "throw"}
        /\ sender'.pc \in {"wait", "lock", "seq", "throw"}
    BY <1>2, <1>4 DEF SemWait, SemInterrupted, Lock, Unlock, TestSequence, Skip
  <2> QED BY <2>1, HandOfOther DEF SenderAt, ReactorAt
<1>5. CASE TakeMessage
  <2>1. /\ UNCHANGED <<wire, reactor>> /\ conn' = [conn EXCEPT ![d] = Loaded(@)]
        /\ sender.pc = "throw" /\ sender'.pc = "send" /\ sender'.c = d
        /\ ~(conn[d].iThrowsendCount > 0)
    BY <1>1, <1>2, <1>5 DEF TakeMessage, GivenToReactor
  <2>2. PICK m \in Msg : m = Current /\ m \in ToSet(m_MsgSendQueue)
    BY <1>5, CurrentFacts DEF TakeMessage, QueueKept
  <2>3. /\ Changes(d) /\ conn'[d].psendMemPointer = m /\ conn'[d].psendbuf = m
        /\ conn'[d].isendlen = Size[m] /\ SameUse(d)
    BY <2>1, <2>2, Taken
  <2>4. CASE d # c
    BY <1>1, <2>1, <2>3, <2>4, HandOfOther DEF SenderAt, ReactorAt
  <2>5. ASSUME d = c, conn[c].fd PROVE Begun(c, m, Size[m])'
    <3>1. ~Unsent(c)
      <4>1. Unsent(c) => Begun(c, conn[c].psendbuf, conn[c].isendlen)
        BY <2>5 DEF InHand
      <4>2. ~SenderAt(c, {"send", "raise"})
        BY <2>1 DEF SenderAt
      <4> QED BY <2>1, <2>5, <4>1, <4>2 DEF Begun
    <3>2. Complete(wire[c])
      BY <2>5, <3>1 DEF InHand
    <3>3. m \notin ToSet(wire[c])
      BY <2>2 DEF LeftQueue
    <3>4. Given(wire[c], m) = 0
      <4>1. PICK s \in Seq(Msg) : s = wire[c]
        BY Types
      <4>2. {i \in 1..Len(s) : s[i] = m} = {}
        BY <3>3, <4>1 DEF ToSet
      <4> QED BY <4>1, <4>2, FS_EmptySet DEF Given
    <3>5. Size[m] \in Nat \ {0}
      BY SizesAssumption
    <3>6. Size[m] \in 1..Size[m] /\ Size[m] - Size[m] = 0 /\ ~(Size[m] < Size[m])
      BY <3>5
    <3> QED BY <2>1, <2>5, <3>2, <3>4, <3>6 DEF Begun, SenderAt
  <2>6. CASE d = c
    <3>1. ASSUME conn[c].fd PROVE Unsent(c)'
      <4>1. ~ReactorAt(c, Writing)
        BY <1>1, <1>3, <1>5, <2>6, <3>1, TakenAlone
      <4>2. conn'[c].psendMemPointer # NoMsg
        BY <2>3, <2>6, NoMsgAssumption
      <4> QED BY <2>1, <4>1, <4>2 DEF Unsent, SenderAt, ReactorAt, Writing
    <3>2. conn'[c].fd <=> conn[c].fd
      BY <2>3, <2>6 DEF SameUse
    <3>3. ASSUME conn'[c].fd PROVE Begun(c, conn[c].psendbuf, conn[c].isendlen)'
      <4>1. PICK n : n = Size[m]
        OBVIOUS
      <4>2. Begun(c, m, n)'
        BY <2>5, <2>6, <3>2, <3>3, <4>1
      <4>3. conn'[c].psendbuf = m /\ conn'[c].isendlen = n
        BY <2>3, <2>6, <4>1
      <4> QED BY <4>2, <4>3
    <3> QED BY <3>1, <3>2, <3>3 DEF InHand
  <2> QED BY <2>4, <2>6
<1>6. CASE SenderSends
  <2>1. /\ UNCHANGED <<reactor, peer>> /\ sender.pc = "send" /\ sender'.c = d
        /\ Changes(d) /\ SamePointers(d)
    BY <1>1, <1>2, <1>6, Sent DEF SenderSends
  <2>2. CASE d # c
    <3>1. wire'[c] = wire[c]
      BY <1>1, <1>6, <2>2, ElsewhereSent DEF SenderSends
    <3> QED BY <1>1, <2>1, <2>2, <3>1, HandOfOther DEF SenderAt, ReactorAt
  <2>3. CASE d = c
    <3>1. /\ SenderAt(c, {"send"}) /\ SenderAt(c, Sending \ {"clear"})
          /\ ~SenderAt(c, {"free", "clear"}) /\ SenderAt(c, Sending)
      BY <1>1, <2>1, <2>3 DEF SenderAt, Sending
    <3>2. ASSUME conn[c].fd
          PROVE  Unsent(c) /\ conn[c].psendbuf # NoMsg /\ ~ReactorAt(c, Writing)
      BY <1>2, <1>3, <3>1, <3>2 DEF PassedOn, Unsent, ReactorAt, Writing
    <3>3. CASE (SendsAll(c) \/ SendFails(c)) /\ sender'.pc = "free"
      <4>1. ~Unsent(c)'
        BY <2>1, <2>3, <3>3 DEF Unsent, SenderAt
      <4> QED BY <3>2, <3>3, <4>1, HandSent
    <3>4. CASE (SendsSome(c) \/ BufferFull(c)) /\ sender'.pc = "raise"
      <4>1. conn[c].fd
        BY <3>4 DEF SendsSome, Sends, BufferFull
      <4>2. conn[c].psendMemPointer # NoMsg /\ ~ReactorAt(c, Writing)
        BY <3>2, <4>1 DEF Unsent
      <4>3. Unsent(c)' /\ SenderAt(c, {"send", "raise"})'
        BY <2>1, <2>3, <3>4, <4>2 DEF Unsent, SenderAt, ReactorAt, Writing, SamePointers
      <4> QED BY <3>2, <3>4, <4>3, HandSent
    <3> QED BY <1>1, <1>2, <1>6, <2>3, <3>3, <3>4 DEF SenderSends
  <2> QED BY <2>2, <2>3
<1>7. CASE SenderFrees
  <2>1. /\ UNCHANGED <<conn, wire, reactor>> /\ sender.pc = "free"
        /\ sender'.pc = "clear" /\ sender'.c = sender.c
    BY <1>2, <1>7 DEF SenderFrees
  <2> QED BY <2>1, HandOfOther DEF SenderAt, ReactorAt
<1>8. CASE SenderClears
  <2>0. 0 \in Int
    OBVIOUS
  <2>1. /\ UNCHANGED <<wire, reactor>> /\ sender.pc = "clear" /\ sender'.pc = "seq"
        /\ Changes(d) /\ SameUse(d) /\ conn'[d].psendMemPointer = NoMsg
    BY <1>1, <1>2, <1>8, <2>0, PointerCleared DEF SenderClears
  <2>2. CASE d # c
    BY <1>1, <2>1, <2>2, HandOfOther DEF SenderAt, ReactorAt
  <2>3. CASE d = c
    <3>1. ~Unsent(c) /\ ~Unsent(c)'
      BY <1>1, <2>1, <2>3 DEF Unsent, SenderAt
    <3> QED BY <2>1, <2>3, <3>1, HandDone
  <2> QED BY <2>2, <2>3
<1>9. CASE RaiseThrow
  <2>1. PICK n \in Int : n = conn[d].iThrowsendCount
    BY Fields
  <2>2. n + 1 \in Int
    OBVIOUS
  <2>3. conn' = [conn EXCEPT ![d].iThrowsendCount = n + 1]
    BY <1>1, <1>9, <2>1 DEF RaiseThrow
  <2>4. /\ UNCHANGED <<wire, reactor>> /\ sender.pc = "raise" /\ sender'.pc = "arm"
        /\ sender'.c = d
    BY <1>1, <1>2, <1>9 DEF RaiseThrow
  <2>5. /\ Changes(d) /\ SameUse(d) /\ SamePointers(d) /\ SameLength(d)
        /\ conn'[d].iThrowsendCount = n + 1
    BY <2>2, <2>3, ThrowSet
  <2>6. CASE d # c
    BY <1>1, <2>4, <2>5, <2>6, HandOfOther DEF SenderAt, ReactorAt
  <2>7. CASE d = c
    <3>1. ASSUME conn[c].fd PROVE conn'[c].iThrowsendCount > 0
      <4>1. conn[c].iThrowsendCount >= 0
        BY <1>2, <3>1 DEF PassedOn
      <4> QED BY <2>1, <2>5, <2>7, <4>1
    <3>2. Unsent(c)' <=> Unsent(c)
      BY <1>1, <2>4, <2>5, <2>7 DEF Unsent, SenderAt, ReactorAt, SamePointers
    <3> QED BY <2>4, <2>5, <2>7, <3>1, <3>2, HandKept DEF SameUse
  <2> QED BY <2>6, <2>7
<1>10. CASE Arm
  <2>1. /\ UNCHANGED <<wire, reactor>> /\ sender.pc = "arm" /\ sender'.pc = "seq"
        /\ sender'.c = d
        /\ Changes(d) /\ SameUse(d) /\ SamePointers(d) /\ SameThrow(d) /\ SameLength(d)
    BY <1>1, <1>2, <1>10, EventsSet DEF Arm
  <2>2. CASE d # c
    BY <1>1, <2>1, <2>2, HandOfOther DEF SenderAt, ReactorAt
  <2>3. CASE d = c
    <3>1. Unsent(c)' <=> Unsent(c)
      BY <1>1, <2>1, <2>3 DEF Unsent, SenderAt, ReactorAt, SamePointers
    <3>2. ~SenderAt(c, {"send", "raise"})
      BY <2>1 DEF SenderAt
    <3> QED BY <2>1, <2>3, <3>1, <3>2, HandKept DEF SameUse, SameThrow
  <2> QED BY <2>2, <2>3
<1> QED BY <1>4, <1>5, <1>6, <1>7, <1>8, <1>9, <1>10

\* The steps of the reactor, which meets no hangup.
LEMMA HandByReactor ==
  ASSUME TypeOK, HandedOver, NEW c \in Conn, InHand(c), Whole(wire[c]),
         \A d \in Conn : peer[d] = "there", reactor.pc \notin HangingUp,
         \/ \E d \in Conn : WriteEvent(d) \/ HangupEvent(d)
         \/ Read \/ ReactorCloses \/ HangupWrite \/ ReactorSends \/ Disarm \/ Post
         \/ ReactorFrees \/ ReactorClears \/ LowerThrow
  PROVE  InHand(c)'
<1> USE DEF queueVars, threadVars
<1>1. PICK d \in Conn : d = reactor.c
  BY ReactorPlace
<1>2. reactor \in [pc : ReactorPcs, c : Conn, out : BOOLEAN] /\ PassedOn(c)
  BY Types DEF HandedOver
<1>3. conn[c].fd => Shared(c)
  BY DEF Shared
<1>4. CASE Read \/ ReactorCloses \/ HangupWrite
  BY <1>4 DEF Read, ReactorCloses, HangupWrite, HangingUp
<1>5. ASSUME NEW e \in Conn, WriteEvent(e) \/ HangupEvent(e) PROVE InHand(c)'
  <2>1. /\ UNCHANGED <<conn, wire, sender>> /\ reactor.pc = "idle"
        /\ reactor'.pc \in {"write", "read"}
    BY <1>5 DEF WriteEvent, HangupEvent
  <2> QED BY <2>1, HandOfOther DEF SenderAt, ReactorAt
<1>6. CASE Post \/ ReactorFrees
  <2>1. /\ UNCHANGED <<conn, wire, sender>> /\ reactor.pc \in {"post", "free"}
        /\ reactor'.pc \in {"free", "clear"} /\ reactor'.c = reactor.c
    BY <1>2, <1>6 DEF Post, ReactorFrees
  <2> QED BY <2>1, HandOfOther DEF SenderAt, ReactorAt
<1>7. CASE ReactorSends
  <2>1. /\ UNCHANGED <<sender, peer>> /\ reactor.pc = "write" /\ reactor'.c = d
        /\ Changes(d) /\ SamePointers(d) /\ SameThrow(d)
    BY <1>1, <1>2, <1>7, Sent DEF ReactorSends
  <2>2. CASE d # c
    <3>1. wire'[c] = wire[c]
      BY <1>1, <1>7, <2>2, ElsewhereSent DEF ReactorSends
    <3> QED BY <1>1, <2>1, <2>2, <3>1, HandOfOther DEF SenderAt, ReactorAt
  <2>3. CASE d = c
    <3>1. /\ ReactorAt(c, {"write", "disarm", "post", "free"}) /\ ReactorAt(c, Writing)
          /\ ~ReactorAt(c, {"disarm", "post", "free", "clear"})
      BY <1>1, <2>1, <2>3 DEF ReactorAt, Writing
    <3>2. ASSUME conn[c].fd
          PROVE  Unsent(c) /\ conn[c].psendbuf # NoMsg /\ conn[c].iThrowsendCount > 0
      <4>1. ~SenderAt(c, Sending) /\ conn[c].psendMemPointer = conn[c].psendbuf
            /\ conn[c].psendbuf # NoMsg
        BY <1>2, <1>3, <3>1, <3>2 DEF PassedOn
      <4>2. Unsent(c) /\ ~SenderAt(c, {"send", "raise"})
        BY <3>1, <4>1 DEF Unsent, SenderAt, Sending
      <4>3. Begun(c, conn[c].psendbuf, conn[c].isendlen)
        BY <3>2, <4>2 DEF InHand
      <4> QED BY <4>1, <4>2, <4>3 DEF Begun
    <3>3. CASE SendsAll(c) /\ reactor'.pc = "disarm"
      <4>1. ~Unsent(c)'
        BY <2>1, <2>3, <3>3 DEF Unsent, ReactorAt
      <4> QED BY <3>2, <3>3, <4>1, HandSent
    <3>4. CASE SendFails(c)
      BY <3>2, <3>4, HandSent
    <3>5. CASE (SendsSome(c) \/ BufferFull(c)) /\ reactor'.pc = "idle"
      <4>1. conn[c].fd
        BY <3>5 DEF SendsSome, Sends, BufferFull
      <4>2. conn[c].psendMemPointer # NoMsg /\ ~SenderAt(c, {"free", "clear"})
        BY <3>2, <4>1 DEF Unsent
      <4>3. Unsent(c)' /\ conn'[c].iThrowsendCount > 0
        BY <2>1, <2>3, <3>2, <3>5, <4>1, <4>2
           DEF Unsent, SenderAt, ReactorAt, SamePointers, SameThrow
      <4> QED BY <3>2, <3>5, <4>3, HandSent
    <3> QED BY <1>1, <1>2, <1>7, <2>3, <3>3, <3>4, <3>5 DEF ReactorSends
  <2> QED BY <2>2, <2>3
<1>8. CASE Disarm
  <2>1. /\ UNCHANGED <<wire, sender>> /\ reactor.pc = "disarm" /\ reactor'.pc = "post"
        /\ reactor'.c = d /\ Changes(d) /\ SameUse(d)
    BY <1>1, <1>2, <1>8, EventsSet DEF Disarm
  <2>2. CASE d # c
    BY <1>1, <2>1, <2>2, HandOfOther DEF SenderAt, ReactorAt
  <2>3. CASE d = c
    <3>1. ~Unsent(c) /\ ~Unsent(c)'
      BY <1>1, <2>1, <2>3 DEF Unsent, ReactorAt
    <3> QED BY <2>1, <2>3, <3>1, HandDone
  <2> QED BY <2>2, <2>3
<1>9. CASE ReactorClears
  <2>1. PICK n \in Int : n = conn[d].iThrowsendCount
    BY Fields
  <2>2. /\ UNCHANGED <<wire, sender>> /\ reactor.pc = "clear" /\ reactor'.pc = "lower"
        /\ Changes(d) /\ SameUse(d) /\ conn'[d].psendMemPointer = NoMsg
    BY <1>1, <1>2, <1>9, <2>1, PointerCleared DEF ReactorClears
  <2>3. CASE d # c
    BY <1>1, <2>2, <2>3, HandOfOther DEF SenderAt, ReactorAt
  <2>4. CASE d = c
    <3>1. ~Unsent(c) /\ ~Unsent(c)'
      BY <1>1, <2>2, <2>4 DEF Unsent, ReactorAt
    <3> QED BY <2>2, <2>4, <3>1, HandDone
  <2> QED BY <2>3, <2>4
<1>10. CASE LowerThrow
  <2>1. PICK n \in Int : n = conn[d].iThrowsendCount
    BY Fields
  <2>2. n - 1 \in Int
    OBVIOUS
  <2>3. conn' = [conn EXCEPT ![d].iThrowsendCount = n - 1]
    BY <1>1, <1>10, <2>1 DEF LowerThrow
  <2>4. /\ UNCHANGED <<wire, sender>> /\ reactor.pc = "lower" /\ reactor'.pc = "idle"
    BY <1>2, <1>10 DEF LowerThrow
  <2>5. Changes(d) /\ SameUse(d) /\ SamePointers(d)
    BY <2>2, <2>3, ThrowSet
  <2>6. CASE d # c
    BY <1>1, <2>4, <2>5, <2>6, HandOfOther DEF SenderAt, ReactorAt
  <2>7. CASE d = c
    <3>1. CASE conn[c].fd
      <4>1. ReactorAt(c, {"lower"})
        BY <1>1, <2>4, <2>7 DEF ReactorAt
      <4>2. conn[c].psendMemPointer = NoMsg
        BY <1>2, <1>3, <3>1, <4>1 DEF PassedOn
      <4>3. ~Unsent(c) /\ ~Unsent(c)'
        BY <2>5, <2>7, <4>2 DEF Unsent, SamePointers
      <4> QED BY <2>4, <2>5, <2>7, <4>3, HandDone
    <3>2. CASE ~conn[c].fd
      BY <2>5, <2>7, <3>2 DEF InHand, SameUse
    <3> QED BY <3>1, <3>2
  <2> QED BY <2>6, <2>7
<1> QED BY <1>4, <1>5, <1>6, <1>7, <1>8, <1>9, <1>10

\* While no client leaves, every step keeps what the sockets have accepted in order.
LEMMA WireStep ==
  ASSUME TypeOK, MutexKept, QueueKept, ConnectionsKept, PointersKept, HandedOver,
         WireKept, WholeMessages, [Next]_vars
  PROVE  WireKept' /\ WholeMessages'
<1>1. setting' = setting
  BY OtherSteps
<1> SUFFICES ASSUME "peer" \notin setting.ends
             PROVE  /\ \A c \in Conn : peer'[c] = "there"
                    /\ \A c \in Conn : \A m \in ToSet(wire'[c]) : LeftQueue(m)'
                    /\ \A c \in Conn : InHand(c)'
                    /\ \A c \in Conn : Whole(wire'[c])
  BY <1>1 DEF WireKept, WholeMessages
<1>2. /\ \A c \in Conn : peer[c] = "there" /\ InHand(c) /\ Whole(wire[c])
      /\ \A c \in Conn : \A m \in ToSet(wire[c]) : LeftQueue(m) /\ m \in Msg
  <2>1. ASSUME NEW c \in Conn, NEW m \in ToSet(wire[c]) PROVE m \in Msg
    <3>1. wire[c] \in Seq(Msg)
      BY Types
    <3> QED BY <2>1, <3>1 DEF ToSet
  <2> QED BY <2>1 DEF WireKept, WholeMessages
<1>3. reactor.pc \notin HangingUp /\ \A c \in Conn : peer'[c] = "there"
  BY <1>2, PeersStay
<1>4. ASSUME NEW c \in Conn PROVE InHand(c)'
  BY <1>2, <1>3, AllSteps, HandByOthers, HandBySender, HandByReactor
<1>5. ASSUME NEW c \in Conn, SendsAll(c) \/ SendsSome(c),
             (SenderSends /\ sender.c = c) \/ (ReactorSends /\ reactor.c = c)
      PROVE  /\ Unsent(c) /\ conn[c].psendbuf # NoMsg
             /\ LeftQueue(conn[c].psendbuf) /\ conn[c].psendbuf \in Msg
  <2>1. conn[c].fd /\ Shared(c) /\ PassedOn(c)
    BY <1>5 DEF SendsAll, SendsSome, Sends, Shared, HandedOver
  <2>2. SenderAt(c, {"send"}) \/ ReactorAt(c, {"write"})
    BY <1>5 DEF SenderSends, ReactorSends, SenderAt, ReactorAt
  <2>3. /\ conn[c].psendMemPointer = conn[c].psendbuf /\ conn[c].psendbuf # NoMsg
        /\ ~(SenderAt(c, Sending) /\ ReactorAt(c, Writing))
    BY <2>1, <2>2 DEF PassedOn, SenderAt, ReactorAt, Sending, Writing
  <2>4. Unsent(c)
    BY <2>2, <2>3 DEF Unsent, SenderAt, ReactorAt, Sending, Writing
  <2>5. LeftQueue(conn[c].psendbuf)
    BY <2>3 DEF PointersKept, Points, LeftQueue
  <2> QED BY <2>3, <2>4, <2>5, Fields
<1>6. ASSUME NEW c \in Conn
      PROVE  Whole(wire'[c]) /\ \A m \in ToSet(wire'[c]) : m \in Msg /\ LeftQueue(m)
  <2>1. CASE wire'[c] = <<>>
    <3>1. Len(wire'[c]) = 0 /\ ToSet(wire'[c]) = {}
      BY <2>1 DEF ToSet
    <3> QED BY <3>1 DEF Whole
  <2>2. CASE wire'[c] = wire[c]
    BY <1>2, <2>2
  <2>3. CASE /\ SendsAll(c) \/ SendsSome(c)
             /\ (SenderSends /\ sender.c = c) \/ (ReactorSends /\ reactor.c = c)
    <3>1. /\ Whole(wire'[c])
          /\ ToSet(wire'[c]) \subseteq ToSet(wire[c]) \cup {conn[c].psendbuf}
      BY <1>2, <1>5, <2>3, PartSent
    <3> QED BY <1>2, <1>5, <2>3, <3>1
  <2> QED BY <2>1, <2>2, <2>3, WireGrows
<1>7. ASSUME NEW c \in Conn, NEW m \in ToSet(wire'[c]) PROVE LeftQueue(m)'
  BY <1>6, <1>7, LeftStays
<1> QED BY <1>3, <1>4, <1>6, <1>7

\* The invariant holds at first.
LEMMA InitIInv == Init => IInv
<1> SUFFICES ASSUME Init PROVE IInv
  OBVIOUS
<1> DEFINE x == Idle.c
<1>1. x \in Conn /\ Idle = [pc |-> "idle", c |-> x]
  <2>1. (CHOOSE c \in Conn : TRUE) \in Conn
    BY ConnAssumption
  <2> QED BY <2>1 DEF Idle
<1>2. /\ setting \in Setting /\ m_MsgSendQueue = <<>> /\ m_sendMessageQueueMutex = "none"
      /\ m_semEventSendQueue = 0 /\ conn = [c \in Conn |-> Fresh(0)]
      /\ hdr = [m \in Msg |-> 0] /\ mem = [m \in Msg |-> "none"]
      /\ sender = [pc |-> "wait", pos |-> 1, c |-> x]
      /\ reactor = [pc |-> "idle", c |-> x, out |-> FALSE]
      /\ closer = [y \in {"timer", "worker"} |-> Idle]
      /\ peer = [c \in Conn |-> "there"] /\ wire = [c \in Conn |-> <<>>]
  BY SettingsAssumption DEF Init
<1> HIDE DEF x
<1>3. \A c \in Conn :
        /\ conn[c] \in ConnType /\ conn[c].fd = TRUE /\ conn[c].list = "online"
        /\ conn[c].iCurrsequence = 1 /\ conn[c].iSendCount = 0 /\ conn[c].iThrowsendCount = 0
        /\ conn[c].psendMemPointer = NoMsg /\ conn[c].psendbuf = NoMsg
        /\ conn[c].EPOLLOUT = FALSE
  <2> DEFINE k == Fresh(0)
             n == 0 + 1
  <2>1. n = 1 /\ n \in Nat /\ "online" \in {"online", "recy", "free"}
    OBVIOUS
  <2>2. k = [fd |-> TRUE, list |-> "online", iCurrsequence |-> n, iSendCount |-> 0,
             iThrowsendCount |-> 0, psendMemPointer |-> NoMsg, psendbuf |-> NoMsg,
             isendlen |-> 0, EPOLLOUT |-> FALSE]
    BY DEF Fresh
  <2>3. \A c \in Conn : conn[c] = k
    BY <1>2
  <2> HIDE DEF k, n
  <2>4. k \in ConnType
    BY <2>1, <2>2 DEF ConnType
  <2>5. /\ k.fd = TRUE /\ k.list = "online" /\ k.iCurrsequence = n /\ k.iSendCount = 0
        /\ k.iThrowsendCount = 0 /\ k.psendMemPointer = NoMsg /\ k.psendbuf = NoMsg
        /\ k.EPOLLOUT = FALSE
    BY <2>2
  <2> QED BY <2>1, <2>3, <2>4, <2>5
<1>4. /\ Len(m_MsgSendQueue) = 0 /\ ToSet(m_MsgSendQueue) = {}
      /\ DOMAIN m_MsgSendQueue = {} /\ m_MsgSendQueue \in Seq(Msg)
  <2>1. <<>> \in Seq(Msg) /\ Len(<<>>) = 0 /\ DOMAIN <<>> = {}
    OBVIOUS
  <2> QED BY <1>2, <2>1 DEF ToSet
<1>5. \A c \in Conn : Len(wire[c]) = 0 /\ wire[c] \in Seq(Msg)
  BY <1>2
<1>6. sender.pc = "wait" /\ sender.pos = 1 /\ reactor.pc = "idle"
      /\ \A y \in Closers : closer[y].pc = "idle"
  BY <1>1, <1>2 DEF Closers
<1>7. TypeOK
  <2>1. conn \in [Conn -> ConnType]
    BY <1>2, <1>3
  <2>2. hdr \in [Msg -> Nat] /\ mem \in [Msg -> MemType]
    BY <1>2 DEF MemType
  <2>3. sender \in [pc : SenderPcs, pos : Nat, c : Conn]
    <3>1. "wait" \in SenderPcs /\ 1 \in Nat
      BY DEF SenderPcs
    <3> QED BY <1>1, <1>2, <3>1
  <2>4. reactor \in [pc : ReactorPcs, c : Conn, out : BOOLEAN]
    <3>1. "idle" \in ReactorPcs
      BY DEF ReactorPcs, Step
    <3> QED BY <1>1, <1>2, <3>1
  <2>5. closer \in [Closers -> [pc : Step, c : Conn]]
    BY <1>1, <1>2 DEF Step, Closers
  <2>6. peer \in [Conn -> {"there", "leaving", "gone"}] /\ wire \in [Conn -> Seq(Msg)]
    BY <1>2, <1>5
  <2>7. m_semEventSendQueue \in Nat
    BY <1>2
  <2> QED BY <1>2, <1>4, <2>1, <2>2, <2>3, <2>4, <2>5, <2>6, <2>7 DEF TypeOK
<1>8. MutexKept
  BY <1>2, <1>6 DEF MutexKept, Closers
<1>9. QueueKept
  <2>1. setting.MaxQueue \in Nat
    BY <1>7, SettingFacts
  <2>2. Len(m_MsgSendQueue) <= setting.MaxQueue + 1
    BY <1>4, <2>1
  <2>3. IsInjective(m_MsgSendQueue)
    BY <1>4 DEF IsInjective
  <2> QED BY <1>2, <1>4, <1>6, <2>2, <2>3 DEF QueueKept
<1>10. \A m \in Msg : mem[m] = "none"
  BY <1>2
<1>11. ConnectionsKept
  BY <1>3, <1>6, <1>10 DEF ConnectionsKept, Online, Sending, HangingUp
<1>12. HeadersKept
  BY <1>3, <1>5, <1>6, <1>10 DEF HeadersKept
<1>13. NoStaleReply
  BY <1>5 DEF NoStaleReply
<1>14. BacklogCounted
  <2>1. setting.MaxBacklog \in Nat /\ setting.MaxQueue \in Nat
    BY <1>7, SettingFacts
  <2>2. Cardinality({}) = 0
    BY FS_EmptySet
  <2>3. \A c \in Conn : Backlog(c) = {}
    BY <1>4 DEF Backlog
  <2>4. \A c \in Conn : conn[c].iSendCount <= setting.MaxBacklog + 1
    BY <1>3, <2>1
  <2>5. Len(m_MsgSendQueue) <= setting.MaxQueue + 1
    BY <1>4, <2>1
  <2> QED BY <1>3, <2>2, <2>3, <2>4, <2>5 DEF BacklogCounted, Backlog
<1>15. PointersKept
  BY <1>3 DEF PointersKept
<1>16. HandedOver
  BY <1>3, <1>6 DEF HandedOver, PassedOn, Armed, SenderAt, ReactorAt, Sending, Writing
<1>17. FreedOnce
  BY <1>10 DEF FreedOnce
<1>18. NoneLost
  <2>1. \A c \in Conn : NotLeft(c)
    BY <1>2, <1>3 DEF NotLeft
  <2> QED BY <1>6, <1>10, <2>1 DEF NoneLost, HangingUp, NoneForgotten
<1>19. WireKept /\ WholeMessages
  <2>1. \A c \in Conn : wire[c] = <<>> /\ ToSet(wire[c]) = {}
    BY <1>2 DEF ToSet
  <2>2. \A c \in Conn : ~Unsent(c) /\ peer[c] = "there"
    BY <1>2, <1>3 DEF Unsent
  <2>3. \A c \in Conn : InHand(c)
    BY <2>1, <2>2 DEF InHand, Complete
  <2>4. \A c \in Conn : Whole(wire[c])
    BY <1>5 DEF Whole
  <2> QED BY <2>1, <2>2, <2>3, <2>4 DEF WireKept, WholeMessages
<1> QED
  BY <1>7, <1>8, <1>9, <1>11, <1>12, <1>13, <1>14, <1>15, <1>16, <1>17, <1>18, <1>19 DEF IInv

\* Every step keeps the invariant.
LEMMA StepIInv == IInv /\ [Next]_vars => IInv'
<1> SUFFICES ASSUME IInv, [Next]_vars PROVE IInv'
  OBVIOUS
<1>1. /\ TypeOK /\ MutexKept /\ QueueKept /\ ConnectionsKept
      /\ HeadersKept /\ NoStaleReply /\ BacklogCounted
      /\ PointersKept /\ HandedOver /\ NoneLost
      /\ FreedOnce \/ "timer" \in setting.ends
      /\ WireKept /\ WholeMessages
  BY DEF IInv
<1>2. TypeOK' /\ MutexKept' /\ QueueKept'
  BY <1>1, TypeStep, MutexStep, QueueStep
<1>3. ConnectionsKept' /\ HeadersKept' /\ NoStaleReply'
  BY <1>1, <1>2, ConnectionsStep, HeadersStep, NoStaleStep
<1>4. BacklogCounted' /\ PointersKept' /\ HandedOver'
  BY <1>1, <1>2, BacklogStep, PointersStep, HandedStep
<1>5. NoneLost' /\ (FreedOnce \/ "timer" \in setting.ends)'
  BY <1>1, <1>2, LostStep, FreedOnceStep
<1>6. WireKept' /\ WholeMessages'
  BY <1>1, WireStep
<1> QED BY <1>2, <1>3, <1>4, <1>5, <1>6 DEF IInv

(* The theorems *)

\* Every behaviour of the send path, in every setting, keeps the inductive invariant.
THEOREM Invariant == Spec => []IInv
BY InitIInv, StepIInv, PTL DEF Spec

\* The variables keep their types.
THEOREM TypeCorrect == Spec => []TypeOK
<1>1. IInv => TypeOK
  BY DEF IInv
<1> QED BY <1>1, Invariant, PTL

\* Send thread and reactor agree on whose the message is that a connection is sending
\* (psendMemPointer and iThrowsendCount): what is given to an open socket is not freed, and
\* without the timer thread no message is freed twice.
THEOREM PassedSafely == Spec => []MemoryPassed
<1>1. ASSUME IInv, NEW c \in Conn, conn[c].fd,
             (sender.pc = "send" /\ sender.c = c) \/ (reactor.pc = "write" /\ reactor.c = c)
      PROVE  conn[c].psendbuf \in Msg /\ mem[conn[c].psendbuf] = "sent"
  <2>1. PassedOn(c) /\ TypeOK /\ PointersKept /\ Shared(c)
    BY <1>1 DEF IInv, HandedOver, Shared
  <2>2. SenderAt(c, {"send"}) \/ ReactorAt(c, {"write"})
    BY <1>1 DEF SenderAt, ReactorAt
  <2>3. conn[c].psendMemPointer = conn[c].psendbuf /\ conn[c].psendbuf # NoMsg /\ ~Clearing(c)
    BY <2>1, <2>2 DEF PassedOn, SenderAt, ReactorAt, Sending, Writing, Clearing
  <2> QED BY <2>1, <2>3, Fields DEF PointersKept, Points
<1>2. IInv => MemoryPassed
  BY <1>1 DEF MemoryPassed, IInv
<1> QED BY <1>2, Invariant, PTL

\* While only msgSend closes connections, a message that it queued is in the queue or is
\* what its connection is sending, until it is freed.
THEOREM NoneForgottenAlways == Spec => []NoneForgotten
<1>1. IInv => NoneForgotten
  BY DEF IInv, NoneLost, NoneForgotten
<1> QED BY <1>1, Invariant, PTL

\* iSendCount is the number of queued messages of the present user of a connection, and
\* neither limit of msgSend is passed by more than one.
THEOREM BacklogRight == Spec => []BacklogCounted
<1>1. IInv => BacklogCounted
  BY DEF IInv
<1> QED BY <1>1, Invariant, PTL

\* The sequence numbers keep replies to the previous user of a connection object from
\* its present one.
THEOREM RepliesFresh == Spec => []NoStaleReply
<1>1. IInv => NoStaleReply
  BY DEF IInv
<1> QED BY <1>1, Invariant, PTL

\* A client that stays gets whole messages one after the other (isendlen and what the socket
\* has accepted fit together whichever thread goes on with a message): none is cut off by the
\* next, mixed with it or sent again.
THEOREM WholeMessagesAlways == Spec => []WholeMessages
<1>1. IInv => WholeMessages
  BY DEF IInv
<1> QED BY <1>1, Invariant, PTL
=============================================================================
