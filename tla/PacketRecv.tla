----------------------------- MODULE PacketRecv -----------------------------
(***************************************************************************)
(* How the reactor cuts the bytes a client sends into packets:             *)
(* ngx_read_request_handler and what it calls in                           *)
(* net/ngx_c_socket_request.cpp, and TestFlood.  recv returns any number   *)
(* of the bytes asked for; a header is collected in dataHeadInfo, then a   *)
(* buffer is allocated and the body is received into it, and the complete  *)
(* packet goes to the thread pool.  Other threads may close the connection *)
(* at any time; when it is recycled a packet that is not complete is       *)
(* freed, and a new client gets the connection object.                     *)
(*                                                                         *)
(* Only the reactor uses the receiving state of a connection, so that one  *)
(* event is one step.  A byte is known by its packet and its place there.  *)
(* Lines 28-43 of the handler copy a packet of their own over the buffer   *)
(* before they receive: preset is its size, and 0 is the handler without   *)
(* these lines.                                                            *)
(***************************************************************************)
EXTENDS Integers, SequencesExt

CONSTANTS
  m_iLenPkgHeader,   \* 8
  MaxPkgLen,         \* _PKG_MAX_LENGTH - 1000
  _DATA_BUFSIZE_,    \* 20
  Presets,           \* the program as committed has 78
  PkgLens,           \* the lengths that headers announce
  FloodTests,        \* the values that nginx.conf may give Sock_FloodAttackKickEnable
  m_floodKickCount,
  MaxPackets, MaxUses  \* bounds

ASSUME LengthsAssumption ==
  /\ m_iLenPkgHeader \in 1.._DATA_BUFSIZE_
  /\ _DATA_BUFSIZE_ \in Nat /\ MaxPkgLen \in Nat /\ Presets \subseteq Nat
  /\ PkgLens \subseteq Nat
ASSUME FloodAssumption == FloodTests \subseteq BOOLEAN /\ m_floodKickCount \in Nat \ {0}
ASSUME BoundsAssumption == MaxPackets \in Nat /\ MaxUses \in Nat \ {0}

VARIABLES
  preset, m_floodAkEnable,  \* never change
  list,       \* the connection is "online", "recy" or "free"
  uses,       \* how often it was given to a client
  recv,       \* its receiving state
  flood,      \* FloodAttackCount, and whether FloodkickLastTime is set
  mem,        \* packet -> what became of its buffer
  lens,       \* the lengths announced by the headers sent so far
  accepted,   \* the packets of the present client that the server has to accept
  inflight,   \* bytes sent and not received
  delivered,  \* packets of the present client handed to the thread pool
  hasty,      \* for each packet of the client: it came soon after the previous one
  kicked      \* the client was closed for flooding

vars == <<preset, m_floodAkEnable, list, uses, recv, flood, mem, lens, accepted, inflight,
          delivered, hasty, kicked>>

settingVars == <<preset, m_floodAkEnable>>
clientVars == <<lens, accepted>>

Byte == [packet : 1..MaxPackets, place : Nat \ {0}]
Bytes(p, n) == [i \in 1..n |-> [packet |-> p, place |-> i]]

\* The checks of ngx_wait_request_handler_proc_p1.
Legal(len) == m_iLenPkgHeader <= len /\ len <= MaxPkgLen

\* What a client sends for a packet: it announces a length, and a body follows
\* if the server will accept it.
PacketLen(len) == IF Legal(len) THEN len ELSE m_iLenPkgHeader

\* GetOneToUse: head and body are the bytes in dataHeadInfo and in the buffer.
Start == [curStat |-> "_PKG_HD_INIT", head |-> <<>>, body |-> <<>>,
          irecvlen |-> m_iLenPkgHeader, precvMemPointer |-> 0, overrun |-> FALSE]

NoFlood == [FloodAttackCount |-> 0, timed |-> FALSE]

Init ==
  /\ preset \in Presets
  /\ m_floodAkEnable \in FloodTests
  /\ list = "online"
  /\ uses = 1
  /\ recv = Start
  /\ flood = NoFlood
  /\ mem = [p \in 1..MaxPackets |-> "none"]
  /\ lens = <<>>
  /\ accepted = <<>>
  /\ inflight = <<>>
  /\ delivered = <<>>
  /\ hasty = <<>>
  /\ kicked = FALSE

-----------------------------------------------------------------------------
(* The reactor *)

InHeader == recv.curStat \in {"_PKG_HD_INIT", "_PKG_HD_RECVING"}
InBody == recv.curStat \in {"_PKG_BD_INIT", "_PKG_BD_RECVING"}

\* zdClosesocketProc
Close == list' = "recy"

\* The room behind precvbuf, in dataHeadInfo or in the buffer.
Room == IF InHeader THEN _DATA_BUFSIZE_ - Len(recv.head)
        ELSE lens[recv.precvMemPointer] - Len(recv.body)

\* recv returns n bytes; the preset packet, if there is one, had room.
Takes(n) ==
  /\ list = "online"
  /\ preset <= Room
  /\ n \in 1..Len(inflight) /\ n <= recv.irecvlen
  /\ inflight' = SubSeq(inflight, n + 1, Len(inflight))

Received(n) == SubSeq(inflight, 1, n)

\* The header says how long the packet is.
HeaderBytes(n) == recv.head \o Received(n)
Announced(n) == LET p == Last(HeaderBytes(n)).packet IN [packet |-> p, len |-> lens[p]]

\* Variant: precvbuf does not move.
HeaderPartInPlace(n) ==
  /\ InHeader /\ Takes(n)
  /\ n < recv.irecvlen
  /\ recv' = [recv EXCEPT !.curStat = "_PKG_HD_RECVING", !.head = Received(n),
                          !.irecvlen = @ - n]
  /\ UNCHANGED <<settingVars, list, uses, flood, mem, clientVars, delivered, hasty,
                 kicked>>

HeaderPart(n) ==
  /\ InHeader /\ Takes(n)
  /\ n < recv.irecvlen
  /\ recv' = [recv EXCEPT !.curStat = "_PKG_HD_RECVING", !.head = HeaderBytes(n),
                          !.irecvlen = @ - n]
  /\ UNCHANGED <<settingVars, list, uses, flood, mem, clientVars, delivered, hasty,
                 kicked>>

RefuseHeader(n) ==
  /\ InHeader /\ Takes(n)
  /\ n = recv.irecvlen
  /\ ~Legal(Announced(n).len)
  /\ recv' = Start
  /\ UNCHANGED <<settingVars, list, uses, flood, mem, clientVars, delivered, hasty,
                 kicked>>

\* Variant: a packet that is a header only gets a body of no bytes.
BodyFollowsAlways(n) ==
  /\ InHeader /\ Takes(n)
  /\ n = recv.irecvlen
  /\ Legal(Announced(n).len)
  /\ mem' = [mem EXCEPT ![Announced(n).packet] = "receiving"]
  /\ recv' = [recv EXCEPT !.curStat = "_PKG_BD_INIT", !.head = HeaderBytes(n),
                          !.body = HeaderBytes(n),
                          !.irecvlen = Announced(n).len - m_iLenPkgHeader,
                          !.precvMemPointer = Announced(n).packet]
  /\ UNCHANGED <<settingVars, list, uses, flood, clientVars, delivered, hasty, kicked>>

BodyFollows(n) ==
  /\ InHeader /\ Takes(n)
  /\ n = recv.irecvlen
  /\ Legal(Announced(n).len) /\ Announced(n).len > m_iLenPkgHeader
  /\ mem' = [mem EXCEPT ![Announced(n).packet] = "receiving"]
  /\ recv' = [recv EXCEPT !.curStat = "_PKG_BD_INIT", !.head = HeaderBytes(n),
                          !.body = HeaderBytes(n),
                          !.irecvlen = Announced(n).len - m_iLenPkgHeader,
                          !.precvMemPointer = Announced(n).packet]
  /\ UNCHANGED <<settingVars, list, uses, flood, clientVars, delivered, hasty, kicked>>

BodyPart(n) ==
  /\ InBody /\ Takes(n)
  /\ n < recv.irecvlen
  /\ recv' = [recv EXCEPT !.curStat = "_PKG_BD_RECVING", !.body = @ \o Received(n),
                          !.irecvlen = @ - n]
  /\ UNCHANGED <<settingVars, list, uses, flood, mem, clientVars, delivered, hasty,
                 kicked>>

\* TestFlood: the packet comes within m_floodTimeInterval of the previous one, or
\* not; the time of the previous one is 0 at first.
TestFlood(soon) ==
  /\ soon => flood.timed
  /\ flood' = [FloodAttackCount |-> IF soon THEN flood.FloodAttackCount + 1 ELSE 0,
               timed |-> TRUE]

IsFlood == m_floodAkEnable /\ flood'.FloodAttackCount >= m_floodKickCount

\* Variant: precvMemPointer keeps the address.
LastKeepsPointer(p, bytes) ==
  /\ mem' = [mem EXCEPT ![p] = IF IsFlood THEN "freed" ELSE "pool"]
  /\ delivered' = IF IsFlood THEN delivered ELSE Append(delivered, bytes)
  /\ recv' = [Start EXCEPT !.precvMemPointer = p]

\* ngx_wait_request_handler_proc_plast
ngx_wait_request_handler_proc_plast(p, bytes) ==
  /\ mem' = [mem EXCEPT ![p] = IF IsFlood THEN "freed" ELSE "pool"]
  /\ delivered' = IF IsFlood THEN delivered ELSE Append(delivered, bytes)
  /\ recv' = Start

\* The packet p is complete.  Whoever floods the server is closed.
Complete(p, bytes) ==
  /\ \E soon \in BOOLEAN :
       IF m_floodAkEnable
       THEN TestFlood(soon) /\ hasty' = Append(hasty, soon)
       ELSE ~soon /\ UNCHANGED <<flood, hasty>>
  /\ ngx_wait_request_handler_proc_plast(p, bytes)
  /\ kicked' = IsFlood
  /\ IF IsFlood THEN Close ELSE UNCHANGED list
  /\ UNCHANGED <<settingVars, uses, clientVars>>

\* The packet is a header only.
HeaderOnly(n) ==
  /\ InHeader /\ Takes(n)
  /\ n = recv.irecvlen
  /\ Legal(Announced(n).len) /\ Announced(n).len = m_iLenPkgHeader
  /\ Complete(Announced(n).packet, HeaderBytes(n))

Body(n) ==
  /\ InBody /\ Takes(n)
  /\ n = recv.irecvlen
  /\ Complete(recv.precvMemPointer, recv.body \o Received(n))

\* The preset packet is longer than the room, and what lies behind dataHeadInfo
\* is overwritten: precvbuf, so that recv fails with EFAULT and the connection is
\* closed, and precvMemPointer.
Overrun ==
  /\ list = "online" /\ inflight # <<>>
  /\ preset > Room
  /\ recv' = [recv EXCEPT !.overrun = TRUE]
  /\ Close
  /\ UNCHANGED <<settingVars, uses, flood, mem, clientVars, inflight, delivered,
                 hasty, kicked>>

ngx_read_request_handler ==
  \/ \E n \in 1..Len(inflight) :
       \/ HeaderPart(n) \/ RefuseHeader(n) \/ HeaderOnly(n) \/ BodyFollows(n)
       \/ BodyPart(n) \/ Body(n)
  \/ Overrun

-----------------------------------------------------------------------------
(* The client, and the other threads *)

Send(len) ==
  /\ list = "online"
  /\ Len(lens) < MaxPackets
  /\ lens' = Append(lens, len)
  /\ LET p == Bytes(Len(lens'), PacketLen(len)) IN
       /\ inflight' = inflight \o p
       /\ accepted' = IF Legal(len) THEN Append(accepted, p) ELSE accepted
  /\ UNCHANGED <<settingVars, list, uses, recv, flood, mem, delivered, hasty, kicked>>

\* The client goes, and recvproc closes; or the timer thread or msgSend does.
Leave ==
  /\ list = "online"
  /\ Close
  /\ UNCHANGED <<settingVars, uses, recv, flood, mem, clientVars, inflight,
                 delivered, hasty, kicked>>

\* A packet that is not complete is freed.
PutOneToFree ==
  /\ ~recv.overrun
  /\ mem' = [p \in 1..MaxPackets |->
               IF p # recv.precvMemPointer THEN mem[p]
               ELSE IF mem[p] = "receiving" THEN "freed" ELSE "freed_twice"]
  /\ recv' = [recv EXCEPT !.precvMemPointer = 0]

Recycle ==
  /\ list = "recy"
  /\ list' = "free"
  /\ PutOneToFree
  /\ UNCHANGED <<settingVars, uses, flood, clientVars, inflight, delivered, hasty,
                 kicked>>

\* After an overrun PutOneToFree frees an address that was never allocated, and
\* the process ends.
Crash ==
  /\ list = "recy" /\ recv.overrun
  /\ list' = "crashed"
  /\ UNCHANGED <<settingVars, uses, recv, flood, mem, clientVars, inflight,
                 delivered, hasty, kicked>>

\* Variant: the count of the previous client stays.
FloodOfNextKept == flood

\* GetOneToUse resets the flood count.
FloodOfNext == NoFlood

Accept ==
  /\ list = "free"
  /\ uses < MaxUses
  /\ list' = "online"
  /\ uses' = uses + 1
  /\ recv' = Start
  /\ flood' = FloodOfNext
  /\ accepted' = <<>>
  /\ inflight' = <<>>
  /\ delivered' = <<>>
  /\ hasty' = <<>>
  /\ kicked' = FALSE
  /\ UNCHANGED <<settingVars, mem, lens>>

Next ==
  \/ ngx_read_request_handler
  \/ \E len \in PkgLens : Send(len)
  \/ Leave \/ Recycle \/ Crash \/ Accept

Spec == Init /\ [][Next]_vars

\* epoll reports a socket as long as there are bytes to read.
FairSpec == Spec /\ WF_vars(ngx_read_request_handler)

-----------------------------------------------------------------------------
(* Properties *)

TypeOK ==
  /\ preset \in Nat /\ m_floodAkEnable \in BOOLEAN
  /\ list \in {"online", "recy", "free", "crashed"}
  /\ uses \in 1..MaxUses
  /\ recv \in [curStat : {"_PKG_HD_INIT", "_PKG_HD_RECVING", "_PKG_BD_INIT",
                          "_PKG_BD_RECVING"},
               head : Seq(Byte), body : Seq(Byte), irecvlen : Nat \ {0},
               precvMemPointer : 0..MaxPackets, overrun : BOOLEAN]
  /\ flood \in [FloodAttackCount : Nat, timed : BOOLEAN]
  /\ mem \in [1..MaxPackets -> {"none", "receiving", "pool", "freed", "freed_twice"}]
  /\ lens \in Seq(PkgLens)
  /\ accepted \in Seq(Seq(Byte))
  /\ inflight \in Seq(Byte)
  /\ delivered \in Seq(Seq(Byte))
  /\ hasty \in Seq(BOOLEAN)
  /\ kicked \in BOOLEAN

\* However recv cuts the stream, what the thread pool gets are the packets of the
\* client, whole and in order, with nothing in between, also after a header that was
\* refused; and every packet sent gets there, or the connection is closed.
Channel == INSTANCE PacketChannel WITH
             Packet <- {Bytes(p, len) : p \in 1..MaxPackets, len \in PkgLens},
             sent <- accepted, got <- delivered, open <- list = "online"
ImplementsChannel == Channel!Spec

\* recv never gets a length that is more than the room in the buffer, and nothing
\* behind the buffer is overwritten, except by the preset packet.  The buffer of a
\* packet belongs to the connection until the packet is complete; it is then the
\* thread pool's, or it is freed, once, even if the connection is closed in the
\* middle of a packet.
BuffersKept ==
  /\ preset = 0 =>
       ~recv.overrun /\ (list = "online" => recv.irecvlen <= Room)
  /\ \A p \in 1..MaxPackets :
       /\ mem[p] # "freed_twice"
       /\ mem[p] = "receiving" <=> recv.precvMemPointer = p

\* A client is kicked for flooding exactly when m_floodKickCount packets in a row
\* came too soon, and what an earlier client did does not count.
FloodKicks ==
  m_floodAkEnable =>
    (kicked <=> \E i \in 0..(Len(hasty) - m_floodKickCount) :
                  \A j \in 1..m_floodKickCount : hasty[i + j])

-----------------------------------------------------------------------------
(* The inductive invariant that the proofs use. *)

\* The bytes of the packets that the server has not finished, and the first of these.
Stream == (IF InBody THEN recv.body ELSE recv.head) \o inflight
Current == IF Stream = <<>> THEN Len(lens) + 1 ELSE Stream[1].packet

\* The bytes s are the packets from cur to the last one sent, whole and in their order.
InOrder(s, cur, ls) ==
  /\ IF s = <<>> THEN cur = Len(ls) + 1 ELSE s[1] = [packet |-> cur, place |-> 1]
  /\ \A i \in 1..Len(s) :
       /\ s[i].packet \in cur..Len(ls)
       /\ s[i].place \in 1..PacketLen(ls[s[i].packet])
       /\ \A k \in 1..PacketLen(ls[s[i].packet]) :
            /\ i - s[i].place + k \in 1..Len(s)
            /\ s[i - s[i].place + k] = [packet |-> s[i].packet, place |-> k]
       /\ s[i].place = PacketLen(ls[s[i].packet]) =>
            IF i = Len(s) THEN s[i].packet = Len(ls)
            ELSE s[i + 1] = [packet |-> s[i].packet + 1, place |-> 1]
  /\ \A i, j \in 1..Len(s) : i <= j => s[i].packet <= s[j].packet

\* Of the packets acc, those behind the n-th are the legal ones from cur on.
Due(acc, n, cur, ls) ==
  /\ n <= Len(acc)
  /\ \A k \in (n + 1)..Len(acc) :
       \E q \in cur..Len(ls) : Legal(ls[q]) /\ acc[k] = Bytes(q, ls[q])
  /\ \A q \in cur..Len(ls) :
       Legal(ls[q]) => \E k \in (n + 1)..Len(acc) : acc[k] = Bytes(q, ls[q])
  /\ \A k, l \in (n + 1)..Len(acc) : k < l => acc[k][1].packet < acc[l][1].packet

\* irecvlen and precvMemPointer fit what has been received of the present packet.
Counted ==
  /\ InHeader => /\ recv.precvMemPointer = 0
                 /\ Len(recv.head) + recv.irecvlen = m_iLenPkgHeader
  /\ InBody => /\ recv.body # <<>> /\ recv.body[1].packet = recv.precvMemPointer
               /\ recv.precvMemPointer \in 1..Len(lens) /\ Legal(lens[recv.precvMemPointer])
               /\ Len(recv.body) + recv.irecvlen = lens[recv.precvMemPointer]

Receiving ==
  /\ Len(lens) <= MaxPackets
  /\ list = "online" =>
       Counted /\ InOrder(Stream, Current, lens) /\ Due(accepted, Len(delivered), Current, lens)
  /\ list = "free" => recv.precvMemPointer = 0

\* FloodAttackCount is the number of hasty packets that came last.
FloodCounted ==
  m_floodAkEnable =>
    LET n == flood.FloodAttackCount IN
    /\ n <= Len(hasty)
    /\ \A j \in 1..Len(hasty) : j > Len(hasty) - n => hasty[j]
    /\ n < Len(hasty) => ~hasty[Len(hasty) - n]
    /\ kicked <=> n >= m_floodKickCount
    /\ kicked => list # "online"

IInv ==
  /\ TypeOK
  /\ Receiving
  /\ BuffersKept
  /\ FloodCounted
  /\ FloodKicks
=============================================================================
