------------------------------ MODULE SendPath ------------------------------
(***************************************************************************)
(* The way of a reply to the client (net/ngx_c_socket.cpp and              *)
(* ngx_c_socket_request.cpp): pool threads hand messages to msgSend, the   *)
(* send thread takes them from the queue and sends, and what the socket    *)
(* does not accept at once is sent by the reactor when epoll reports that  *)
(* the socket is writable.  iThrowsendCount is meant to pass the sending   *)
(* state of a connection (psendMemPointer, psendbuf, isendlen) from the    *)
(* send thread to the reactor and back without a mutex.                    *)
(*                                                                         *)
(* The reactor, the timer thread and a pool thread inside msgSend may all  *)
(* close a connection while the send thread or the reactor uses it; a      *)
(* connection is recycled only after RecyConnectionWaitTime, which is      *)
(* taken to outlast whatever a thread still does with the connection.      *)
(***************************************************************************)
EXTENDS Integers, SequencesExt

CONSTANTS
  Conn, Msg,
  Size,      \* Msg -> how many pieces the kernel may split it into
  Settings,  \* the settings in which the program runs
  NoMsg

\* A setting says which connection a message answers, what the limits are (the
\* source has 50000 and 400), who ends connections besides msgSend, and, as a
\* bound, how often a connection object is used.
Setting == [to : UNION {[sent -> Conn] : sent \in SUBSET Msg},
            MaxQueue : Nat, MaxBacklog : Nat,
            ends : SUBSET {"timer", "peer"}, MaxUses : Nat]

ASSUME ConnAssumption == Conn # {}
ASSUME SizesAssumption == Size \in [Msg -> Nat \ {0}]
ASSUME SettingsAssumption == Settings \subseteq Setting
ASSUME NoMsgAssumption == NoMsg \notin Msg

VARIABLES
  setting,   \* one from Settings, for the whole run of the program
  m_MsgSendQueue,
  m_sendMessageQueueMutex,  \* who holds it: "none", "send" or "worker"
  m_semEventSendQueue,
  conn,      \* Conn -> the fields of ngx_connection_s, and the list it is in
  hdr,       \* Msg -> iCurrsequence of its message header
  mem,       \* Msg -> what became of its memory
  sender,    \* where ServerSendQueueThread stands: step, place in the list, connection
  reactor,   \* where the reactor stands: step, connection, pending EPOLLOUT
  closer,    \* where the timer thread and a pool thread stand in zdClosesocketProc
  peer,      \* Conn -> the client is there or gone
  wire       \* Conn -> the pieces the socket accepted in its present use

vars == <<setting, m_MsgSendQueue, m_sendMessageQueueMutex, m_semEventSendQueue, conn,
          hdr, mem, sender, reactor, closer, peer, wire>>

queueVars == <<m_MsgSendQueue, m_sendMessageQueueMutex, m_semEventSendQueue>>
threadVars == <<sender, reactor, closer>>

To(m) == setting.to[m]
Served == Range(setting.to)

Idle == [pc |-> "idle", c |-> CHOOSE c \in Conn : TRUE]

\* GetOneToUse, for a connection of which the sequence number was seq.
Fresh(seq) ==
  [fd |-> TRUE, list |-> "online", iCurrsequence |-> seq + 1, iSendCount |-> 0,
   iThrowsendCount |-> 0, psendMemPointer |-> NoMsg, psendbuf |-> NoMsg,
   isendlen |-> 0, EPOLLOUT |-> FALSE]

Init ==
  /\ setting \in Settings
  /\ m_MsgSendQueue = <<>>
  /\ m_sendMessageQueueMutex = "none"
  /\ m_semEventSendQueue = 0
  /\ conn = [c \in Conn |-> Fresh(0)]
  /\ hdr = [m \in Msg |-> 0]
  /\ mem = [m \in Msg |-> "none"]
  /\ sender = [pc |-> "wait", pos |-> 1, c |-> Idle.c]
  /\ reactor = [pc |-> "idle", c |-> Idle.c, out |-> FALSE]
  /\ closer = [x \in {"timer", "worker"} |-> Idle]
  /\ peer = [c \in Conn |-> "there"]
  /\ wire = [c \in Conn |-> <<>>]

\* FreeMemory; freeing twice is remembered, freeing NULL does nothing.
Freed(m) ==
  [k \in Msg |-> IF k # m THEN mem[k]
                 ELSE IF mem[k] = "freed" THEN "freed_twice" ELSE "freed"]

MutexFree == m_sendMessageQueueMutex = "none"

-----------------------------------------------------------------------------
(* Pool threads *)

\* A handler for a request of the present user of the connection builds the
\* reply m; the header carries the sequence number of the request.
Reply(m) ==
  /\ m \in DOMAIN setting.to /\ mem[m] = "none"
  /\ conn[To(m)].list = "online"
  /\ mem' = [mem EXCEPT ![m] = "built"]
  /\ hdr' = [hdr EXCEPT ![m] = conn[To(m)].iCurrsequence]
  /\ UNCHANGED <<setting, queueVars, conn, threadVars, peer, wire>>

QueueFull == Len(m_MsgSendQueue) > setting.MaxQueue

TooMany(c) == conn[c].iSendCount > setting.MaxBacklog

Discard(m) ==
  /\ QueueFull
  /\ mem' = Freed(m)
  /\ UNCHANGED <<queueVars, conn, closer>>

\* The user does not take what it asked for: msgSend closes the connection while
\* it holds the mutex of the queue.
CutOff(m) ==
  /\ ~QueueFull /\ TooMany(To(m))
  /\ mem' = Freed(m)
  /\ m_sendMessageQueueMutex' = "worker"
  /\ closer' = [closer EXCEPT !["worker"] = [pc |-> "fd", c |-> To(m)]]
  /\ UNCHANGED <<m_MsgSendQueue, m_semEventSendQueue, conn>>

Push(m) ==
  /\ ~QueueFull /\ ~TooMany(To(m))
  /\ conn' = [conn EXCEPT ![To(m)].iSendCount = @ + 1]
  /\ m_MsgSendQueue' = Append(m_MsgSendQueue, m)
  /\ m_semEventSendQueue' = m_semEventSendQueue + 1
  /\ mem' = [mem EXCEPT ![m] = "sent"]
  /\ UNCHANGED <<m_sendMessageQueueMutex, closer>>

msgSend(m) ==
  /\ mem[m] = "built"
  /\ MutexFree
  /\ Discard(m) \/ CutOff(m) \/ Push(m)
  /\ UNCHANGED <<setting, hdr, sender, reactor, peer, wire>>

-----------------------------------------------------------------------------
(* zdClosesocketProc, in its steps *)

\* What the step pc of zdClosesocketProc makes of the connection k.
CloseFd(k) == [k EXCEPT !.fd = FALSE]
CloseThrow(k) == [k EXCEPT !.iThrowsendCount = @ - 1]
inRecyConnectQueue(k) ==
  IF k.list = "online"
  THEN [k EXCEPT !.list = "recy", !.iCurrsequence = @ + 1] ELSE k

CloseStep(pc, k) ==
  CASE pc = "fd" -> CloseFd(k)
    [] pc = "throw" -> k
    [] pc = "less" -> CloseThrow(k)
    [] pc = "recy" -> inRecyConnectQueue(k)

\* The test of iThrowsendCount comes before the step that lowers it.
After(pc, k) ==
  CASE pc = "fd" -> "throw"
    [] pc = "throw" -> IF k.iThrowsendCount > 0 THEN "less" ELSE "recy"
    [] pc = "less" -> "recy"
    [] OTHER -> "idle"

\* The timer thread found that the client of c is overdue.
TimerKicks(c) ==
  /\ "timer" \in setting.ends
  /\ closer["timer"].pc = "idle"
  /\ conn[c].list = "online"
  /\ closer' = [closer EXCEPT !["timer"] = [pc |-> "fd", c |-> c]]
  /\ UNCHANGED <<setting, queueVars, conn, hdr, mem, sender, reactor, peer, wire>>

\* The pool thread releases the mutex when msgSend returns.
zdClosesocketProc(x) ==
  LET pc == closer[x].pc
      c == closer[x].c
  IN
  /\ pc # "idle"
  /\ conn' = [conn EXCEPT ![c] = CloseStep(pc, @)]
  /\ closer' = [closer EXCEPT ![x].pc = After(pc, conn[c])]
  /\ m_sendMessageQueueMutex' = IF x = "worker" /\ pc = "recy" THEN "none"
                                ELSE m_sendMessageQueueMutex
  /\ UNCHANGED <<setting, m_MsgSendQueue, m_semEventSendQueue, hdr, mem, sender, reactor,
                 peer, wire>>

-----------------------------------------------------------------------------
(* ServerSendQueueThread *)

\* Variant: sem_wait does not block.
SemWaitNot ==
  /\ sender.pc = "wait"
  /\ m_semEventSendQueue' = m_semEventSendQueue - 1
  /\ sender' = [sender EXCEPT !.pc = IF m_MsgSendQueue = <<>> THEN "wait" ELSE "lock"]
  /\ UNCHANGED <<setting, m_MsgSendQueue, m_sendMessageQueueMutex, conn, hdr, mem, reactor,
                 closer, peer, wire>>

\* sem_wait, then a look at the number of queued messages.
SemWait ==
  /\ sender.pc = "wait"
  /\ m_semEventSendQueue > 0
  /\ m_semEventSendQueue' = m_semEventSendQueue - 1
  /\ sender' = [sender EXCEPT !.pc = IF m_MsgSendQueue = <<>> THEN "wait" ELSE "lock"]
  /\ UNCHANGED <<setting, m_MsgSendQueue, m_sendMessageQueueMutex, conn, hdr, mem, reactor,
                 closer, peer, wire>>

\* A signal ends sem_wait early; the thread looks at the queue all the same.
SemInterrupted ==
  /\ sender.pc = "wait"
  /\ m_MsgSendQueue # <<>>
  /\ sender' = [sender EXCEPT !.pc = "lock"]
  /\ UNCHANGED <<setting, queueVars, conn, hdr, mem, reactor, closer, peer, wire>>

Lock ==
  /\ sender.pc = "lock"
  /\ MutexFree
  /\ m_sendMessageQueueMutex' = "send"
  /\ sender' = [sender EXCEPT !.pc = "seq", !.pos = 1]
  /\ UNCHANGED <<setting, m_MsgSendQueue, m_semEventSendQueue, conn, hdr, mem, reactor,
                 closer, peer, wire>>

Current == m_MsgSendQueue[sender.pos]
Rest == RemoveAt(m_MsgSendQueue, sender.pos)

Unlock ==
  /\ sender.pc = "seq"
  /\ sender.pos > Len(m_MsgSendQueue)
  /\ m_sendMessageQueueMutex' = "none"
  /\ sender' = [sender EXCEPT !.pc = "wait"]
  /\ UNCHANGED <<setting, m_MsgSendQueue, m_semEventSendQueue, conn, hdr, mem, reactor,
                 closer, peer, wire>>

\* The connection was closed since: the message is dropped.
DropStale ==
  /\ sender.pc = "seq"
  /\ sender.pos <= Len(m_MsgSendQueue)
  /\ conn[To(Current)].iCurrsequence # hdr[Current]
  /\ m_MsgSendQueue' = Rest
  /\ mem' = Freed(Current)
  /\ UNCHANGED <<setting, m_sendMessageQueueMutex, m_semEventSendQueue, conn, hdr,
                 threadVars, peer, wire>>

\* Variant: the sequence numbers are not compared.
TestNothing ==
  /\ sender.pc = "seq"
  /\ sender.pos <= Len(m_MsgSendQueue)
  /\ sender' = [sender EXCEPT !.pc = "throw", !.c = To(Current)]
  /\ UNCHANGED <<setting, queueVars, conn, hdr, mem, reactor, closer, peer, wire>>

TestSequence ==
  /\ sender.pc = "seq"
  /\ sender.pos <= Len(m_MsgSendQueue)
  /\ conn[To(Current)].iCurrsequence = hdr[Current]
  /\ sender' = [sender EXCEPT !.pc = "throw", !.c = To(Current)]
  /\ UNCHANGED <<setting, queueVars, conn, hdr, mem, reactor, closer, peer, wire>>

\* Variant: a message that is taken stays counted.
LoadedKeepsCount(k) ==
  [k EXCEPT !.psendMemPointer = Current, !.psendbuf = Current,
            !.isendlen = Size[Current]]

Loaded(k) ==
  [k EXCEPT !.iSendCount = @ - 1, !.psendMemPointer = Current,
            !.psendbuf = Current, !.isendlen = Size[Current]]

\* Variant: iThrowsendCount is not looked at.
GivenToReactorNever(c) == FALSE

GivenToReactor(c) == conn[c].iThrowsendCount > 0

\* The reactor is sending on this connection: the message stays.
Skip ==
  /\ sender.pc = "throw"
  /\ GivenToReactor(sender.c)
  /\ sender' = [sender EXCEPT !.pc = "seq", !.pos = @ + 1]
  /\ UNCHANGED <<setting, queueVars, conn, hdr, mem, reactor, closer, peer, wire>>

TakeMessage ==
  /\ sender.pc = "throw"
  /\ ~GivenToReactor(sender.c)
  /\ conn' = [conn EXCEPT ![sender.c] = Loaded(@)]
  /\ m_MsgSendQueue' = Rest
  /\ sender' = [sender EXCEPT !.pc = "send"]
  /\ UNCHANGED <<setting, m_sendMessageQueueMutex, m_semEventSendQueue, hdr, mem, reactor,
                 closer, peer, wire>>

\* sendproc: the socket takes n of the isendlen pieces, or none because its
\* buffer is full, or the call fails.  Only a partial result moves psendbuf.
Sends(c, n) ==
  /\ conn[c].fd
  /\ n \in 1..conn[c].isendlen
  /\ wire' = [wire EXCEPT ![c] = @ \o [i \in 1..n |-> conn[c].psendbuf]]
  /\ conn' = IF n = conn[c].isendlen THEN conn
             ELSE [conn EXCEPT ![c].isendlen = @ - n]

SendsAll(c) == Sends(c, conn[c].isendlen)

SendsSome(c) == \E n \in 1..(conn[c].isendlen - 1) : Sends(c, n)

BufferFull(c) == conn[c].fd /\ UNCHANGED <<wire, conn>>

SendFails(c) == (~conn[c].fd \/ peer[c] # "there") /\ UNCHANGED <<wire, conn>>

SenderSends ==
  LET c == sender.c IN
  /\ sender.pc = "send"
  /\ \/ /\ SendsAll(c) \/ SendFails(c)
        /\ sender' = [sender EXCEPT !.pc = "free"]
     \/ /\ SendsSome(c) \/ BufferFull(c)
        /\ sender' = [sender EXCEPT !.pc = "raise"]
  /\ UNCHANGED <<setting, queueVars, hdr, mem, reactor, closer, peer>>

\* Everything sent, or an error: psendMemPointer is freed, as it is now, and
\* then reset.
SenderFrees ==
  /\ sender.pc = "free"
  /\ mem' = Freed(conn[sender.c].psendMemPointer)
  /\ sender' = [sender EXCEPT !.pc = "clear"]
  /\ UNCHANGED <<setting, queueVars, conn, hdr, reactor, closer, peer, wire>>

SenderClears ==
  /\ sender.pc = "clear"
  /\ conn' = [conn EXCEPT ![sender.c].psendMemPointer = NoMsg,
                          ![sender.c].iThrowsendCount = 0]
  /\ sender' = [sender EXCEPT !.pc = "seq"]
  /\ UNCHANGED <<setting, queueVars, hdr, mem, reactor, closer, peer, wire>>

\* Variant: the rest is not marked.
RaiseThrowNot ==
  /\ sender.pc = "raise"
  /\ sender' = [sender EXCEPT !.pc = "arm"]
  /\ UNCHANGED <<setting, queueVars, conn, hdr, mem, reactor, closer, peer, wire>>

RaiseThrow ==
  /\ sender.pc = "raise"
  /\ conn' = [conn EXCEPT ![sender.c].iThrowsendCount = @ + 1]
  /\ sender' = [sender EXCEPT !.pc = "arm"]
  /\ UNCHANGED <<setting, queueVars, hdr, mem, reactor, closer, peer, wire>>

\* Variant: EPOLLOUT is not asked for.
ArmNot ==
  /\ sender.pc = "arm"
  /\ sender' = [sender EXCEPT !.pc = "seq"]
  /\ UNCHANGED <<setting, queueVars, conn, hdr, mem, reactor, closer, peer, wire>>

\* EPOLL_CTL_MOD adds EPOLLOUT to the events of a socket or takes it out; on a
\* socket that was closed it fails, and that is only logged.
ngx_epoll_oper_event(c, out) ==
  conn' = IF conn[c].fd THEN [conn EXCEPT ![c].EPOLLOUT = out] ELSE conn

Arm ==
  /\ sender.pc = "arm"
  /\ ngx_epoll_oper_event(sender.c, TRUE)
  /\ sender' = [sender EXCEPT !.pc = "seq"]
  /\ UNCHANGED <<setting, queueVars, hdr, mem, reactor, closer, peer, wire>>

ServerSendQueueThread ==
  \/ SemWait \/ Lock \/ Unlock \/ DropStale \/ TestSequence \/ Skip
  \/ TakeMessage \/ SenderSends \/ SenderFrees \/ SenderClears \/ RaiseThrow \/ Arm

-----------------------------------------------------------------------------
(* The reactor: ngx_epoll_process_events, the closing half of the read     *)
(* handler and ngx_write_request_handler                                   *)

\* epoll reports that a registered socket is writable.
WriteEvent(c) ==
  /\ reactor.pc = "idle"
  /\ conn[c].fd /\ conn[c].EPOLLOUT
  /\ peer[c] = "there"
  /\ reactor' = [pc |-> "write", c |-> c, out |-> TRUE]
  /\ UNCHANGED <<setting, queueVars, conn, hdr, mem, sender, closer, peer, wire>>

\* epoll reports EPOLLIN and EPOLLRDHUP, and EPOLLOUT if it is asked for and the
\* socket is writable.
HangupEvent(c) ==
  /\ reactor.pc = "idle"
  /\ conn[c].fd
  /\ peer[c] # "there"
  /\ \E out \in {FALSE, conn[c].EPOLLOUT} :
       reactor' = [pc |-> "read", c |-> c, out |-> out]
  /\ UNCHANGED <<setting, queueVars, conn, hdr, mem, sender, closer, peer, wire>>

\* The read handler finds what the client sent last, or the end and closes.
Read ==
  /\ reactor.pc = "read"
  /\ \/ /\ peer[reactor.c] = "leaving"
        /\ peer' = [peer EXCEPT ![reactor.c] = "gone"]
        /\ reactor' = [reactor EXCEPT !.pc = "out"]
     \/ /\ peer[reactor.c] = "gone"
        /\ reactor' = [reactor EXCEPT !.pc = "fd"]
        /\ UNCHANGED peer
  /\ UNCHANGED <<setting, queueVars, conn, hdr, mem, sender, closer, wire>>

ReactorCloses ==
  /\ reactor.pc \in {"fd", "throw", "less", "recy"}
  /\ conn' = [conn EXCEPT ![reactor.c] = CloseStep(reactor.pc, @)]
  /\ reactor' = [reactor EXCEPT !.pc = IF @ = "recy" THEN "out" ELSE After(@, conn[reactor.c])]
  /\ UNCHANGED <<setting, queueVars, hdr, mem, sender, closer, peer, wire>>

\* With a hangup the writable socket only lowers iThrowsendCount.
HangupWrite ==
  /\ reactor.pc = "out"
  /\ conn' = IF reactor.out
             THEN [conn EXCEPT ![reactor.c].iThrowsendCount = @ - 1] ELSE conn
  /\ reactor' = [reactor EXCEPT !.pc = "idle"]
  /\ UNCHANGED <<setting, queueVars, hdr, mem, sender, closer, peer, wire>>

\* A completed send removes EPOLLOUT, a failed one does not.
ReactorSends ==
  LET c == reactor.c IN
  /\ reactor.pc = "write"
  /\ \/ /\ SendsAll(c)
        /\ reactor' = [reactor EXCEPT !.pc = "disarm"]
     \/ /\ SendFails(c)
        /\ reactor' = [reactor EXCEPT !.pc = "post"]
     \/ /\ SendsSome(c) \/ BufferFull(c)
        /\ reactor' = [reactor EXCEPT !.pc = "idle"]
  /\ UNCHANGED <<setting, queueVars, hdr, mem, sender, closer, peer>>

Disarm ==
  /\ reactor.pc = "disarm"
  /\ ngx_epoll_oper_event(reactor.c, FALSE)
  /\ reactor' = [reactor EXCEPT !.pc = "post"]
  /\ UNCHANGED <<setting, queueVars, hdr, mem, sender, closer, peer, wire>>

\* sem_post comes before the connection is given back to the send thread.
Post ==
  /\ reactor.pc = "post"
  /\ m_semEventSendQueue' = m_semEventSendQueue + 1
  /\ reactor' = [reactor EXCEPT !.pc = "free"]
  /\ UNCHANGED <<setting, m_MsgSendQueue, m_sendMessageQueueMutex, conn, hdr, mem, sender,
                 closer, peer, wire>>

ReactorFrees ==
  /\ reactor.pc = "free"
  /\ mem' = Freed(conn[reactor.c].psendMemPointer)
  /\ reactor' = [reactor EXCEPT !.pc = "clear"]
  /\ UNCHANGED <<setting, queueVars, conn, hdr, sender, closer, peer, wire>>

\* Variant: psendMemPointer keeps the address of what was freed.
ReactorClearsNot ==
  /\ reactor.pc = "clear"
  /\ reactor' = [reactor EXCEPT !.pc = "lower"]
  /\ UNCHANGED <<setting, queueVars, conn, hdr, mem, sender, closer, peer, wire>>

ReactorClears ==
  /\ reactor.pc = "clear"
  /\ conn' = [conn EXCEPT ![reactor.c].psendMemPointer = NoMsg]
  /\ reactor' = [reactor EXCEPT !.pc = "lower"]
  /\ UNCHANGED <<setting, queueVars, hdr, mem, sender, closer, peer, wire>>

LowerThrow ==
  /\ reactor.pc = "lower"
  /\ conn' = [conn EXCEPT ![reactor.c].iThrowsendCount = @ - 1]
  /\ reactor' = [reactor EXCEPT !.pc = "idle"]
  /\ UNCHANGED <<setting, queueVars, hdr, mem, sender, closer, peer, wire>>

ReactorStep ==
  \/ Read \/ ReactorCloses \/ HangupWrite \/ ReactorSends \/ Disarm \/ Post
  \/ ReactorFrees \/ ReactorClears \/ LowerThrow

Reactor == ReactorStep \/ \E c \in Conn : WriteEvent(c) \/ HangupEvent(c)

-----------------------------------------------------------------------------
(* Clients, and the recycling of connections *)

\* The client closes, or only its sending half, with or without data that the
\* server has not read yet.
PeerLeaves(c) ==
  /\ "peer" \in setting.ends
  /\ conn[c].list = "online"
  /\ peer[c] = "there"
  /\ \E how \in {"leaving", "gone"} : peer' = [peer EXCEPT ![c] = how]
  /\ UNCHANGED <<setting, queueVars, conn, hdr, mem, threadVars, wire>>

\* No thread is at work with the connection any more.  Messages for it may still
\* be queued: nothing bounds how long the send thread leaves them there.
Quiet(c) ==
  /\ sender.pc \in {"wait", "lock"} \/ (sender.pc = "seq" /\ sender.c # c)
  /\ reactor.pc = "idle" \/ reactor.c # c
  /\ \A x \in DOMAIN closer : closer[x].pc = "idle" \/ closer[x].c # c
  /\ \A m \in DOMAIN setting.to : To(m) = c => mem[m] # "built"

\* ServerRecyConnectionThread: PutOneToFree after RecyConnectionWaitTime.
Recycle(c) ==
  /\ conn[c].list = "recy"
  /\ Quiet(c)
  /\ mem' = Freed(conn[c].psendMemPointer)
  /\ conn' = [conn EXCEPT ![c].list = "free", ![c].iCurrsequence = @ + 1,
                          ![c].psendMemPointer = NoMsg, ![c].iThrowsendCount = 0]
  /\ UNCHANGED <<setting, queueVars, hdr, threadVars, peer, wire>>

\* A new client gets the connection: GetOneToUse.
Accept(c) ==
  /\ conn[c].list = "free"
  /\ conn[c].iCurrsequence < 3 * setting.MaxUses
  /\ conn' = [conn EXCEPT ![c] = Fresh(@.iCurrsequence)]
  /\ peer' = [peer EXCEPT ![c] = "there"]
  /\ wire' = [wire EXCEPT ![c] = <<>>]
  /\ UNCHANGED <<setting, queueVars, hdr, mem, threadVars>>

-----------------------------------------------------------------------------
Next ==
  \/ \E m \in Msg : Reply(m) \/ msgSend(m)
  \/ \E x \in DOMAIN closer : zdClosesocketProc(x)
  \/ \E c \in Served : TimerKicks(c) \/ PeerLeaves(c) \/ Recycle(c) \/ Accept(c)
  \/ ServerSendQueueThread
  \/ SemInterrupted
  \/ Reactor

Spec == Init /\ [][Next]_vars

\* Threads run, epoll reports a writable socket, and a client that stays reads on,
\* so that a send to it gets through again and again.  Nobody owes a reply.
Progress(c) == reactor.c = c /\ ReactorSends /\ wire' # wire

Fairness ==
  /\ \A x \in {"timer", "worker"} : WF_vars(zdClosesocketProc(x))
  /\ WF_vars(ServerSendQueueThread)
  /\ WF_vars(ReactorStep)
  /\ \A c \in Conn : SF_vars(WriteEvent(c)) /\ SF_vars(Progress(c))

FairSpec == Spec /\ Fairness

-----------------------------------------------------------------------------
(* Properties *)

Closers == {"timer", "worker"}
Step == {"idle", "fd", "throw", "less", "recy"}
SenderPcs == {"wait", "lock", "seq", "throw", "send", "free", "clear", "raise", "arm"}
ReactorPcs == Step \cup {"read", "out", "write", "disarm", "post", "free", "clear", "lower"}

ConnType ==
  [fd : BOOLEAN, list : {"online", "recy", "free"}, iCurrsequence : Nat, iSendCount : Int,
   iThrowsendCount : Int, psendMemPointer : Msg \cup {NoMsg},
   psendbuf : Msg \cup {NoMsg}, isendlen : Nat, EPOLLOUT : BOOLEAN]
MemType == {"none", "built", "sent", "freed", "freed_twice"}

TypeOK ==
  /\ setting \in Setting
  /\ m_MsgSendQueue \in Seq(Msg)
  /\ m_sendMessageQueueMutex \in {"none", "send", "worker"}
  /\ m_semEventSendQueue \in Nat
  /\ conn \in [Conn -> ConnType]
  /\ hdr \in [Msg -> Nat]
  /\ mem \in [Msg -> MemType]
  /\ sender \in [pc : SenderPcs, pos : Nat, c : Conn]
  /\ reactor \in [pc : ReactorPcs, c : Conn, out : BOOLEAN]
  /\ closer \in [Closers -> [pc : Step, c : Conn]]
  /\ peer \in [Conn -> {"there", "leaving", "gone"}]
  /\ wire \in [Conn -> Seq(Msg)]

\* A message is freed at most once.
FreedOnce == \A m \in Msg : mem[m] # "freed_twice"

\* Reactor and send thread, which pass a message between them, agree on whose it is:
\* the bytes given to an open socket are those of a message that is not freed; and
\* no message is freed twice by them and by the recycling, also when clients hang up
\* or msgSend cuts them off, as long as the timer thread closes nobody.
MemoryPassed ==
  /\ \A c \in Conn :
       /\ conn[c].fd
       /\ (sender.pc = "send" /\ sender.c = c) \/ (reactor.pc = "write" /\ reactor.c = c)
       => conn[c].psendbuf \in Msg /\ mem[conn[c].psendbuf] = "sent"
  /\ "timer" \notin setting.ends => FreedOnce

\* What a client that stays gets is whole messages one after the other: a message
\* is never cut off by the next one, mixed with it or sent again.
Pieces(s, i) == Cardinality({j \in 1..i : s[j] = s[i]})
Whole(s) ==
  \A i \in 1..Len(s) :
    /\ Pieces(s, i) <= Size[s[i]]
    /\ i < Len(s) /\ s[i + 1] # s[i] => Pieces(s, i) = Size[s[i]]
WholeMessages == "peer" \notin setting.ends => \A c \in Conn : Whole(wire[c])

\* What a client gets answers its own requests, not those of the previous user
\* of the connection object.
NoStaleReply ==
  \A c \in Conn : conn[c].list = "online" =>
    \A i \in 1..Len(wire[c]) : hdr[wire[c][i]] = conn[c].iCurrsequence

\* Every message handed over is in the queue or is the one its connection is
\* sending, until it is freed: none is forgotten, as long as only msgSend closes.
NoneForgotten ==
  setting.ends = {} => \A m \in Msg : mem[m] = "sent" =>
    m \in ToSet(m_MsgSendQueue) \/ conn[To(m)].psendMemPointer = m

\* iSendCount is the number of queued messages of the user, although messages of
\* previous users may be queued as well; and neither a user's backlog nor the queue
\* passes its limit by more than one.
BacklogCounted ==
  /\ \A c \in Conn : conn[c].list = "online" =>
       conn[c].iSendCount =
         Cardinality({m \in ToSet(m_MsgSendQueue) :
                        To(m) = c /\ hdr[m] = conn[c].iCurrsequence})
  /\ \A c \in Conn : conn[c].iSendCount <= setting.MaxBacklog + 1
  /\ Len(m_MsgSendQueue) <= setting.MaxQueue + 1

\* A message the socket did not take at once is sent by the reactor, and the
\* connection given back to the send thread: whatever order the two threads touch
\* EPOLLOUT in, the event for the rest is not lost.
RemainderSent ==
  \A c \in Conn :
    setting.ends = {} /\ conn[c].iThrowsendCount > 0 ~> conn[c].iThrowsendCount = 0

\* A message skipped because the reactor sends on its connection is sent later;
\* none stays in the queue.
QueueDrains ==
  \A m \in Msg : m \in ToSet(m_MsgSendQueue) ~> m \notin ToSet(m_MsgSendQueue)

-----------------------------------------------------------------------------
(* The inductive invariant that the proofs use. *)

Online(c) == conn[c].list = "online"
SenderAt(c, pcs) == sender.pc \in pcs /\ sender.c = c
ReactorAt(c, pcs) == reactor.pc \in pcs /\ reactor.c = c

\* The steps in which the two threads use the sending state of a connection, and those
\* in which the reactor deals with a hangup.
Sending == {"send", "free", "clear", "raise", "arm"}
Writing == {"write", "disarm", "post", "free", "clear", "lower"}
HangingUp == {"read", "fd", "throw", "less", "recy", "out"}

\* A pool thread that has lowered iThrowsendCount is about to queue the connection.
WorkerQueues(c) == closer["worker"] = [pc |-> "recy", c |-> c]

MutexKept ==
  /\ sender.pc \notin {"wait", "lock"} <=> m_sendMessageQueueMutex = "send"
  /\ closer["worker"].pc # "idle" <=> m_sendMessageQueueMutex = "worker"
  /\ "timer" \notin setting.ends => closer["timer"].pc = "idle"

\* A message is queued once, before anybody frees it or sends it.
QueueKept ==
  /\ IsInjective(m_MsgSendQueue)
  /\ \A m \in ToSet(m_MsgSendQueue) : mem[m] = "sent"
  /\ \A m \in Msg : mem[m] # "none" => m \in DOMAIN setting.to
  /\ sender.pos >= 1
  /\ sender.pc = "throw" => sender.pos <= Len(m_MsgSendQueue) /\ To(Current) = sender.c
  /\ Len(m_MsgSendQueue) <= setting.MaxQueue + 1

\* Whoever uses a connection keeps it from being recycled, and its socket is closed
\* before it is queued.
ConnectionsKept ==
  /\ \A c \in Conn : ~Online(c) => ~conn[c].fd
  /\ \A c \in Conn : conn[c].list = "free" => conn[c].psendMemPointer = NoMsg
  /\ sender.pc \in Sending \cup {"throw"} => conn[sender.c].list # "free"
  /\ reactor.pc # "idle" => conn[reactor.c].list # "free"
  /\ reactor.pc \in HangingUp => peer[reactor.c] # "there"
  /\ reactor.pc \in {"throw", "less", "recy"} => ~conn[reactor.c].fd
  /\ \A x \in Closers :
       /\ closer[x].pc # "idle" => conn[closer[x].c].list # "free"
       /\ closer[x].pc \in {"throw", "less", "recy"} => ~conn[closer[x].c].fd
  /\ \A m \in Msg : mem[m] = "built" => conn[To(m)].list # "free"

\* The header of a message has the sequence number of a use of its connection, that of
\* the present one at most.
HeadersKept ==
  /\ \A m \in Msg : mem[m] # "none" =>
       /\ hdr[m] <= conn[To(m)].iCurrsequence
       /\ hdr[m] = conn[To(m)].iCurrsequence => Online(To(m))
       /\ mem[m] = "built" /\ Online(To(m)) => hdr[m] = conn[To(m)].iCurrsequence
  /\ sender.pc = "throw" /\ Online(sender.c) => hdr[Current] = conn[sender.c].iCurrsequence
  /\ \A c \in Conn : conn[c].psendbuf # NoMsg =>
       /\ mem[conn[c].psendbuf] # "none"
       /\ Online(c) => hdr[conn[c].psendbuf] = conn[c].iCurrsequence
  /\ \A c \in Conn : \A i \in 1..Len(wire[c]) : mem[wire[c][i]] # "none"

\* Until the timer thread has closed the socket, if there is a timer thread.
Shared(c) == conn[c].fd \/ "timer" \notin setting.ends

\* Whoever frees psendMemPointer clears it next, and nobody else frees that message.
Clearing(c) == SenderAt(c, {"clear"}) \/ ReactorAt(c, {"clear"})
Points(c, m) ==
  /\ mem[m] \notin {"none", "built"} /\ To(m) = c /\ m \notin ToSet(m_MsgSendQueue)
  /\ Shared(c) => mem[m] = IF Clearing(c) THEN "freed" ELSE "sent"
PointersKept ==
  \A c \in Conn :
    conn[c].psendMemPointer # NoMsg => Points(c, conn[c].psendMemPointer)

\* epoll may report that the socket is writable.
Armed(c) == conn[c].EPOLLOUT /\ conn[c].fd /\ peer[c] = "there"

\* Send thread and reactor do not use the sending state of a connection at the same time:
\* EPOLLOUT, and the reactor while it writes, stand for iThrowsendCount > 0.
PassedOn(c) ==
  /\ conn[c].fd /\ peer[c] = "there" =>
       /\ conn[c].iThrowsendCount >= 0
       /\ SenderAt(c, {"arm"}) => conn[c].iThrowsendCount > 0
  /\ Armed(c) => /\ conn[c].iThrowsendCount > 0
                 /\ conn[c].psendMemPointer = conn[c].psendbuf
                 /\ conn[c].psendbuf # NoMsg
  /\ Shared(c) /\ SenderAt(c, Sending) => ~ReactorAt(c, Writing) /\ ~Armed(c)
  /\ Shared(c) /\ SenderAt(c, Sending \ {"clear"}) =>
       conn[c].psendMemPointer = conn[c].psendbuf
  /\ SenderAt(c, Sending) => conn[c].psendbuf # NoMsg
  /\ Shared(c) /\ ReactorAt(c, Writing) =>
       /\ conn[c].iThrowsendCount > 0 \/ WorkerQueues(c) \/ ~Online(c)
       /\ SenderAt(c, {"throw"}) => Online(c)
  /\ ReactorAt(c, Writing) => conn[c].psendbuf # NoMsg
  /\ Shared(c) /\ ReactorAt(c, {"write", "disarm", "post", "free"}) =>
       conn[c].psendMemPointer = conn[c].psendbuf
  /\ ReactorAt(c, {"post", "free", "clear", "lower"}) => ~Armed(c)
  /\ Shared(c) /\ ReactorAt(c, {"lower"}) => conn[c].psendMemPointer = NoMsg
HandedOver == \A c \in Conn : PassedOn(c)

\* While nobody hangs up, a message that was taken keeps its place until it is sent.
NotLeft(c) ==
  /\ peer[c] = "there"
  /\ Online(c) /\ ~conn[c].fd => closer["worker"].pc # "idle" /\ closer["worker"].c = c
  /\ Online(c) /\ conn[c].psendMemPointer # NoMsg =>
       conn[c].iThrowsendCount > 0 \/ SenderAt(c, Sending) \/ WorkerQueues(c)
NoneLost ==
  setting.ends = {} =>
    /\ reactor.pc \notin HangingUp
    /\ sender.pc = "throw" => Online(sender.c)
    /\ \A c \in Conn : NotLeft(c)
    /\ NoneForgotten

\* What the socket of a client that stays has accepted: the message in hand as far as it
\* has been sent, behind whole ones.  A message is taken before the first of its pieces
\* is sent and is not queued again, and the next one is taken only after the last.
Complete(s) == s = <<>> \/ Pieces(s, Len(s)) = Size[s[Len(s)]]
Given(s, m) == Cardinality({i \in 1..Len(s) : s[i] = m})
Unsent(c) ==
  /\ conn[c].psendMemPointer # NoMsg
  /\ ~SenderAt(c, {"free", "clear"})
  /\ ~ReactorAt(c, {"disarm", "post", "free", "clear"})
Begun(c, m, n) ==
  /\ n \in 1..Size[m]
  /\ Given(wire[c], m) = Size[m] - n
  /\ n = Size[m] => Complete(wire[c])
  /\ n < Size[m] => wire[c][Len(wire[c])] = m
  /\ conn[c].iThrowsendCount > 0 \/ SenderAt(c, {"send", "raise"})
InHand(c) ==
  /\ conn[c].fd /\ Unsent(c) => Begun(c, conn[c].psendbuf, conn[c].isendlen)
  /\ conn[c].fd /\ ~Unsent(c) => Complete(wire[c])
LeftQueue(m) == mem[m] \notin {"none", "built"} /\ m \notin ToSet(m_MsgSendQueue)
WireKept ==
  "peer" \notin setting.ends =>
    /\ \A c \in Conn : peer[c] = "there"
    /\ \A c \in Conn : \A m \in ToSet(wire[c]) : LeftQueue(m)
    /\ \A c \in Conn : InHand(c)

IInv ==
  /\ TypeOK /\ MutexKept /\ QueueKept /\ ConnectionsKept
  /\ HeadersKept /\ NoStaleReply /\ BacklogCounted
  /\ PointersKept /\ HandedOver
  /\ FreedOnce \/ "timer" \in setting.ends
  /\ NoneLost
  /\ WireKept /\ WholeMessages
=============================================================================
