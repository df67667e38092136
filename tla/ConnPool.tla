------------------------------ MODULE ConnPool ------------------------------
(***************************************************************************)
(* The connection objects of a worker (net/ngx_c_socket_conn.cpp,          *)
(* ngx_c_socket_accept.cpp and zdClosesocketProc): the reactor takes one   *)
(* for each accepted socket, the threads that close a connection queue it  *)
(* for recycling, and the recycling thread returns it to the free list     *)
(* after RecyConnectionWaitTime.  The wait is taken to outlast the calls   *)
(* of zdClosesocketProc that are under way.                                *)
(*                                                                         *)
(* An object is known by its place in m_connectionList, which only grows,  *)
(* and 0 is NULL.  Sockets are the descriptors of the operating system,    *)
(* which hands out a closed one again.  What else a connection holds is in *)
(* SendPath (sending, iCurrsequence) and in TimerQueue.                    *)
(***************************************************************************)
EXTENDS Integers, SequencesExt

CONSTANTS
  Socket,                \* the descriptors
  NoSocket,              \* -1
  Closers,               \* the threads that close: of "reactor", "timer", "pool"
  m_worker_connections,
  m_ListenPortCount,     \* connections that listen
  PoolFactor             \* the pool may grow to about this many times its size, 5

ASSUME SizesAssumption ==
  /\ m_worker_connections \in Nat \ {0}
  /\ m_ListenPortCount \in 0..m_worker_connections
  /\ PoolFactor \in Nat \ {0}
ASSUME ClosersAssumption == "reactor" \in Closers
ASSUME NoSocketAssumption == NoSocket \notin Socket

VARIABLES
  m_connectionList,         \* the objects; of each its fd
  m_freeconnectionList,
  m_recyconnectionList,
  m_free_connection_n, m_total_connection_n, m_totol_recyconnection_n,
  m_onlineUserCount,
  open,        \* the descriptors that are open
  owner,       \* Socket -> the connection that it was opened for, 0 if none
  accepting,   \* where ngx_event_accept stands: step, socket, connection
  closing,     \* Closers -> where zdClosesocketProc stands: step, connection
  recycling    \* the connection between the two lists, 0 if none

vars == <<m_connectionList, m_freeconnectionList, m_recyconnectionList,
          m_free_connection_n, m_total_connection_n, m_totol_recyconnection_n,
          m_onlineUserCount, open, owner, accepting, closing, recycling>>

osVars == <<open, owner>>
freeVars == <<m_freeconnectionList, m_free_connection_n>>
listVars == <<m_connectionList, m_total_connection_n>>
recyVars == <<m_recyconnectionList, m_totol_recyconnection_n, recycling>>

Free == ToSet(m_freeconnectionList)
Recy == ToSet(m_recyconnectionList)
listening == 1..m_ListenPortCount
MaxCreated == 1..(PoolFactor * m_worker_connections + 1)
Created == 1..Len(m_connectionList)
InUse == Created \ (Free \cup Recy \cup {recycling})
Users == InUse \ listening

IdleAccept == [pc |-> "idle", s |-> NoSocket, c |-> 0]
IdleClose == [pc |-> "idle", c |-> 0]

\* initconnection; then ngx_epoll_init gives each listening socket, none of
\* which is ever closed, the first connection of the free list.
Init ==
  /\ m_connectionList = [c \in 1..m_worker_connections |-> NoSocket]
  /\ m_freeconnectionList =
       [i \in 1..(m_worker_connections - m_ListenPortCount) |-> m_ListenPortCount + i]
  /\ m_recyconnectionList = <<>>
  /\ m_free_connection_n = m_worker_connections - m_ListenPortCount
  /\ m_total_connection_n = m_worker_connections
  /\ m_totol_recyconnection_n = 0
  /\ m_onlineUserCount = 0
  /\ open = {}
  /\ owner = [s \in Socket |-> 0]
  /\ accepting = IdleAccept
  /\ closing = [x \in Closers |-> IdleClose]
  /\ recycling = 0

-----------------------------------------------------------------------------
(* ngx_event_accept, run by the reactor *)

\* close(s), which fails for -1
Close(s) ==
  /\ open' = open \ {s}
  /\ owner' = [t \in Socket |-> IF t = s THEN 0 ELSE owner[t]]

Accepting(pc) == accepting.pc = pc

\* accept4 returns a new socket.
AcceptSocket(s) ==
  /\ Accepting("idle") /\ closing["reactor"].pc = "idle"
  /\ s \notin open
  /\ open' = open \cup {s}
  /\ accepting' = [accepting EXCEPT !.pc = "limit", !.s = s]
  /\ UNCHANGED <<listVars, freeVars, recyVars, m_onlineUserCount, owner, closing>>

\* EMFILE: the function returns and epoll reports the client again.
AcceptFails ==
  /\ Accepting("idle") /\ closing["reactor"].pc = "idle"
  /\ open = Socket
  /\ UNCHANGED vars

\* Too many users: the function returns and leaves the socket as it is.
LeaveSocket ==
  /\ Accepting("limit")
  /\ m_onlineUserCount >= m_worker_connections
  /\ accepting' = IdleAccept
  /\ UNCHANGED <<listVars, freeVars, recyVars, m_onlineUserCount, osVars, closing>>

\* Variant: the size is compared off by one.
PoolExhaustedLate ==
  /\ Len(m_connectionList) > m_worker_connections * PoolFactor + 1
  /\ Len(m_freeconnectionList) < m_worker_connections

PoolExhausted ==
  /\ Len(m_connectionList) > m_worker_connections * PoolFactor
  /\ Len(m_freeconnectionList) < m_worker_connections

\* The message that refuses the client is formatted before the socket is closed: its
\* %zu takes no argument, so that its %s takes a number for an address, and the worker
\* ends with SIGSEGV.
RefuseSocket ==
  /\ Accepting("limit")
  /\ m_onlineUserCount < m_worker_connections
  /\ PoolExhausted
  /\ accepting' = [accepting EXCEPT !.pc = "crashed"]
  /\ UNCHANGED <<listVars, freeVars, recyVars, m_onlineUserCount, osVars, closing>>

AdmitSocket ==
  /\ Accepting("limit")
  /\ m_onlineUserCount < m_worker_connections
  /\ ~PoolExhausted
  /\ accepting' = [accepting EXCEPT !.pc = "get"]
  /\ UNCHANGED <<listVars, freeVars, recyVars, m_onlineUserCount, osVars, closing>>

\* ngx_get_connection: the first free object, or else a new one.
GetFree ==
  LET c == Head(m_freeconnectionList) IN
  /\ m_freeconnectionList # <<>>
  /\ m_freeconnectionList' = Tail(m_freeconnectionList)
  /\ m_free_connection_n' = m_free_connection_n - 1
  /\ m_connectionList' = [m_connectionList EXCEPT ![c] = accepting.s]
  /\ accepting' = [accepting EXCEPT !.pc = "add", !.c = c]
  /\ owner' = [owner EXCEPT ![accepting.s] = c]
  /\ UNCHANGED m_total_connection_n

\* Variant: the new object does not go to m_connectionList.
GetNewUnlisted ==
  LET c == Len(m_connectionList) + 1 IN
  /\ m_freeconnectionList = <<>>
  /\ m_total_connection_n' = m_total_connection_n + 1
  /\ accepting' = [accepting EXCEPT !.pc = "add", !.c = c]
  /\ owner' = [owner EXCEPT ![accepting.s] = c]
  /\ UNCHANGED <<m_connectionList, freeVars>>

GetNew ==
  LET c == Len(m_connectionList) + 1 IN
  /\ m_freeconnectionList = <<>>
  /\ m_connectionList' = Append(m_connectionList, accepting.s)
  /\ m_total_connection_n' = m_total_connection_n + 1
  /\ accepting' = [accepting EXCEPT !.pc = "add", !.c = c]
  /\ owner' = [owner EXCEPT ![accepting.s] = c]
  /\ UNCHANGED freeVars

ngx_get_connection ==
  /\ Accepting("get")
  /\ GetFree \/ GetNew
  /\ UNCHANGED <<recyVars, m_onlineUserCount, open, closing>>

\* The socket is added to epoll, and the connection to the timer queue, where
\* the timer thread can find it.
AddToEpoll ==
  /\ Accepting("add")
  /\ \E pc \in {"count", "free"} : accepting' = [accepting EXCEPT !.pc = pc]
  /\ UNCHANGED <<listVars, freeVars, recyVars, m_onlineUserCount, osVars, closing>>

CountUser ==
  /\ Accepting("count")
  /\ m_onlineUserCount' = m_onlineUserCount + 1
  /\ accepting' = IdleAccept
  /\ UNCHANGED <<listVars, freeVars, recyVars, osVars, closing>>

\* Variant: the user is discounted although it was not counted yet.
FreeAcceptedDiscounted ==
  /\ Accepting("free")
  /\ m_freeconnectionList' = Append(m_freeconnectionList, accepting.c)
  /\ m_free_connection_n' = m_free_connection_n + 1
  /\ m_onlineUserCount' = m_onlineUserCount - 1
  /\ accepting' = [accepting EXCEPT !.pc = "close"]
  /\ UNCHANGED <<listVars, recyVars, osVars, closing>>

\* ngx_close_connection, when epoll fails: ngx_free_connection, then the socket.
FreeAccepted ==
  /\ Accepting("free")
  /\ m_freeconnectionList' = Append(m_freeconnectionList, accepting.c)
  /\ m_free_connection_n' = m_free_connection_n + 1
  /\ accepting' = [accepting EXCEPT !.pc = "close"]
  /\ UNCHANGED <<listVars, recyVars, m_onlineUserCount, osVars, closing>>

CloseAccepted ==
  /\ Accepting("close")
  /\ Close(accepting.s)
  /\ m_connectionList' = [m_connectionList EXCEPT ![accepting.c] = NoSocket]
  /\ accepting' = IdleAccept
  /\ UNCHANGED <<m_total_connection_n, freeVars, recyVars, m_onlineUserCount, closing>>

ngx_event_accept ==
  \/ LeaveSocket \/ RefuseSocket \/ AdmitSocket \/ ngx_get_connection
  \/ AddToEpoll \/ CountUser \/ FreeAccepted \/ CloseAccepted

-----------------------------------------------------------------------------
(* zdClosesocketProc *)

\* The reactor closes between two events, also for an event that epoll_wait
\* reported before another thread closed the connection; a pool thread may have
\* tested the connection before, too.  The timer thread tests iCurrsequence.
MayClose(x, c) ==
  /\ c \in Users \cup (IF x = "timer" THEN {} ELSE Recy)
  /\ accepting.c = c => x = "timer" /\ Accepting("count")
  /\ x = "reactor" => Accepting("idle")

StartClose(x, c) ==
  /\ closing[x].pc = "idle"
  /\ MayClose(x, c)
  /\ closing' = [closing EXCEPT ![x] = [pc |-> "test", c |-> c]]
  /\ UNCHANGED <<listVars, freeVars, recyVars, m_onlineUserCount, osVars, accepting>>

TestFd(x) ==
  /\ closing[x].pc = "test"
  /\ closing' = [closing EXCEPT ![x].pc =
                   IF m_connectionList[closing[x].c] = NoSocket THEN "recy" ELSE "close"]
  /\ UNCHANGED <<listVars, freeVars, recyVars, m_onlineUserCount, osVars, accepting>>

CloseFd(x) ==
  LET s == m_connectionList[closing[x].c] IN
  /\ closing[x].pc = "close"
  /\ Close(s)
  /\ closing' = [closing EXCEPT ![x].pc = "reset"]
  /\ UNCHANGED <<listVars, freeVars, recyVars, m_onlineUserCount, accepting>>

ResetFd(x) ==
  /\ closing[x].pc = "reset"
  /\ m_connectionList' = [m_connectionList EXCEPT ![closing[x].c] = NoSocket]
  /\ closing' = [closing EXCEPT ![x].pc = "recy"]
  /\ UNCHANGED <<m_total_connection_n, freeVars, recyVars, m_onlineUserCount, osVars,
                 accepting>>

\* Variant: the list is not searched.
IsQueuedNever(c) == FALSE

IsQueued(c) == c \in Recy

\* Variant: the connection is not counted.
QueueUncounted(c) ==
  /\ m_recyconnectionList' = Append(m_recyconnectionList, c)
  /\ m_onlineUserCount' = m_onlineUserCount - 1
  /\ UNCHANGED <<m_totol_recyconnection_n, recycling>>

Queue(c) ==
  /\ m_recyconnectionList' = Append(m_recyconnectionList, c)
  /\ m_totol_recyconnection_n' = m_totol_recyconnection_n + 1
  /\ m_onlineUserCount' = m_onlineUserCount - 1
  /\ UNCHANGED recycling

\* The recycling thread holds m_recyconnqueueMutex while it moves a connection.
inRecyConnectQueue(x) ==
  LET c == closing[x].c IN
  /\ closing[x].pc = "recy"
  /\ recycling = 0
  /\ \/ IsQueued(c) /\ UNCHANGED <<recyVars, m_onlineUserCount>>
     \/ ~IsQueued(c) /\ Queue(c)
  /\ closing' = [closing EXCEPT ![x] = IdleClose]
  /\ UNCHANGED <<listVars, freeVars, osVars, accepting>>

zdClosesocketProc(x) ==
  TestFd(x) \/ CloseFd(x) \/ ResetFd(x) \/ inRecyConnectQueue(x)

-----------------------------------------------------------------------------
(* ServerRecyConnectionThread *)

\* RecyConnectionWaitTime has passed for the connection that has waited longest:
\* inRecyTime never decreases along the list.
TakeFromRecy ==
  LET c == Head(m_recyconnectionList) IN
  /\ recycling = 0 /\ m_recyconnectionList # <<>>
  /\ m_totol_recyconnection_n > 0
  /\ \A x \in Closers : closing[x].c # c
  /\ accepting.c # c
  /\ recycling' = c
  /\ m_recyconnectionList' = Tail(m_recyconnectionList)
  /\ m_totol_recyconnection_n' = m_totol_recyconnection_n - 1
  /\ UNCHANGED <<listVars, freeVars, m_onlineUserCount, osVars, accepting, closing>>

\* ngx_free_connection
ngx_free_connection ==
  /\ recycling # 0
  /\ m_freeconnectionList' = Append(m_freeconnectionList, recycling)
  /\ m_free_connection_n' = m_free_connection_n + 1
  /\ recycling' = 0
  /\ UNCHANGED <<listVars, m_recyconnectionList, m_totol_recyconnection_n,
                 m_onlineUserCount, osVars, accepting, closing>>

ServerRecyConnectionThread == TakeFromRecy \/ ngx_free_connection

-----------------------------------------------------------------------------
Crashed == Accepting("crashed")

\* The process is gone with all its threads.
Gone == Crashed /\ UNCHANGED vars

Threads ==
  \/ \E s \in Socket : AcceptSocket(s)
  \/ AcceptFails
  \/ ngx_event_accept
  \/ \E x \in Closers : (\E c \in Created : StartClose(x, c)) \/ zdClosesocketProc(x)
  \/ ServerRecyConnectionThread

Next == (~Crashed /\ Threads) \/ Gone

Spec == Init /\ [][Next]_vars

\* The threads run.  Nobody owes the worker a connection or a reason to close one.
\* A connection is not being closed all the time it waits to be recycled: whoever
\* still closes it has found it before it was closed.
FairSpec ==
  /\ Spec
  /\ WF_vars(ngx_event_accept)
  /\ \A x \in Closers : SF_vars(~Crashed /\ zdClosesocketProc(x))
  /\ SF_vars(~Crashed /\ ServerRecyConnectionThread)
  /\ \A c \in MaxCreated : []<>(\A x \in Closers : closing[x].c # c)

-----------------------------------------------------------------------------
(* Properties *)

AcceptStates ==
  [pc : {"idle", "limit", "get", "add", "count", "free", "close", "crashed"},
   s : Socket \cup {NoSocket}, c : {0} \cup Created]
CloseStates == [pc : {"idle", "test", "close", "reset", "recy"}, c : {0} \cup Created]

TypeOK ==
  /\ m_connectionList \in Seq(Socket \cup {NoSocket})
  /\ m_freeconnectionList \in Seq(Created)
  /\ m_recyconnectionList \in Seq(Created)
  /\ m_free_connection_n \in Int
  /\ m_total_connection_n \in Int
  /\ m_totol_recyconnection_n \in Int
  /\ m_onlineUserCount \in Int
  /\ open \subseteq Socket
  /\ owner \in [Socket -> {0} \cup Created]
  /\ accepting \in AcceptStates
  /\ closing \in [Closers -> CloseStates]
  /\ recycling \in {0} \cup Created

\* A connection object is in one place, so that no two users ever get the same
\* one, however often and by however many threads it is closed.
OnePlace ==
  /\ IsInjective(m_freeconnectionList)
  /\ IsInjective(m_recyconnectionList)
  /\ Free \cap Recy = {}
  /\ recycling \notin Free \cup Recy
  /\ listening \cap (Free \cup Recy \cup {recycling}) = {}

\* The program's counters agree with the lists, which change under other mutexes or
\* none; and m_onlineUserCount is the number of connections in use, but for the one
\* that is being accepted, which the timer thread may close before it is counted.
CountersAgree ==
  /\ m_free_connection_n = Len(m_freeconnectionList)
  /\ m_total_connection_n = Len(m_connectionList)
  /\ m_totol_recyconnection_n = Len(m_recyconnectionList)
  /\ m_onlineUserCount =
       Cardinality(Users) - (IF accepting.pc \in {"add", "count", "free"} THEN 1 ELSE 0)

\* The limits of ngx_event_accept hold although the timer and the recycling
\* thread change what it tests: no more users than worker_connections, and no
\* more objects than five times as many, and one.
LimitsKept ==
  /\ Cardinality(Users) <= m_worker_connections
  /\ Len(m_connectionList) <= PoolFactor * m_worker_connections + 1

\* A connection that was closed comes back to the free list, as long as the worker runs.
EveryConnectionRecycled ==
  \A c \in MaxCreated : c \in Recy ~> c \in Free \/ Crashed

\* The message of ngx_event_accept for an exhausted pool: the new connection is
\* refused, and the worker goes on.
RefusesAndGoesOn == ~Crashed

\* The comment of zdClosesocketProc: close() closes this connection's socket.
ClosesItsOwnSocket ==
  [][\A x \in Closers : CloseFd(x) =>
       \A s \in open \ open' : owner[s] = closing[x].c]_vars

-----------------------------------------------------------------------------
(* The inductive invariant that the proofs use. *)

\* A connection that a thread closes is in use or queued already: TakeFromRecy
\* leaves it there until the thread is done with it.
ClosedInUse ==
  \A x \in Closers :
    IF closing[x].pc = "idle" THEN closing[x].c = 0 ELSE closing[x].c \in Users \cup Recy

\* The connection that is being accepted is in use and nobody closes it, until it is in
\* the timer queue.
AcceptedInUse ==
  /\ accepting.pc \in {"add", "free"} =>
       accepting.c \in Users /\ \A x \in Closers : closing[x].c # accepting.c
  /\ accepting.pc = "count" => accepting.c \in Users \cup Recy

\* What ngx_event_accept tested still holds when it takes the connection: only the
\* reactor adds users and objects, and only the reactor takes from the free list.
RoomLeft ==
  /\ m_worker_connections <= Len(m_connectionList)
  /\ m_onlineUserCount <= m_worker_connections
  /\ accepting.pc \in {"get", "add", "count", "free"} =>
       m_onlineUserCount < m_worker_connections
  /\ Len(m_connectionList) <= PoolFactor * m_worker_connections + 1
  /\ accepting.pc = "get" =>
       \/ Len(m_connectionList) <= PoolFactor * m_worker_connections
       \/ Len(m_freeconnectionList) >= m_worker_connections

IInv ==
  /\ TypeOK
  /\ OnePlace
  /\ ClosedInUse
  /\ AcceptedInUse
  /\ CountersAgree
  /\ RoomLeft
=============================================================================
