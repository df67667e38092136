---------------------------- MODULE ConnPool_proofs ----------------------------
(***************************************************************************)
(* Proofs about the connection objects of a worker, for any number of      *)
(* connections, listening ports, descriptors and closing threads.          *)
(***************************************************************************)
EXTENDS ConnPool, QueueFacts, FiniteSetTheorems, SequenceTheorems, TLAPS

(* Where the objects are *)

LEMMA PlaceTypes ==
  ASSUME TypeOK
  PROVE  /\ Len(m_connectionList) \in Nat
         /\ Free \subseteq Created /\ Recy \subseteq Created
         /\ Users \subseteq Created /\ 0 \notin Created
         /\ \A c \in Created : c \in Nat
BY DEF TypeOK, Free, Recy, Created, Users, InUse, ToSet

\* Cardinality, of the sets of users.
LEMMA CountUsers ==
  ASSUME TypeOK
  PROVE  /\ Cardinality(Users) \in Nat
         /\ \A c : c \notin Users => Cardinality(Users \cup {c}) = Cardinality(Users) + 1
         /\ \A c \in Users : Cardinality(Users \ {c}) = Cardinality(Users) - 1
<1>1. IsFiniteSet(Created)
  BY PlaceTypes, FS_Interval DEF Created
<1>2. IsFiniteSet(Users)
  BY <1>1, PlaceTypes, FS_Subset
<1> QED BY <1>2, FS_CardinalityType, FS_AddElement, FS_RemoveElement

\* ngx_get_connection takes the first free object, which becomes a user.
LEMMA GetFreeMoves ==
  ASSUME TypeOK, OnePlace, ngx_get_connection, GetFree
  PROVE  LET c == Head(m_freeconnectionList) IN
         /\ c \in Free /\ Free' = Free \ {c}
         /\ m_freeconnectionList' \in Seq(Created) /\ IsInjective(m_freeconnectionList')
         /\ Len(m_freeconnectionList') = Len(m_freeconnectionList) - 1
         /\ Created' = Created /\ UNCHANGED <<recyVars, Recy, closing, m_onlineUserCount>>
         /\ Len(m_connectionList') = Len(m_connectionList)
         /\ c \notin Users /\ Users' = Users \cup {c}
<1> DEFINE c == Head(m_freeconnectionList)
<1> USE DEF TypeOK, ngx_get_connection, GetFree
<1>1. /\ m_freeconnectionList' \in Seq(Created) /\ IsInjective(m_freeconnectionList')
      /\ Len(m_freeconnectionList') = Len(m_freeconnectionList) - 1
      /\ c \in Created /\ Free = Free' \cup {c} /\ c \notin Free'
  BY TailFacts DEF OnePlace, Free
<1>2. Created' = Created /\ Len(m_connectionList') = Len(m_connectionList)
  BY DEF Created
<1>3. UNCHANGED <<recyVars, Recy, closing, m_onlineUserCount>>
  BY DEF recyVars, Recy
<1> HIDE DEF TypeOK, ngx_get_connection, GetFree, c
<1>4. c \notin Users /\ Users' = Users \cup {c}
  BY <1>1, <1>2, <1>3 DEF OnePlace, Users, InUse, recyVars, listening
<1> QED BY <1>1, <1>2, <1>3, <1>4 DEF c

\* ... or makes a new one.
LEMMA GetNewMoves ==
  ASSUME TypeOK, OnePlace, RoomLeft, ngx_get_connection, GetNew
  PROVE  LET c == Len(m_connectionList) + 1 IN
         /\ c \notin Created /\ Created' = Created \cup {c} /\ c # recycling
         /\ m_connectionList' \in Seq(Socket \cup {NoSocket})
         /\ Len(m_connectionList') = Len(m_connectionList) + 1
         /\ UNCHANGED <<freeVars, Free, recyVars, Recy, closing, m_onlineUserCount>>
         /\ c \notin Users /\ Users' = Users \cup {c}
<1> USE DEF TypeOK, ngx_get_connection, GetNew
<1>1. accepting.s \in Socket \cup {NoSocket}
  BY DEF AcceptStates
<1>2. m_connectionList' \in Seq(Socket \cup {NoSocket})
      /\ Len(m_connectionList') = Len(m_connectionList) + 1
  BY <1>1
<1>3. /\ Len(m_connectionList) + 1 \notin Created
      /\ Created' = Created \cup {Len(m_connectionList) + 1}
      /\ Len(m_connectionList) + 1 # recycling
  BY <1>2 DEF Created
<1>4. UNCHANGED <<freeVars, Free, recyVars, Recy, closing, m_onlineUserCount>>
  BY DEF freeVars, Free, recyVars, Recy
<1>5. Len(m_connectionList) + 1 \notin listening
  BY SizesAssumption DEF listening, RoomLeft
<1> HIDE DEF TypeOK, ngx_get_connection, GetNew
<1>6. Len(m_connectionList) + 1 \notin Free \cup Recy
  BY <1>3, PlaceTypes
<1> QED BY <1>2, <1>3, <1>4, <1>5, <1>6 DEF Users, InUse, recyVars

\* ngx_close_connection puts the object back, inRecyConnectQueue queues it, ...
LEMMA FreeAcceptedMoves ==
  ASSUME TypeOK, OnePlace, AcceptedInUse, FreeAccepted
  PROVE  /\ accepting.c \in Users /\ Users' = Users \ {accepting.c}
         /\ Free' = Free \cup {accepting.c}
         /\ m_freeconnectionList' \in Seq(Created) /\ IsInjective(m_freeconnectionList')
         /\ Len(m_freeconnectionList') = Len(m_freeconnectionList) + 1
         /\ UNCHANGED <<Created, recyVars, Recy>>
<1>1. accepting.c \in Users /\ accepting.c \in Created /\ accepting.c \notin Free
  BY PlaceTypes DEF AcceptedInUse, FreeAccepted, Accepting, Users, InUse
<1>2. /\ Free' = Free \cup {accepting.c}
      /\ m_freeconnectionList' \in Seq(Created) /\ IsInjective(m_freeconnectionList')
      /\ Len(m_freeconnectionList') = Len(m_freeconnectionList) + 1
  BY <1>1, AppendFacts DEF TypeOK, OnePlace, Free, FreeAccepted
<1>3. UNCHANGED <<Created, recyVars, Recy>>
  BY DEF FreeAccepted, listVars, recyVars, Created, Recy
<1> QED BY <1>1, <1>2, <1>3 DEF Users, InUse, recyVars

\* inRecyConnectQueue moves a connection that is not queued from the users to the
\* recycle list.
LEMMA QueueMoves ==
  ASSUME TypeOK, OnePlace, ClosedInUse, NEW x \in Closers, inRecyConnectQueue(x),
         ~IsQueued(closing[x].c)
  PROVE  LET c == closing[x].c IN
         /\ c \in Users /\ Users' = Users \ {c} /\ Recy' = Recy \cup {c}
         /\ m_recyconnectionList' \in Seq(Created) /\ IsInjective(m_recyconnectionList')
         /\ Len(m_recyconnectionList') = Len(m_recyconnectionList) + 1
         /\ m_totol_recyconnection_n' = m_totol_recyconnection_n + 1
         /\ m_onlineUserCount' = m_onlineUserCount - 1
         /\ UNCHANGED <<Created, freeVars, Free, recycling>>
<1> DEFINE c == closing[x].c
<1>1. Queue(c)
  BY DEF inRecyConnectQueue
<1>2. c \in Users /\ c \in Created /\ c \notin Recy
  BY PlaceTypes DEF ClosedInUse, inRecyConnectQueue, IsQueued
<1>3. /\ Recy' = Recy \cup {c}
      /\ m_recyconnectionList' \in Seq(Created) /\ IsInjective(m_recyconnectionList')
      /\ Len(m_recyconnectionList') = Len(m_recyconnectionList) + 1
  BY <1>1, <1>2, AppendFacts DEF TypeOK, OnePlace, Recy, Queue
<1>4. UNCHANGED <<Created, freeVars, Free, recycling>>
  BY <1>1 DEF Queue, inRecyConnectQueue, listVars, freeVars, Created, Free
<1> QED BY <1>1, <1>2, <1>3, <1>4 DEF Users, InUse, Queue

\* ... and ServerRecyConnectionThread takes it from one list to the other.
LEMMA TakeFromRecyMoves ==
  ASSUME TypeOK, OnePlace, TakeFromRecy
  PROVE  /\ recycling' \in Recy /\ Recy' = Recy \ {recycling'}
         /\ recycling' # accepting.c /\ \A x \in Closers : closing[x].c # recycling'
         /\ m_recyconnectionList' \in Seq(Created) /\ IsInjective(m_recyconnectionList')
         /\ Len(m_recyconnectionList') = Len(m_recyconnectionList) - 1
         /\ UNCHANGED <<Created, freeVars, Free, Users>>
<1>1. recycling' = Head(m_recyconnectionList) /\ m_recyconnectionList # <<>>
      /\ m_recyconnectionList' = Tail(m_recyconnectionList) /\ recycling = 0
  BY DEF TakeFromRecy
<1>2. /\ recycling' \in Recy /\ Recy' = Recy \ {recycling'}
      /\ m_recyconnectionList' \in Seq(Created) /\ IsInjective(m_recyconnectionList')
      /\ Len(m_recyconnectionList') = Len(m_recyconnectionList) - 1
  BY <1>1, TailFacts DEF TypeOK, OnePlace, Recy
<1>3. UNCHANGED <<Created, freeVars, Free>>
  BY DEF TakeFromRecy, listVars, freeVars, Created, Free
<1>4. Users' = Users
  BY <1>1, <1>2, <1>3, PlaceTypes DEF Users, InUse
<1>5. recycling' # accepting.c /\ \A x \in Closers : closing[x].c # recycling'
  BY DEF TakeFromRecy
<1> QED BY <1>2, <1>3, <1>4, <1>5

\* ngx_free_connection puts what the recycling thread holds into the free list.
LEMMA FreeRecycledMoves ==
  ASSUME TypeOK, OnePlace, ngx_free_connection
  PROVE  /\ recycling \in Created /\ recycling' = 0
         /\ Free' = Free \cup {recycling}
         /\ m_freeconnectionList' \in Seq(Created) /\ IsInjective(m_freeconnectionList')
         /\ Len(m_freeconnectionList') = Len(m_freeconnectionList) + 1
         /\ UNCHANGED <<Created, m_recyconnectionList, Recy, Users>>
<1>1. recycling \in Created /\ recycling \notin Free \cup Recy /\ recycling' = 0
  BY DEF TypeOK, OnePlace, ngx_free_connection
<1>2. /\ Free' = Free \cup {recycling}
      /\ m_freeconnectionList' \in Seq(Created) /\ IsInjective(m_freeconnectionList')
      /\ Len(m_freeconnectionList') = Len(m_freeconnectionList) + 1
  BY <1>1, AppendFacts DEF TypeOK, OnePlace, Free, ngx_free_connection
<1>3. UNCHANGED <<Created, m_recyconnectionList, Recy>>
  BY DEF ngx_free_connection, listVars, Created, Recy
<1>4. Users' = Users
  BY <1>1, <1>2, <1>3, PlaceTypes DEF Users, InUse
<1> QED BY <1>1, <1>2, <1>3, <1>4

\* The other steps leave every object where it is.
Others(x) ==
  \/ \E s \in Socket : AcceptSocket(s)
  \/ LeaveSocket \/ RefuseSocket \/ AdmitSocket \/ AddToEpoll \/ CountUser
  \/ CloseAccepted \/ (\E c \in Created : StartClose(x, c))
  \/ TestFd(x) \/ CloseFd(x) \/ ResetFd(x)
  \/ inRecyConnectQueue(x) /\ IsQueued(closing[x].c)
  \/ UNCHANGED vars

\* The other steps move no object from one list to another.
LEMMA OthersStay ==
  ASSUME TypeOK, NEW x \in Closers, Others(x)
  PROVE  /\ UNCHANGED <<freeVars, recyVars, m_total_connection_n, Created, Free, Recy, Users>>
         /\ m_connectionList' \in Seq(Socket \cup {NoSocket})
         /\ Len(m_connectionList') = Len(m_connectionList)
<1> USE DEF Others, listVars, freeVars, recyVars, osVars
<1>1. UNCHANGED <<freeVars, recyVars, m_total_connection_n>>
  BY DEF AcceptSocket, LeaveSocket, RefuseSocket, AdmitSocket, AddToEpoll, CountUser,
         CloseAccepted, StartClose, TestFd, CloseFd, ResetFd, inRecyConnectQueue, Queue,
         IsQueued, vars
<1>2. \/ UNCHANGED m_connectionList
      \/ \E c : m_connectionList' = [m_connectionList EXCEPT ![c] = NoSocket]
  BY DEF AcceptSocket, LeaveSocket, RefuseSocket, AdmitSocket, AddToEpoll, CountUser,
         CloseAccepted, StartClose, TestFd, CloseFd, ResetFd, inRecyConnectQueue, vars
<1>3. m_connectionList' \in Seq(Socket \cup {NoSocket})
      /\ Len(m_connectionList') = Len(m_connectionList)
  <2>1. m_connectionList \in Seq(Socket \cup {NoSocket}) /\ NoSocket \in Socket \cup {NoSocket}
    BY DEF TypeOK
  <2>2. CASE UNCHANGED m_connectionList
    BY <2>1, <2>2
  <2>3. ASSUME NEW c, m_connectionList' = [m_connectionList EXCEPT ![c] = NoSocket]
        PROVE  /\ m_connectionList' \in Seq(Socket \cup {NoSocket})
               /\ Len(m_connectionList') = Len(m_connectionList)
    BY <2>1, <2>3, ExceptFacts
  <2> QED BY <1>2, <2>2, <2>3
<1> QED BY <1>1, <1>3 DEF Created, Free, Recy, Users, InUse

\* What a step of the pool can be, by what it does to the lists.
LEMMA AllSteps ==
  ASSUME [Next]_vars
  PROVE  \/ ngx_get_connection /\ (GetFree \/ GetNew)
         \/ FreeAccepted \/ TakeFromRecy \/ ngx_free_connection
         \/ \E x \in Closers : inRecyConnectQueue(x) /\ ~IsQueued(closing[x].c)
         \/ \E x \in Closers : Others(x)
BY ClosersAssumption
DEF Next, Threads, Gone, AcceptFails, ngx_event_accept, ngx_get_connection, zdClosesocketProc,
    ServerRecyConnectionThread, Others

(* The steps keep the invariant *)

LEMMA TypeStep ==
  TypeOK /\ OnePlace /\ ClosedInUse /\ AcceptedInUse /\ RoomLeft /\ [Next]_vars => TypeOK'
<1> SUFFICES ASSUME TypeOK, OnePlace, ClosedInUse, AcceptedInUse, RoomLeft, [Next]_vars
             PROVE TypeOK'
  OBVIOUS
<1> USE DEF Accepting, listVars, freeVars, recyVars, osVars
<1>t. /\ accepting \in AcceptStates /\ closing \in [Closers -> CloseStates]
      /\ m_free_connection_n \in Int /\ owner \in [Socket -> {0} \cup Created]
  BY DEF TypeOK
<1>u. Created' = Created => AcceptStates' = AcceptStates /\ CloseStates' = CloseStates
  BY DEF AcceptStates, CloseStates
<1>1. ASSUME NEW s \in Socket, AcceptSocket(s) PROVE TypeOK'
  <2>1. Created' = Created
    BY <1>1 DEF AcceptSocket, Created
  <2>2. accepting' \in AcceptStates
    BY <1>1, <1>t DEF AcceptSocket, AcceptStates
  <2> QED BY <1>1, <1>u, <2>1, <2>2 DEF TypeOK, AcceptSocket
<1>2. CASE LeaveSocket \/ RefuseSocket \/ AdmitSocket \/ AddToEpoll \/ CountUser
  <2>1. Created' = Created
    BY <1>2 DEF LeaveSocket, RefuseSocket, AdmitSocket, AddToEpoll, CountUser, Created
  <2>2. accepting' \in AcceptStates
    BY <1>2, <1>t
    DEF LeaveSocket, RefuseSocket, AdmitSocket, AddToEpoll, CountUser, IdleAccept, AcceptStates
  <2> QED
    BY <1>2, <1>u, <2>1, <2>2
    DEF TypeOK, LeaveSocket, RefuseSocket, AdmitSocket, AddToEpoll, CountUser
<1>3. CASE ngx_get_connection
  <2>1. CASE GetFree
    <3>1. /\ m_freeconnectionList' \in Seq(Created) /\ Created' = Created
          /\ Head(m_freeconnectionList) \in Created
      BY <1>3, <2>1, GetFreeMoves, PlaceTypes
    <3>2. m_connectionList' \in Seq(Socket \cup {NoSocket})
      <4>1. /\ m_connectionList \in Seq(Socket \cup {NoSocket})
            /\ accepting.s \in Socket \cup {NoSocket}
        BY <1>t DEF TypeOK, AcceptStates
      <4> QED BY <2>1, <4>1, ExceptFacts DEF GetFree
    <3>3. accepting' \in AcceptStates
          /\ owner' \in [Socket -> {0} \cup Created]
      BY <1>t, <2>1, <3>1 DEF GetFree, AcceptStates
    <3> QED BY <1>3, <1>u, <2>1, <3>1, <3>2, <3>3 DEF TypeOK, ngx_get_connection, GetFree
  <2>2. CASE GetNew
    <3> DEFINE c == Len(m_connectionList) + 1
    <3>1. /\ m_connectionList' \in Seq(Socket \cup {NoSocket})
          /\ Created' = Created \cup {c}
      BY <1>3, <2>2, GetNewMoves
    <3>2. m_freeconnectionList' \in Seq(Created') /\ m_recyconnectionList' \in Seq(Created')
      BY <1>3, <2>2, <3>1, SeqMonotonic DEF TypeOK, ngx_get_connection, GetNew
    <3>3. accepting' \in AcceptStates'
          /\ owner' \in [Socket -> {0} \cup Created']
      BY <1>t, <2>2, <3>1 DEF GetNew, AcceptStates
    <3>4. closing' \in [Closers -> CloseStates']
      BY <1>t, <1>3, <3>1 DEF ngx_get_connection, CloseStates
    <3> QED BY <1>3, <2>2, <3>1, <3>2, <3>3, <3>4 DEF TypeOK, ngx_get_connection, GetNew
  <2> QED BY <1>3, <2>1, <2>2 DEF ngx_get_connection
<1>4. CASE FreeAccepted
  <2>1. m_freeconnectionList' \in Seq(Created) /\ Created' = Created
    BY <1>4, FreeAcceptedMoves
  <2>2. /\ m_free_connection_n' \in Int
        /\ accepting' \in AcceptStates
    BY <1>4, <1>t DEF FreeAccepted, AcceptStates
  <2> QED BY <1>4, <1>u, <2>1, <2>2 DEF TypeOK, FreeAccepted
<1>5. CASE CloseAccepted
  <2>1. m_connectionList' \in Seq(Socket \cup {NoSocket}) /\ Created' = Created
    BY <1>5, OthersStay, ClosersAssumption DEF Others
  <2>2. accepting' \in AcceptStates
    BY <1>5, <1>t DEF CloseAccepted, IdleAccept, AcceptStates
  <2> QED BY <1>5, <1>u, <2>1, <2>2 DEF TypeOK, CloseAccepted, Close
<1>6. ASSUME NEW x \in Closers, NEW c \in Created, StartClose(x, c) PROVE TypeOK'
  <2>1. Created' = Created
    BY <1>6 DEF StartClose, Created
  <2>2. closing' \in [Closers -> CloseStates]
    BY <1>6, <1>t DEF StartClose, CloseStates
  <2> QED BY <1>6, <1>u, <2>1, <2>2 DEF TypeOK, StartClose
<1>7. ASSUME NEW x \in Closers, zdClosesocketProc(x) PROVE TypeOK'
  <2>1. CASE TestFd(x) \/ CloseFd(x) \/ ResetFd(x)
    <3>1. m_connectionList' \in Seq(Socket \cup {NoSocket}) /\ Created' = Created
      BY <2>1, OthersStay DEF Others
    <3>2. closing' \in [Closers -> CloseStates]
      <4>1. \E pc \in {"recy", "close", "reset"} : closing' = [closing EXCEPT ![x].pc = pc]
        BY <2>1 DEF TestFd, CloseFd, ResetFd
      <4> QED BY <4>1, <1>t DEF CloseStates
    <3>3. open' \subseteq Socket /\ owner' \in [Socket -> {0} \cup Created]
      BY <2>1 DEF TypeOK, TestFd, CloseFd, ResetFd, Close
    <3>4. UNCHANGED <<freeVars, recyVars, m_total_connection_n, m_onlineUserCount, accepting>>
      BY <2>1 DEF TestFd, CloseFd, ResetFd
    <3> QED BY <1>u, <3>1, <3>2, <3>3, <3>4 DEF TypeOK
  <2>2. CASE inRecyConnectQueue(x)
    <3>1. m_recyconnectionList' \in Seq(Created) /\ Created' = Created
      <4>1. CASE ~IsQueued(closing[x].c) BY <2>2, <4>1, QueueMoves
      <4>2. CASE IsQueued(closing[x].c)
        BY <2>2, <4>2 DEF TypeOK, inRecyConnectQueue, IsQueued, Created
      <4> QED BY <4>1, <4>2
    <3>2. closing' \in [Closers -> CloseStates]
      BY <2>2, <1>t DEF inRecyConnectQueue, IdleClose, CloseStates
    <3> QED BY <1>u, <2>2, <3>1, <3>2 DEF TypeOK, inRecyConnectQueue, Queue
  <2> QED BY <1>7, <2>1, <2>2 DEF zdClosesocketProc
<1>8. CASE TakeFromRecy
  <2>1. /\ recycling' \in Created /\ m_recyconnectionList' \in Seq(Created)
        /\ Created' = Created
    BY <1>8, TakeFromRecyMoves, PlaceTypes
  <2> QED BY <1>8, <1>u, <2>1 DEF TypeOK, TakeFromRecy
<1>9. CASE ngx_free_connection
  <2>1. m_freeconnectionList' \in Seq(Created) /\ Created' = Created
    BY <1>9, FreeRecycledMoves
  <2> QED BY <1>9, <1>u, <2>1 DEF TypeOK, ngx_free_connection
<1>10. CASE UNCHANGED vars
  BY <1>10, <1>u DEF TypeOK, vars, Created
<1> QED
  BY <1>1, <1>2, <1>3, <1>4, <1>5, <1>6, <1>7, <1>8, <1>9, <1>10
  DEF Next, Threads, Gone, AcceptFails, ngx_event_accept, ServerRecyConnectionThread

\* No step puts an object in two lists, or in one twice.
LEMMA PlaceStep ==
  TypeOK /\ OnePlace /\ ClosedInUse /\ AcceptedInUse /\ RoomLeft /\ [Next]_vars => OnePlace'
<1> SUFFICES ASSUME TypeOK, OnePlace, ClosedInUse, AcceptedInUse, RoomLeft, [Next]_vars
             PROVE OnePlace'
  OBVIOUS
<1> USE DEF OnePlace, listening
<1>1. CASE ngx_get_connection /\ GetFree
  BY <1>1, GetFreeMoves DEF recyVars
<1>2. CASE ngx_get_connection /\ GetNew
  BY <1>2, GetNewMoves DEF freeVars, recyVars
<1>3. CASE FreeAccepted
  BY <1>3, FreeAcceptedMoves DEF recyVars, Users, InUse
<1>4. ASSUME NEW x \in Closers, inRecyConnectQueue(x), ~IsQueued(closing[x].c) PROVE OnePlace'
  BY <1>4, QueueMoves DEF freeVars, Users, InUse
<1>5. CASE TakeFromRecy
  BY <1>5, TakeFromRecyMoves DEF freeVars
<1>6. CASE ngx_free_connection
  <2>1. 0 \notin Created /\ Free \subseteq Created /\ Recy \subseteq Created
    BY PlaceTypes
  <2>2. 0 \notin listening
    BY SizesAssumption
  <2> QED BY <1>6, <2>1, <2>2, FreeRecycledMoves
<1>7. ASSUME NEW x \in Closers, Others(x) PROVE OnePlace'
  BY <1>7, OthersStay DEF freeVars, recyVars
<1> QED BY <1>1, <1>2, <1>3, <1>4, <1>5, <1>6, <1>7, AllSteps

\* No step takes a connection away from a thread that is closing it.
LEMMA ClosedStep ==
  TypeOK /\ OnePlace /\ ClosedInUse /\ AcceptedInUse /\ RoomLeft /\ [Next]_vars => ClosedInUse'
<1> SUFFICES ASSUME TypeOK, OnePlace, ClosedInUse, AcceptedInUse, RoomLeft, [Next]_vars
             PROVE ClosedInUse'
  OBVIOUS
<1>1. CASE ngx_get_connection /\ (GetFree \/ GetNew)
  <2>1. UNCHANGED closing /\ Users \subseteq Users' /\ Recy' = Recy
    BY <1>1, GetFreeMoves, GetNewMoves
  <2> QED BY <2>1 DEF ClosedInUse
<1>2. CASE FreeAccepted
  <2>1. accepting.pc = "free" /\ UNCHANGED closing
    BY <1>2 DEF FreeAccepted, Accepting
  <2>2. \A x \in Closers : closing[x].c # accepting.c
    BY <2>1 DEF AcceptedInUse
  <2> QED BY <1>2, <2>1, <2>2, FreeAcceptedMoves DEF ClosedInUse
<1>3. ASSUME NEW x \in Closers, inRecyConnectQueue(x), ~IsQueued(closing[x].c)
      PROVE ClosedInUse'
  <2>1. closing' = [closing EXCEPT ![x] = IdleClose] /\ closing \in [Closers -> CloseStates]
    BY <1>3 DEF inRecyConnectQueue, TypeOK
  <2>2. Users' \cup Recy' = Users \cup Recy
    BY <1>3, QueueMoves
  <2> QED BY <2>1, <2>2 DEF ClosedInUse, IdleClose
<1>4. CASE TakeFromRecy
  <2>1. UNCHANGED closing
    BY <1>4 DEF TakeFromRecy
  <2> QED BY <1>4, <2>1, TakeFromRecyMoves DEF ClosedInUse
<1>5. CASE ngx_free_connection
  <2>1. UNCHANGED closing
    BY <1>5 DEF ngx_free_connection
  <2> QED BY <1>5, <2>1, FreeRecycledMoves DEF ClosedInUse
<1>6. ASSUME NEW x \in Closers, Others(x) PROVE ClosedInUse'
  <2>1. UNCHANGED <<Users, Recy>>
    BY <1>6, OthersStay
  <2>2. \/ UNCHANGED closing
        \/ \E c \in Users \cup Recy : closing' = [closing EXCEPT ![x] = [pc |-> "test", c |-> c]]
        \/ /\ closing[x].pc # "idle"
           /\ \E pc \in {"recy", "close", "reset"} : closing' = [closing EXCEPT ![x].pc = pc]
        \/ closing' = [closing EXCEPT ![x] = IdleClose]
    BY <1>6
    DEF Others, AcceptSocket, LeaveSocket, RefuseSocket, AdmitSocket, AddToEpoll, CountUser,
        CloseAccepted, StartClose, MayClose, TestFd, CloseFd, ResetFd, inRecyConnectQueue, vars
  <2>3. closing \in [Closers -> CloseStates]
    BY DEF TypeOK
  <2> QED BY <2>1, <2>2, <2>3 DEF ClosedInUse, IdleClose, CloseStates
<1> QED BY <1>1, <1>2, <1>3, <1>4, <1>5, <1>6, AllSteps

\* No step gives the connection that is being accepted to anybody else.
LEMMA AcceptedStep ==
  TypeOK /\ OnePlace /\ ClosedInUse /\ AcceptedInUse /\ RoomLeft /\ [Next]_vars => AcceptedInUse'
<1> SUFFICES ASSUME TypeOK, OnePlace, ClosedInUse, AcceptedInUse, RoomLeft, [Next]_vars
             PROVE AcceptedInUse'
  OBVIOUS
<1>t. /\ accepting \in AcceptStates /\ closing \in [Closers -> CloseStates]
      /\ 0 \notin Users \cup Recy
  BY PlaceTypes DEF TypeOK
<1>1. ASSUME ngx_get_connection, NEW c, c \notin Users \cup Recy, c # 0, Users' = Users \cup {c},
             accepting' = [accepting EXCEPT !.pc = "add", !.c = c]
      PROVE  AcceptedInUse'
  <2>1. \A x \in Closers : closing[x].c # c
    BY <1>1 DEF ClosedInUse
  <2>2. UNCHANGED closing /\ accepting'.pc = "add" /\ accepting'.c = c
    BY <1>1, <1>t DEF ngx_get_connection, AcceptStates
  <2> QED BY <1>1, <2>1, <2>2 DEF AcceptedInUse
<1>2. CASE ngx_get_connection /\ GetFree
  <2> DEFINE c == Head(m_freeconnectionList)
  <2>1. c \notin Users \cup Recy /\ c # 0 /\ Users' = Users \cup {c}
    BY <1>2, GetFreeMoves, PlaceTypes DEF OnePlace
  <2> QED BY <1>1, <1>2, <2>1 DEF GetFree
<1>3. CASE ngx_get_connection /\ GetNew
  <2> DEFINE c == Len(m_connectionList) + 1
  <2>1. c \notin Users \cup Recy /\ c # 0 /\ Users' = Users \cup {c}
    BY <1>3, GetNewMoves, PlaceTypes
  <2> QED BY <1>1, <1>3, <2>1 DEF GetNew
<1>4. CASE FreeAccepted
  BY <1>4, <1>t DEF FreeAccepted, AcceptedInUse, AcceptStates
<1>5. ASSUME NEW x \in Closers, inRecyConnectQueue(x), ~IsQueued(closing[x].c)
      PROVE AcceptedInUse'
  <2>1. UNCHANGED accepting /\ closing' = [closing EXCEPT ![x] = IdleClose]
    BY <1>5 DEF inRecyConnectQueue
  <2>2. Users' = Users \ {closing[x].c} /\ Users' \cup Recy' = Users \cup Recy
    BY <1>5, QueueMoves
  <2> QED BY <1>t, <2>1, <2>2 DEF AcceptedInUse, IdleClose
<1>6. CASE TakeFromRecy
  <2>1. UNCHANGED <<accepting, closing>>
    BY <1>6 DEF TakeFromRecy
  <2> QED BY <1>6, <2>1, TakeFromRecyMoves DEF AcceptedInUse
<1>7. CASE ngx_free_connection
  <2>1. UNCHANGED <<accepting, closing>>
    BY <1>7 DEF ngx_free_connection
  <2> QED BY <1>7, <2>1, FreeRecycledMoves DEF AcceptedInUse
<1>8. ASSUME NEW x \in Closers, Others(x) PROVE AcceptedInUse'
  <2>1. UNCHANGED <<Users, Recy>>
    BY <1>8, OthersStay
  <2>2. CASE UNCHANGED accepting
    <3>1. \/ UNCHANGED closing
          \/ \E c \in Created : /\ accepting.c = c => accepting.pc = "count"
                               /\ closing' = [closing EXCEPT ![x] = [pc |-> "test", c |-> c]]
          \/ \E pc \in {"recy", "close", "reset"} : closing' = [closing EXCEPT ![x].pc = pc]
          \/ closing' = [closing EXCEPT ![x] = IdleClose]
      BY <1>8, <2>2
      DEF Others, AcceptSocket, LeaveSocket, RefuseSocket, AdmitSocket, AddToEpoll, CountUser,
          CloseAccepted, StartClose, MayClose, TestFd, CloseFd, ResetFd, inRecyConnectQueue,
          Accepting, vars
    <3> QED BY <1>t, <2>1, <2>2, <3>1 DEF AcceptedInUse, IdleClose, CloseStates
  <2>3. CASE ~UNCHANGED accepting
    <3>1. UNCHANGED closing
      BY <1>8, <2>3
      DEF Others, AcceptSocket, LeaveSocket, RefuseSocket, AdmitSocket, AddToEpoll, CountUser,
          CloseAccepted, StartClose, TestFd, CloseFd, ResetFd, inRecyConnectQueue, vars
    <3>2. \/ accepting'.pc \in {"idle", "limit", "get", "crashed"}
          \/ accepting.pc = "add" /\ accepting'.c = accepting.c
             /\ accepting'.pc \in {"count", "free"}
      <4>1. CASE AddToEpoll
        BY <1>t, <4>1 DEF AddToEpoll, Accepting, AcceptStates
      <4>2. CASE LeaveSocket \/ RefuseSocket \/ AdmitSocket \/ CountUser \/ CloseAccepted
        BY <1>t, <4>2
        DEF LeaveSocket, RefuseSocket, AdmitSocket, CountUser, CloseAccepted, IdleAccept,
            AcceptStates
      <4>3. CASE \E s \in Socket : AcceptSocket(s)
        BY <1>t, <4>3 DEF AcceptSocket, AcceptStates
      <4> QED
        BY <1>8, <2>3, <4>1, <4>2, <4>3
        DEF Others, StartClose, TestFd, CloseFd, ResetFd, inRecyConnectQueue, vars
    <3> QED BY <2>1, <3>1, <3>2 DEF AcceptedInUse
  <2> QED BY <2>2, <2>3
<1> QED BY <1>2, <1>3, <1>4, <1>5, <1>6, <1>7, <1>8, AllSteps

\* Every step changes the counters with the lists.
LEMMA CountStep ==
  TypeOK /\ OnePlace /\ ClosedInUse /\ AcceptedInUse /\ CountersAgree /\ RoomLeft /\ [Next]_vars
    => CountersAgree'
<1> SUFFICES ASSUME TypeOK, OnePlace, ClosedInUse, AcceptedInUse, CountersAgree, RoomLeft,
                    [Next]_vars
             PROVE CountersAgree'
  OBVIOUS
<1> DEFINE uncounted == IF accepting.pc \in {"add", "count", "free"} THEN 1 ELSE 0
<1>t. /\ accepting \in AcceptStates
      /\ Len(m_freeconnectionList) \in Nat /\ Len(m_recyconnectionList) \in Nat
      /\ Len(m_connectionList) \in Nat /\ Cardinality(Users) \in Nat
      /\ uncounted \in {0, 1}
  BY PlaceTypes, CountUsers DEF TypeOK
<1>c. /\ m_free_connection_n = Len(m_freeconnectionList)
      /\ m_total_connection_n = Len(m_connectionList)
      /\ m_totol_recyconnection_n = Len(m_recyconnectionList)
      /\ m_onlineUserCount = Cardinality(Users) - uncounted
  BY DEF CountersAgree
<1>d. ASSUME m_free_connection_n' = Len(m_freeconnectionList'),
             m_total_connection_n' = Len(m_connectionList'),
             m_totol_recyconnection_n' = Len(m_recyconnectionList'),
             m_onlineUserCount' = Cardinality(Users') - uncounted'
      PROVE CountersAgree'
  BY <1>d DEF CountersAgree
<1>1. CASE ngx_get_connection /\ (GetFree \/ GetNew)
  <2>1. \E c : c \notin Users /\ Users' = Users \cup {c}
    BY <1>1, GetFreeMoves, GetNewMoves
  <2>2. Cardinality(Users') = Cardinality(Users) + 1
    BY <2>1, CountUsers
  <2>3. uncounted = 0 /\ uncounted' = 1
    BY <1>1, <1>t DEF ngx_get_connection, GetFree, GetNew, Accepting, AcceptStates
  <2>4. m_onlineUserCount' = m_onlineUserCount /\ UNCHANGED recyVars
    BY <1>1, GetFreeMoves, GetNewMoves
  <2>5. CASE GetFree
    BY <1>1, <1>c, <1>d, <1>t, <2>2, <2>3, <2>4, <2>5, GetFreeMoves DEF GetFree, recyVars
  <2>6. CASE GetNew
    BY <1>1, <1>c, <1>d, <1>t, <2>2, <2>3, <2>4, <2>6, GetNewMoves DEF GetNew, recyVars, freeVars
  <2> QED BY <1>1, <2>5, <2>6
<1>2. CASE FreeAccepted
  <2>1. Cardinality(Users') = Cardinality(Users) - 1
    BY <1>2, FreeAcceptedMoves, CountUsers
  <2>2. uncounted = 1 /\ uncounted' = 0
    BY <1>2, <1>t DEF FreeAccepted, Accepting, AcceptStates
  <2> QED
    BY <1>2, <1>c, <1>d, <1>t, <2>1, <2>2, FreeAcceptedMoves DEF FreeAccepted, recyVars, listVars
<1>3. ASSUME NEW x \in Closers, inRecyConnectQueue(x), ~IsQueued(closing[x].c)
      PROVE CountersAgree'
  <2>1. Cardinality(Users') = Cardinality(Users) - 1
    BY <1>3, QueueMoves, CountUsers
  <2>2. uncounted' = uncounted /\ UNCHANGED listVars
    BY <1>3 DEF inRecyConnectQueue
  <2> QED BY <1>3, <1>c, <1>d, <1>t, <2>1, <2>2, QueueMoves DEF freeVars, listVars
<1>4. CASE TakeFromRecy
  <2>1. uncounted' = uncounted
    BY <1>4 DEF TakeFromRecy
  <2> QED
    BY <1>4, <1>c, <1>d, <1>t, <2>1, TakeFromRecyMoves DEF TakeFromRecy, freeVars, listVars
<1>5. CASE ngx_free_connection
  <2>1. uncounted' = uncounted
    BY <1>5 DEF ngx_free_connection
  <2> QED
    BY <1>5, <1>c, <1>d, <1>t, <2>1, FreeRecycledMoves DEF ngx_free_connection, listVars
<1>6. ASSUME NEW x \in Closers, Others(x) PROVE CountersAgree'
  <2>1. /\ UNCHANGED <<Users, m_free_connection_n, m_freeconnectionList, m_total_connection_n,
                       m_totol_recyconnection_n, m_recyconnectionList>>
        /\ Len(m_connectionList') = Len(m_connectionList)
    BY <1>6, OthersStay DEF freeVars, recyVars
  <2>2. m_onlineUserCount' = m_onlineUserCount + uncounted - uncounted'
    <3>0. m_onlineUserCount \in Int
      BY DEF TypeOK
    <3>1. CASE UNCHANGED <<accepting, m_onlineUserCount>>
      BY <1>t, <3>0, <3>1
    <3>2. CASE LeaveSocket \/ RefuseSocket \/ AdmitSocket \/ AddToEpoll \/ CloseAccepted
      BY <1>t, <3>0, <3>2
      DEF LeaveSocket, RefuseSocket, AdmitSocket, AddToEpoll, CloseAccepted, IdleAccept,
          Accepting, AcceptStates
    <3>3. CASE \E s \in Socket : AcceptSocket(s)
      BY <1>t, <3>0, <3>3 DEF AcceptSocket, Accepting, AcceptStates
    <3>4. CASE CountUser
      BY <1>t, <3>0, <3>4 DEF CountUser, Accepting, IdleAccept
    <3> QED
      BY <1>6, <3>1, <3>2, <3>3, <3>4
      DEF Others, StartClose, TestFd, CloseFd, ResetFd, inRecyConnectQueue, IsQueued, vars
  <2> QED BY <1>c, <1>d, <1>t, <2>1, <2>2
<1> QED BY <1>1, <1>2, <1>3, <1>4, <1>5, <1>6, AllSteps

\* No step passes the limits that ngx_event_accept tested.
LEMMA RoomStep ==
  TypeOK /\ OnePlace /\ ClosedInUse /\ AcceptedInUse /\ RoomLeft /\ [Next]_vars => RoomLeft'
<1> SUFFICES ASSUME TypeOK, OnePlace, ClosedInUse, AcceptedInUse, RoomLeft, [Next]_vars
             PROVE RoomLeft'
  OBVIOUS
<1> DEFINE most == PoolFactor * m_worker_connections
<1>t. /\ accepting \in AcceptStates /\ m_onlineUserCount \in Int
      /\ Len(m_freeconnectionList) \in Nat /\ Len(m_connectionList) \in Nat
      /\ most \in Nat /\ m_worker_connections \in Nat \ {0}
      /\ m_worker_connections * PoolFactor = most
  BY PlaceTypes, SizesAssumption DEF TypeOK
<1> HIDE DEF most
<1>r. /\ m_worker_connections <= Len(m_connectionList)
      /\ m_onlineUserCount <= m_worker_connections
      /\ accepting.pc \in {"get", "add", "count", "free"} =>
           m_onlineUserCount < m_worker_connections
      /\ Len(m_connectionList) <= most + 1
      /\ accepting.pc = "get" =>
           \/ Len(m_connectionList) <= most
           \/ Len(m_freeconnectionList) >= m_worker_connections
  BY DEF RoomLeft, most
<1>d. ASSUME m_worker_connections <= Len(m_connectionList'),
             m_onlineUserCount' <= m_worker_connections,
             accepting'.pc \in {"get", "add", "count", "free"} =>
               m_onlineUserCount' < m_worker_connections,
             Len(m_connectionList') <= most + 1,
             accepting'.pc = "get" =>
               \/ Len(m_connectionList') <= most
               \/ Len(m_freeconnectionList') >= m_worker_connections
      PROVE RoomLeft'
  BY <1>d DEF RoomLeft, most
<1>1. CASE ngx_get_connection /\ (GetFree \/ GetNew)
  <2>1. accepting.pc = "get" /\ accepting'.pc = "add" /\ UNCHANGED m_onlineUserCount
    BY <1>1, <1>t DEF ngx_get_connection, GetFree, GetNew, Accepting, AcceptStates
  <2>2. CASE GetFree
    BY <1>1, <1>d, <1>r, <1>t, <2>1, <2>2, GetFreeMoves
  <2>3. CASE GetNew
    <3>1. Len(m_freeconnectionList) = 0
      BY <2>3 DEF GetNew
    <3>2. Len(m_connectionList') = Len(m_connectionList) + 1
      BY <1>1, <2>3, GetNewMoves
    <3> QED BY <1>d, <1>r, <1>t, <2>1, <3>1, <3>2
  <2> QED BY <1>1, <2>2, <2>3
<1>2. CASE FreeAccepted
  <2>1. accepting'.pc = "close" /\ UNCHANGED <<m_onlineUserCount, m_connectionList>>
    BY <1>2, <1>t DEF FreeAccepted, listVars, AcceptStates
  <2> QED BY <1>d, <1>r, <1>t, <2>1
<1>3. ASSUME NEW x \in Closers, inRecyConnectQueue(x), ~IsQueued(closing[x].c) PROVE RoomLeft'
  <2>1. UNCHANGED <<accepting, m_connectionList, m_freeconnectionList>>
        /\ m_onlineUserCount' = m_onlineUserCount - 1
    BY <1>3 DEF inRecyConnectQueue, Queue, listVars, freeVars
  <2> QED BY <1>d, <1>r, <1>t, <2>1
<1>4. CASE TakeFromRecy
  BY <1>4, <1>d, <1>r, <1>t DEF TakeFromRecy, freeVars, listVars
<1>5. CASE ngx_free_connection
  <2>1. UNCHANGED <<accepting, m_connectionList, m_onlineUserCount>>
        /\ Len(m_freeconnectionList') = Len(m_freeconnectionList) + 1
    BY <1>5, FreeRecycledMoves DEF ngx_free_connection, listVars
  <2> QED BY <1>d, <1>r, <1>t, <2>1
<1>6. ASSUME NEW x \in Closers, Others(x) PROVE RoomLeft'
  <2>1. Len(m_connectionList') = Len(m_connectionList) /\ UNCHANGED m_freeconnectionList
    BY <1>6, OthersStay DEF freeVars
  <2>2. CASE UNCHANGED <<accepting, m_onlineUserCount>>
    BY <1>d, <1>r, <1>t, <2>1, <2>2
  <2>3. CASE LeaveSocket \/ RefuseSocket \/ CloseAccepted \/ \E s \in Socket : AcceptSocket(s)
    <3>1. accepting'.pc \in {"idle", "limit", "crashed"} /\ UNCHANGED m_onlineUserCount
      <4>1. CASE LeaveSocket \/ CloseAccepted
        BY <4>1 DEF LeaveSocket, CloseAccepted, IdleAccept
      <4>2. CASE RefuseSocket
        BY <1>t, <4>2 DEF RefuseSocket, AcceptStates
      <4>3. CASE \E s \in Socket : AcceptSocket(s)
        BY <1>t, <4>3 DEF AcceptSocket, AcceptStates
      <4> QED BY <2>3, <4>1, <4>2, <4>3
    <3> QED BY <1>d, <1>r, <1>t, <2>1, <3>1
  <2>4. CASE AdmitSocket
    <3>1. accepting'.pc = "get" /\ UNCHANGED m_onlineUserCount
          /\ m_onlineUserCount < m_worker_connections /\ ~PoolExhausted
      BY <1>t, <2>4 DEF AdmitSocket, AcceptStates
    <3> QED BY <1>d, <1>r, <1>t, <2>1, <3>1 DEF PoolExhausted
  <2>5. CASE AddToEpoll
    <3>1. accepting.pc = "add" /\ accepting'.pc \in {"count", "free"}
          /\ UNCHANGED m_onlineUserCount
      BY <1>t, <2>5 DEF AddToEpoll, Accepting, AcceptStates
    <3> QED BY <1>d, <1>r, <1>t, <2>1, <3>1
  <2>6. CASE CountUser
    <3>1. accepting.pc = "count" /\ accepting'.pc = "idle"
          /\ m_onlineUserCount' = m_onlineUserCount + 1
      BY <1>t, <2>6 DEF CountUser, Accepting, IdleAccept
    <3> QED BY <1>d, <1>r, <1>t, <2>1, <3>1
  <2> QED
    BY <1>6, <2>2, <2>3, <2>4, <2>5, <2>6
    DEF Others, StartClose, TestFd, CloseFd, ResetFd, inRecyConnectQueue, IsQueued, vars
<1> QED BY <1>1, <1>2, <1>3, <1>4, <1>5, <1>6, AllSteps

(* The invariant *)

\* The free list of initconnection, without the connections that listen.
LEMMA InitIInv == Init => IInv
<1> SUFFICES ASSUME Init PROVE IInv
  OBVIOUS
<1> DEFINE k == m_ListenPortCount
           n == m_worker_connections
<1>1. k \in Nat /\ n \in Nat \ {0} /\ k <= n /\ n - k \in Nat
  BY SizesAssumption
<1>2. /\ m_connectionList \in Seq(Socket \cup {NoSocket}) /\ Len(m_connectionList) = n
      /\ m_freeconnectionList \in Seq(1..n) /\ Len(m_freeconnectionList) = n - k
      /\ m_freeconnectionList = [i \in 1..(n - k) |-> k + i]
      /\ m_recyconnectionList = <<>>
  BY <1>1 DEF Init
<1>3. Created = 1..n
  BY <1>2 DEF Created
<1>4. IsInjective(m_freeconnectionList) /\ Free = (k + 1)..n
  <2>1. IsInjective(m_freeconnectionList)
    BY <1>1, <1>2 DEF IsInjective
  <2>2. \A c \in (k + 1)..n : c - k \in 1..(n - k) /\ m_freeconnectionList[c - k] = c
    BY <1>1, <1>2
  <2>3. Free = (k + 1)..n
    BY <1>1, <1>2, <2>2 DEF Free, ToSet
  <2> QED BY <2>1, <2>3
<1>5. Recy = {} /\ IsInjective(m_recyconnectionList)
  BY <1>2 DEF Recy, ToSet, IsInjective
<1>6. Users = {}
  BY <1>1, <1>3, <1>4 DEF Users, InUse, listening
<1>7. Cardinality(Users) = 0
  BY <1>6, FS_EmptySet
<1>8. /\ accepting = IdleAccept /\ accepting.pc = "idle" /\ accepting.c = 0
      /\ closing = [x \in Closers |-> IdleClose] /\ recycling = 0 /\ m_onlineUserCount = 0
  BY DEF Init, IdleAccept
<1>9. TypeOK
  BY <1>1, <1>2, <1>3, <1>8
  DEF Init, TypeOK, AcceptStates, CloseStates, IdleAccept, IdleClose
<1>10. OnePlace
  BY <1>1, <1>4, <1>5, <1>8 DEF OnePlace, listening
<1>11. ClosedInUse /\ AcceptedInUse
  BY <1>8 DEF ClosedInUse, AcceptedInUse, IdleClose
<1>12. CountersAgree
  <2>1. m_free_connection_n = n - k /\ m_total_connection_n = n /\ m_totol_recyconnection_n = 0
    BY DEF Init
  <2>2. Len(m_recyconnectionList) = 0
    BY <1>2
  <2> DEFINE uncounted == IF accepting.pc \in {"add", "count", "free"} THEN 1 ELSE 0
  <2>3. uncounted = 0
    BY <1>8
  <2>4. Len(m_freeconnectionList) = n - k /\ Len(m_connectionList) = n
    BY <1>2
  <2>5. m_onlineUserCount = 0
    BY <1>8
  <2> HIDE DEF k, n, uncounted
  <2>6. m_onlineUserCount = Cardinality(Users) - uncounted
    BY <1>7, <2>3, <2>5
  <2> QED BY <2>1, <2>2, <2>4, <2>6 DEF CountersAgree, uncounted
<1>13. RoomLeft
  <2>1. PoolFactor \in Nat \ {0}
    BY SizesAssumption
  <2>2. PoolFactor * n \in Nat /\ n <= PoolFactor * n
    BY <1>1, <2>1
  <2> DEFINE most == PoolFactor * n
  <2>3. n <= most + 1
    BY <1>1, <2>2
  <2>4. Len(m_connectionList) <= n /\ n <= Len(m_connectionList) /\ 0 <= n
    BY <1>1, <1>2
  <2>5. accepting.pc \notin {"get", "add", "count", "free"}
    BY <1>8
  <2> QED BY <1>2, <1>8, <2>3, <2>4, <2>5 DEF RoomLeft
<1> QED BY <1>9, <1>10, <1>11, <1>12, <1>13 DEF IInv

\* Every step of the reactor, the closing threads and the recycling thread keeps the
\* inductive invariant.
THEOREM Invariant == Spec => []IInv
<1>1. IInv /\ [Next]_vars => IInv'
  BY TypeStep, PlaceStep, ClosedStep, AcceptedStep, CountStep, RoomStep DEF IInv
<1> QED BY InitIInv, <1>1, PTL DEF Spec

\* Every object of ngx_get_connection, inRecyConnectQueue and
\* ServerRecyConnectionThread exists, and every step of a thread is one of the code's.
THEOREM TypeCorrect == Spec => []TypeOK
BY Invariant, PTL DEF IInv

\* A connection object is free, queued for recycling, between the two lists, listening
\* or in use, and only one of them, for any number of threads that close it at any time
\* (ngx_get_connection, inRecyConnectQueue, ServerRecyConnectionThread).
THEOREM ObjectsInOnePlace == Spec => []OnePlace
BY Invariant, PTL DEF IInv

\* The atomic counters that the threads change with and without a mutex are those
\* of the lists, and m_onlineUserCount that of the users.
THEOREM CountersRight == Spec => []CountersAgree
BY Invariant, PTL DEF IInv

\* The limits of ngx_event_accept hold for every number of connections: the count that
\* it tests and the users it stands for differ by the connection being accepted only.
THEOREM LimitsHold == Spec => []LimitsKept
<1>1. IInv => LimitsKept
  <2> SUFFICES ASSUME IInv PROVE LimitsKept
    OBVIOUS
  <2>1. Cardinality(Users) \in Nat
    BY CountUsers DEF IInv
  <2>2. m_onlineUserCount \in Int /\ m_worker_connections \in Nat
    BY SizesAssumption DEF IInv, TypeOK
  <2> QED BY <2>1, <2>2 DEF IInv, CountersAgree, RoomLeft, LimitsKept
<1> QED BY Invariant, <1>1, PTL
=============================================================================
