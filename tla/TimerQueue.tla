----------------------------- MODULE TimerQueue -----------------------------
(***************************************************************************)
(* The timer queue of a worker (net/ngx_c_socket_time.cpp and              *)
(* procPingTimeOutChecking): an entry per user says when the monitor       *)
(* thread, which wakes up twice a second, next looks at the user.  It      *)
(* closes those that have sent no heartbeat for three rounds and ten       *)
(* seconds or, with Sock_TimeOutKick, everybody after one round.           *)
(* Meanwhile the reactor and the pool threads close connections too, pool  *)
(* threads handle heartbeats, and a closed connection gets another user.   *)
(*                                                                         *)
(* Time is in seconds.  The threads are taken to be scheduled within the   *)
(* second, and a closed connection to be recycled only when no thread is   *)
(* inside zdClosesocketProc with it (Sock_RecyConnectionWaitTime).         *)
(***************************************************************************)
EXTENDS Integers, SequencesExt

CONSTANTS
  Conn,               \* the connections that clients get
  NoConn,
  Others,             \* the threads that close, but for the monitor
  m_iWaitTime,        \* Sock_MaxWaitTime, which ReadConf makes 5 at least
  Grace,              \* 10
  TimeOutKicks,       \* the values that nginx.conf may give Sock_TimeOutKick
  MaxTime, MaxUses    \* bounds on the time and on the users of a connection

ASSUME WaitAssumption == m_iWaitTime \in Nat \ {0} /\ Grace \in Nat
ASSUME KickAssumption == TimeOutKicks \subseteq BOOLEAN
ASSUME BoundsAssumption == MaxTime \in Nat /\ MaxUses \in Nat
ASSUME NoConnAssumption == NoConn \notin Conn /\ "monitor" \notin Others

Threads == Others \cup {"monitor"}

VARIABLES
  m_ifTimeOutKick,  \* never changes
  now,              \* time(NULL)
  polled,           \* the monitor has looked at the queue this second
  m_timerQueuemap,  \* entries by time; equal ones in the order of their insertion
  m_cur_size_, m_timer_value_,
  monitor,          \* ServerTimerQueueMonitorThread: step, cur_time, m_lsIdleList
  phase,            \* Conn -> "free", "accepted", "online" or "closed"
  iCurrsequence,    \* Conn -> raised when it is taken, closed and freed
  lastPingTime,     \* Conn -> the last heartbeat
  closing,          \* Threads -> where zdClosesocketProc stands: step, connection
  admitted,         \* Conn -> when the user's wait began
  late              \* Conn -> the user was too late with a heartbeat before

vars == <<m_ifTimeOutKick, now, polled, m_timerQueuemap, m_cur_size_, m_timer_value_,
          monitor, phase, iCurrsequence, lastPingTime, closing, admitted, late>>

clockVars == <<now, polled>>
queueVars == <<m_timerQueuemap, m_cur_size_, m_timer_value_>>
connVars == <<phase, iCurrsequence, lastPingTime, admitted, late>>

MaxSilence == 3 * m_iWaitTime + Grace
Silent(c, t) == t - lastPingTime[c] > MaxSilence

Entry(t, c, n) == [time |-> t, conn |-> c, seq |-> n]
Asleep == [pc |-> "sleep", cur_time |-> 0, idle |-> <<>>]
NotClosing == [pc |-> "idle", conn |-> NoConn]

Init ==
  /\ m_ifTimeOutKick \in TimeOutKicks
  /\ now = 0
  /\ polled = FALSE
  /\ m_timerQueuemap = <<>>
  /\ m_cur_size_ = 0
  /\ m_timer_value_ = 0
  /\ monitor = Asleep
  /\ phase = [c \in Conn |-> "free"]
  /\ iCurrsequence = [c \in Conn |-> 0]
  /\ lastPingTime = [c \in Conn |-> 0]
  /\ closing = [x \in Threads |-> NotClosing]
  /\ admitted = [c \in Conn |-> 0]
  /\ late = [c \in Conn |-> FALSE]

-----------------------------------------------------------------------------
(* The queue, a multimap: each of its operations is called under the mutex. *)

\* The entries of q that are in S, in their order.
Kept(q, S) ==
  LET kept[i \in 0..Len(q)] ==
        IF i = 0 THEN <<>>
        ELSE IF q[i] \in S THEN Append(kept[i - 1], q[i]) ELSE kept[i - 1]
  IN  kept[Len(q)]

Until(q, t) == Kept(q, {e \in ToSet(q) : e.time <= t})
After(q, t) == Kept(q, {e \in ToSet(q) : e.time > t})
Without(q, c) == Kept(q, {e \in ToSet(q) : e.conn # c})

\* New entries, all of time t, go behind the others of that time.
Insert(q, t, new) == Until(q, t) \o (new \o After(q, t))

GetEarliestTime(q) == q[1].time

\* Variant: the time of the new entry is taken for the earliest.
AddAsEarliest(c) ==
  /\ m_timerQueuemap' = Insert(m_timerQueuemap, now + m_iWaitTime,
                                <<Entry(now + m_iWaitTime, c, iCurrsequence[c])>>)
  /\ m_cur_size_' = m_cur_size_ + 1
  /\ m_timer_value_' = now + m_iWaitTime

AddToTimerQueue(c) ==
  /\ m_timerQueuemap' = Insert(m_timerQueuemap, now + m_iWaitTime,
                                <<Entry(now + m_iWaitTime, c, iCurrsequence[c])>>)
  /\ m_cur_size_' = m_cur_size_ + 1
  /\ m_timer_value_' = GetEarliestTime(m_timerQueuemap')

\* Variant: there is no earliest time when the queue is empty.
DeleteAndUnset(c) ==
  LET kept == Without(m_timerQueuemap, c) IN
  /\ m_timerQueuemap' = kept
  /\ m_cur_size_' = m_cur_size_ - (Len(m_timerQueuemap) - Len(kept))
  /\ m_timer_value_' = IF m_cur_size_' > 0 THEN GetEarliestTime(kept) ELSE -1

\* The earliest time keeps its old value when the queue is empty.
DeleteFromTimerQueue(c) ==
  LET kept == Without(m_timerQueuemap, c) IN
  /\ m_timerQueuemap' = kept
  /\ m_cur_size_' = m_cur_size_ - (Len(m_timerQueuemap) - Len(kept))
  /\ m_timer_value_' = IF m_cur_size_' > 0 THEN GetEarliestTime(kept) ELSE m_timer_value_

\* Variant: the entries leave the queue for good.
QueuedAgainNever(q, due, t) == q

\* Without Sock_TimeOutKick the user is looked at again a round later.
QueuedAgain(q, due, t) ==
  IF m_ifTimeOutKick THEN q
  ELSE Insert(q, t + m_iWaitTime,
              [i \in DOMAIN due |-> Entry(t + m_iWaitTime, due[i].conn, due[i].seq)])

-----------------------------------------------------------------------------
(* The monitor thread *)

\* Twice a second or so; m_cur_size_ is read without the mutex.
ReadSize ==
  /\ monitor.pc = "sleep"
  /\ polled' = TRUE
  /\ monitor' = [monitor EXCEPT !.pc = IF m_cur_size_ > 0 THEN "value" ELSE "sleep"]
  /\ UNCHANGED <<m_ifTimeOutKick, now, queueVars, connVars, closing>>

\* m_timer_value_, too.
ReadTimerValue ==
  /\ monitor.pc = "value"
  /\ monitor' = IF m_timer_value_ < now
                THEN [monitor EXCEPT !.pc = "lock", !.cur_time = now]
                ELSE Asleep
  /\ UNCHANGED <<m_ifTimeOutKick, clockVars, queueVars, connVars, closing>>

\* GetOverTimeTimer until it returns NULL, under the mutex.  The earliest time is
\* updated after each entry, unless none is left.
GetOverTimeTimers ==
  LET t == monitor.cur_time
      due == Until(m_timerQueuemap, t)
      left == QueuedAgain(After(m_timerQueuemap, t), due, t)
  IN
  /\ monitor.pc = "lock"
  /\ m_timerQueuemap' = left
  /\ m_cur_size_' = m_cur_size_ - Len(m_timerQueuemap) + Len(left)
  /\ m_timer_value_' = IF due = <<>> THEN m_timer_value_
                       ELSE IF left # <<>> THEN GetEarliestTime(left)
                       ELSE Last(due).time
  /\ monitor' = [monitor EXCEPT !.pc = "check", !.idle = due]
  /\ UNCHANGED <<m_ifTimeOutKick, clockVars, connVars, closing>>

\* Variant: only the rounds count.
TooLateWithoutGrace(e) ==
  /\ e.seq = iCurrsequence[e.conn]
  /\ m_ifTimeOutKick \/ monitor.cur_time - lastPingTime[e.conn] > 3 * m_iWaitTime

\* The user of the entry is still there, and is to be closed.
TooLate(e) ==
  /\ e.seq = iCurrsequence[e.conn]
  /\ m_ifTimeOutKick \/ Silent(e.conn, monitor.cur_time)

procPingTimeOutChecking ==
  LET e == Head(monitor.idle) IN
  /\ monitor.pc = "check" /\ monitor.idle # <<>>
  /\ closing["monitor"].pc = "idle"
  /\ monitor' = [monitor EXCEPT !.idle = Tail(monitor.idle)]
  /\ closing' = IF TooLate(e)
                THEN [closing EXCEPT !["monitor"] = [pc |-> "delete", conn |-> e.conn]]
                ELSE closing
  /\ UNCHANGED <<m_ifTimeOutKick, clockVars, queueVars, connVars>>

GoToSleep ==
  /\ monitor.pc = "check" /\ monitor.idle = <<>>
  /\ closing["monitor"].pc = "idle"
  /\ monitor' = Asleep
  /\ UNCHANGED <<m_ifTimeOutKick, clockVars, queueVars, connVars, closing>>

ServerTimerQueueMonitorThread ==
  ReadSize \/ ReadTimerValue \/ GetOverTimeTimers \/ procPingTimeOutChecking \/ GoToSleep

-----------------------------------------------------------------------------
(* zdClosesocketProc, of any thread *)

StartClose(x, c) ==
  /\ closing[x].pc = "idle"
  /\ phase[c] = "online"
  /\ closing' = [closing EXCEPT ![x] = [pc |-> "delete", conn |-> c]]
  /\ UNCHANGED <<m_ifTimeOutKick, clockVars, queueVars, connVars, monitor>>

CloseDelete(x) ==
  /\ closing[x].pc = "delete"
  /\ DeleteFromTimerQueue(closing[x].conn)
  /\ closing' = [closing EXCEPT ![x].pc = "recy"]
  /\ UNCHANGED <<m_ifTimeOutKick, clockVars, connVars, monitor>>

\* inRecyConnectQueue does nothing for a connection that is queued already.
CloseRecy(x) ==
  LET c == closing[x].conn IN
  /\ closing[x].pc = "recy"
  /\ closing' = [closing EXCEPT ![x] = NotClosing]
  /\ \/ /\ phase[c] = "online"
        /\ phase' = [phase EXCEPT ![c] = "closed"]
        /\ iCurrsequence' = [iCurrsequence EXCEPT ![c] = @ + 1]
     \/ /\ phase[c] = "closed"
        /\ UNCHANGED <<phase, iCurrsequence>>
  /\ UNCHANGED <<m_ifTimeOutKick, clockVars, queueVars, lastPingTime, admitted,
                 late, monitor>>

-----------------------------------------------------------------------------
(* The other threads *)

\* ngx_get_connection, called by ngx_event_accept
GetOneToUse(c) ==
  /\ phase[c] = "free"
  /\ \A d \in Conn : phase[d] # "accepted"
  /\ iCurrsequence[c] < 3 * MaxUses
  /\ phase' = [phase EXCEPT ![c] = "accepted"]
  /\ iCurrsequence' = [iCurrsequence EXCEPT ![c] = @ + 1]
  /\ lastPingTime' = [lastPingTime EXCEPT ![c] = now]
  /\ late' = [late EXCEPT ![c] = FALSE]
  /\ admitted' = [admitted EXCEPT ![c] = now]
  /\ UNCHANGED <<m_ifTimeOutKick, clockVars, queueVars, monitor, closing>>

AcceptAdds(c) ==
  /\ phase[c] = "accepted"
  /\ AddToTimerQueue(c)
  /\ phase' = [phase EXCEPT ![c] = "online"]
  /\ UNCHANGED <<m_ifTimeOutKick, clockVars, iCurrsequence, lastPingTime, admitted,
                 late, monitor, closing>>

\* A heartbeat.  That of a user who is gone changes a time nobody reads.
_HandlePing(c) ==
  /\ phase[c] = "online"
  /\ lastPingTime' = [lastPingTime EXCEPT ![c] = now]
  /\ late' = [late EXCEPT ![c] = @ \/ Silent(c, now)]
  /\ UNCHANGED <<m_ifTimeOutKick, clockVars, queueVars, phase, iCurrsequence,
                 admitted, monitor, closing>>

\* The recycling thread calls PutOneToFree.
Recycle(c) ==
  /\ phase[c] = "closed"
  /\ \A x \in Threads : closing[x].conn # c
  /\ phase' = [phase EXCEPT ![c] = "free"]
  /\ iCurrsequence' = [iCurrsequence EXCEPT ![c] = @ + 1]
  /\ UNCHANGED <<m_ifTimeOutKick, clockVars, queueVars, lastPingTime, admitted,
                 late, monitor, closing>>

\* A second passes.  The monitor has looked at the queue and is done with it,
\* or waits, not for longer than a second, for the mutex.
Tick ==
  /\ now < MaxTime
  /\ polled
  /\ \/ monitor.pc = "sleep"
     \/ monitor.pc = "lock" /\ monitor.cur_time = now
  /\ \A c \in Conn : phase[c] # "accepted"
  /\ \A x \in Threads : closing[x].pc = "idle"
  /\ now' = now + 1
  /\ polled' = FALSE
  /\ UNCHANGED <<m_ifTimeOutKick, queueVars, connVars, monitor, closing>>

Next ==
  \/ ServerTimerQueueMonitorThread
  \/ \E x \in Others, c \in Conn : StartClose(x, c)
  \/ \E x \in Threads : CloseDelete(x) \/ CloseRecy(x)
  \/ \E c \in Conn : GetOneToUse(c) \/ AcceptAdds(c) \/ _HandlePing(c) \/ Recycle(c)
  \/ Tick

Spec == Init /\ [][Next]_vars

-----------------------------------------------------------------------------
(* Properties *)

EntryType == [time : Nat, conn : Conn, seq : Nat]

TypeOK ==
  /\ m_ifTimeOutKick \in BOOLEAN
  /\ now \in Nat
  /\ polled \in BOOLEAN
  /\ m_timerQueuemap \in Seq(EntryType)
  /\ m_cur_size_ \in Int
  /\ m_timer_value_ \in Nat
  /\ monitor \in [pc : {"sleep", "value", "lock", "check"},
                  cur_time : Nat, idle : Seq(EntryType)]
  /\ phase \in [Conn -> {"free", "accepted", "online", "closed"}]
  /\ iCurrsequence \in [Conn -> Nat]
  /\ lastPingTime \in [Conn -> Nat]
  /\ closing \in [Threads -> [pc : {"idle", "delete", "recy"}, conn : Conn \cup {NoConn}]]
  /\ admitted \in [Conn -> Nat]
  /\ late \in [Conn -> BOOLEAN]

BeingClosed(c) == \E x \in Threads : closing[x].conn = c

\* The entries of a user: in the queue, or, with Sock_TimeOutKick, with the monitor.
EntriesOf(c) ==
  {e \in ToSet(m_timerQueuemap) : e.conn = c} \cup
  (IF m_ifTimeOutKick
   THEN {e \in ToSet(monitor.idle) : e.conn = c /\ e.seq = iCurrsequence[c]} ELSE {})

\* A user is in the queue until a thread closes the connection, with an entry
\* of the present user; and a connection without a user is not, so that nobody
\* is forgotten by the monitor and no entry outlives its connection, although
\* the monitor takes entries out and puts them back while others delete them.
OneEntryPerUser ==
  \A c \in Conn :
    /\ phase[c] = "online" /\ ~BeingClosed(c) =>
         /\ Cardinality(EntriesOf(c)) = 1
         /\ \A e \in EntriesOf(c) : e.seq = iCurrsequence[c]
    /\ phase[c] # "online" => \A e \in ToSet(m_timerQueuemap) : e.conn # c

\* What the monitor reads without the mutex is what the queue holds: its size,
\* and when it is not empty the time of its earliest entry.
SizeAndHead ==
  /\ m_cur_size_ = Len(m_timerQueuemap)
  /\ m_timerQueuemap # <<>> =>
       \A e \in ToSet(m_timerQueuemap) : m_timer_value_ <= e.time
  /\ m_timerQueuemap # <<>> =>
       \E e \in ToSet(m_timerQueuemap) : m_timer_value_ = e.time

\* Both hold whatever the monitor, heartbeats and closing threads do to the queue.
QueueKept == OneEntryPerUser /\ SizeAndHead

\* The monitor closes nobody who sends heartbeats in time, nor with
\* Sock_TimeOutKick a user who has not had the whole wait, although the
\* connection may have got another user since its entry was taken.
NoEarlyKick ==
  LET c == closing["monitor"].conn IN
  closing["monitor"].pc = "delete" /\ phase[c] # "closed" =>
    IF m_ifTimeOutKick THEN now >= admitted[c] + m_iWaitTime
    ELSE late[c] \/ Silent(c, now)

\* Who is to be closed is closed: a user who stays silent no later than a round after
\* the time allowed for the heartbeat, with Sock_TimeOutKick everybody after the wait,
\* and two seconds that the monitor may need.
ClosedInTime ==
  \A c \in Conn : phase[c] = "online" =>
    /\ now - lastPingTime[c] <= MaxSilence + m_iWaitTime + 2
    /\ m_ifTimeOutKick => now <= admitted[c] + m_iWaitTime + 2

-----------------------------------------------------------------------------
(* The inductive invariant that the proofs use. *)

Queued == ToSet(m_timerQueuemap)
Idle == ToSet(monitor.idle)
Present(e) == e.seq = iCurrsequence[e.conn]
InTime(q) == \A i, j \in DOMAIN q : i < j => q[i].time <= q[j].time
OnePerConnection(q) == \A i, j \in DOMAIN q : q[i].conn = q[j].conn => i = j

\* The queue is in the order of time, with one entry for a connection, and its size and
\* its earliest time are in the two variables.
QueueInOrder ==
  /\ InTime(m_timerQueuemap)
  /\ OnePerConnection(m_timerQueuemap)
  /\ m_cur_size_ = Len(m_timerQueuemap)
  /\ m_timerQueuemap # <<>> => m_timer_value_ = m_timerQueuemap[1].time

\* A connection that is being closed is not used again, and has left the queue when
\* DeleteFromTimerQueue has returned.
ClosingKept ==
  \A x \in Threads :
    /\ closing[x].pc = "idle" <=> closing[x].conn = NoConn
    /\ \A c \in Conn : closing[x].conn = c =>
         /\ phase[c] \in {"online", "closed"}
         /\ closing[x].pc = "recy" => \A e \in Queued : e.conn # c

\* In the queue are entries of present users only, and each has one until it is closed.
\* What the monitor took out may be of users who have left, and with Sock_TimeOutKick
\* it is not in the queue as well.
EntriesKept ==
  /\ \A e \in Queued : Present(e) /\ phase[e.conn] = "online"
  /\ monitor.pc # "check" => monitor.idle = <<>>
  /\ OnePerConnection(monitor.idle)
  /\ \A e \in Idle :
       /\ e.seq <= iCurrsequence[e.conn]
       /\ Present(e) => phase[e.conn] = "online"
       /\ m_ifTimeOutKick /\ Present(e) => \A f \in Queued : f.conn # e.conn
  /\ \A c \in Conn : phase[c] = "online" /\ ~BeingClosed(c) =>
       \/ \E e \in Queued : e.conn = c
       \/ m_ifTimeOutKick /\ \E e \in Idle : e.conn = c /\ Present(e)

\* How far the monitor is behind the clock, at each of its steps.
MonitorInTime ==
  /\ monitor.pc = "value" => polled
  /\ monitor.pc = "lock" => monitor.cur_time = now \/ (~polled /\ monitor.cur_time + 1 = now)
  /\ monitor.pc = "check" => monitor.cur_time \in {now, now - 1}
  /\ \A e \in Queued :
       /\ e.time >= now - 2
       /\ monitor.pc # "lock" \/ monitor.cur_time = now => e.time >= now - 1
       /\ monitor.pc = "check" \/ (monitor.pc = "sleep" /\ polled) => e.time >= now

\* What the time of an entry says of its user.  Without Sock_TimeOutKick the monitor has
\* looked at the user a round before, or is about to, or closes it.
EntriesInTime ==
  /\ \A c \in Conn : admitted[c] <= lastPingTime[c] /\ lastPingTime[c] <= now
  /\ \A c \in Conn : phase[c] = "accepted" => lastPingTime[c] = now /\ admitted[c] = now
  /\ \A e \in Idle : e.time <= monitor.cur_time
  /\ m_ifTimeOutKick =>
       \A e \in Queued \cup Idle : Present(e) => e.time = admitted[e.conn] + m_iWaitTime
  /\ ~m_ifTimeOutKick => \A e \in Queued :
       \/ e.time - m_iWaitTime - lastPingTime[e.conn] <= MaxSilence
       \/ BeingClosed(e.conn)
       \/ /\ e.time = monitor.cur_time + m_iWaitTime
          /\ \E f \in Idle : f.conn = e.conn /\ Present(f)

IInv ==
  /\ TypeOK /\ QueueInOrder /\ ClosingKept /\ EntriesKept /\ MonitorInTime /\ EntriesInTime
  /\ NoEarlyKick /\ ClosedInTime
=============================================================================
