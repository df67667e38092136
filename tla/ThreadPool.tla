----------------------------- MODULE ThreadPool -----------------------------
(***************************************************************************)
(* CThreadPool (misc/ngx_c_threadpool.cpp): the pool of a worker process.  *)
(* The main thread of the worker creates the threads, waits for them, then *)
(* queues each received message and signals the condition variable; the    *)
(* pool threads take messages, handle and free them.  StopAll ends the     *)
(* pool and the destructor of the global pool object frees what is queued. *)
(*                                                                         *)
(* A step is what a thread does between two points where another thread    *)
(* can interfere.  m_shutdown and ifrunning are read and written without   *)
(* the mutex by the main thread, so the test of the wait loop and the call *)
(* of pthread_cond_wait are two steps.                                     *)
(***************************************************************************)
EXTENDS Integers, SequencesExt

CONSTANTS
  Thread,    \* the threads of the pool; Cardinality(Thread) is m_iThreadNum
  Msg,       \* the message buffers that may arrive
  NoThread,  \* "the mutex is free"
  NoMsg      \* "the thread has no message"

ASSUME ThreadsAssumption == IsFiniteSet(Thread) /\ Thread # {}
ASSUME NoThreadAssumption == NoThread \notin Thread
ASSUME NoMsgAssumption == NoMsg \notin Msg

VARIABLES
  m_pthreadMutex,         \* the pool thread that holds the mutex
  m_MsgRecvQueue,         \* the messages received and not taken
  m_iRecvMsgQueueCount,   \* the program's own count of them
  m_iRunningThreadNum,    \* the number of threads handling a message
  m_shutdown,             \* the pool is to stop
  ifrunning,              \* per thread: it has come to wait once
  jobbuf,                 \* per thread: the message it took
  buf,                    \* per message: what became of its memory
  pc,                     \* per thread: where ThreadFunc stands
  mainpc                  \* where the main thread stands

vars == <<m_pthreadMutex, m_MsgRecvQueue, m_iRecvMsgQueueCount,
          m_iRunningThreadNum, m_shutdown, ifrunning, jobbuf, buf, pc, mainpc>>

\* queueVars change only under the mutex; stopVars only in StopAll.
queueVars == <<m_MsgRecvQueue, m_iRecvMsgQueueCount>>

InQueue == ToSet(m_MsgRecvQueue)
Waiting == {t \in Thread : pc[t] = "waiting"}

Init ==
  /\ m_pthreadMutex = NoThread
  /\ m_MsgRecvQueue = <<>>
  /\ m_iRecvMsgQueueCount = 0
  /\ m_iRunningThreadNum = 0
  /\ m_shutdown = FALSE
  /\ ifrunning = [t \in Thread |-> FALSE]
  /\ jobbuf = [t \in Thread |-> NoMsg]
  /\ buf = [m \in Msg |-> "fresh"]
  /\ pc = [t \in Thread |-> "none"]
  /\ mainpc = "create"

-----------------------------------------------------------------------------
(* ThreadFunc *)

\* Takes the mutex, first or on return from pthread_cond_wait, and evaluates
\* the condition of the wait loop.
LockAndTest(t) ==
  /\ pc[t] = "lock"
  /\ m_pthreadMutex = NoThread
  /\ m_pthreadMutex' = t
  /\ \/ /\ m_MsgRecvQueue = <<>> /\ ~m_shutdown
        /\ ifrunning' = [ifrunning EXCEPT ![t] = TRUE]
        /\ pc' = [pc EXCEPT ![t] = "towait"]
     \/ /\ m_MsgRecvQueue # <<>> \/ m_shutdown
        /\ pc' = [pc EXCEPT ![t] = "decide"]
        /\ UNCHANGED ifrunning
  /\ UNCHANGED <<queueVars, m_iRunningThreadNum, m_shutdown, jobbuf, buf, mainpc>>

\* pthread_cond_wait releases the mutex and joins the waiters in one step.
Wait(t) ==
  /\ pc[t] = "towait"
  /\ m_pthreadMutex' = NoThread
  /\ pc' = [pc EXCEPT ![t] = "waiting"]
  /\ UNCHANGED <<queueVars, m_iRunningThreadNum, m_shutdown, ifrunning, jobbuf,
                 buf, mainpc>>

\* Variant: pthread_cond_wait stands in an if, and the queue is not looked at again.
WakeupWithoutTest(t) ==
  /\ pc[t] = "waiting"
  /\ m_pthreadMutex = NoThread
  /\ m_pthreadMutex' = t
  /\ pc' = [pc EXCEPT ![t] = "decide"]
  /\ UNCHANGED <<queueVars, m_iRunningThreadNum, m_shutdown, ifrunning, jobbuf, buf,
                 mainpc>>

\* pthread_cond_wait may return without a signal.
SpuriousWakeup(t) ==
  /\ pc[t] = "waiting"
  /\ pc' = [pc EXCEPT ![t] = "lock"]
  /\ UNCHANGED <<m_pthreadMutex, queueVars, m_iRunningThreadNum, m_shutdown,
                 ifrunning, jobbuf, buf, mainpc>>

Exit(t) ==
  /\ pc[t] = "decide"
  /\ m_shutdown
  /\ m_pthreadMutex' = NoThread
  /\ pc' = [pc EXCEPT ![t] = "exited"]
  /\ UNCHANGED <<queueVars, m_iRunningThreadNum, m_shutdown, ifrunning, jobbuf,
                 buf, mainpc>>

\* Variant: the message stays in the queue.
TakeJobAndLeaveIt(t) ==
  /\ pc[t] = "decide"
  /\ ~m_shutdown
  /\ jobbuf' = [jobbuf EXCEPT ![t] = Head(m_MsgRecvQueue)]
  /\ m_pthreadMutex' = NoThread
  /\ pc' = [pc EXCEPT ![t] = "begin"]
  /\ UNCHANGED <<queueVars, m_iRunningThreadNum, m_shutdown, ifrunning, buf, mainpc>>

\* Variant: the message that came last is taken.
TakeJobFromBack(t) ==
  /\ pc[t] = "decide"
  /\ ~m_shutdown
  /\ jobbuf' = [jobbuf EXCEPT ![t] = Last(m_MsgRecvQueue)]
  /\ m_MsgRecvQueue' = Front(m_MsgRecvQueue)
  /\ m_iRecvMsgQueueCount' = m_iRecvMsgQueueCount - 1
  /\ m_pthreadMutex' = NoThread
  /\ pc' = [pc EXCEPT ![t] = "begin"]
  /\ UNCHANGED <<m_iRunningThreadNum, m_shutdown, ifrunning, buf, mainpc>>

TakeJob(t) ==
  /\ pc[t] = "decide"
  /\ ~m_shutdown
  /\ jobbuf' = [jobbuf EXCEPT ![t] = Head(m_MsgRecvQueue)]
  /\ m_MsgRecvQueue' = Tail(m_MsgRecvQueue)
  /\ m_iRecvMsgQueueCount' = m_iRecvMsgQueueCount - 1
  /\ m_pthreadMutex' = NoThread
  /\ pc' = [pc EXCEPT ![t] = "begin"]
  /\ UNCHANGED <<m_iRunningThreadNum, m_shutdown, ifrunning, buf, mainpc>>

BeginWork(t) ==
  /\ pc[t] = "begin"
  /\ m_iRunningThreadNum' = m_iRunningThreadNum + 1
  /\ pc' = [pc EXCEPT ![t] = "work"]
  /\ UNCHANGED <<m_pthreadMutex, queueVars, m_shutdown, ifrunning, jobbuf, buf,
                 mainpc>>

\* threadRecvProcFunc runs and returns; then the message is freed.
Process(t) ==
  /\ pc[t] = "work"
  /\ buf' = [buf EXCEPT ![jobbuf[t]] = "handled"]
  /\ jobbuf' = [jobbuf EXCEPT ![t] = NoMsg]
  /\ pc' = [pc EXCEPT ![t] = "end"]
  /\ UNCHANGED <<m_pthreadMutex, queueVars, m_iRunningThreadNum, m_shutdown,
                 ifrunning, mainpc>>

EndWork(t) ==
  /\ pc[t] = "end"
  /\ m_iRunningThreadNum' = m_iRunningThreadNum - 1
  /\ pc' = [pc EXCEPT ![t] = "lock"]
  /\ UNCHANGED <<m_pthreadMutex, queueVars, m_shutdown, ifrunning, jobbuf, buf,
                 mainpc>>

-----------------------------------------------------------------------------
(* The main thread: Create, inMsgRecvQueueAndSignal, Call, StopAll and the *)
(* destructor                                                              *)

Spawn(t) ==
  /\ mainpc = "create"
  /\ pc[t] = "none"
  /\ pc' = [pc EXCEPT ![t] = "lock"]
  /\ mainpc' = IF \E u \in Thread \ {t} : pc[u] = "none"
               THEN "create" ELSE "await"
  /\ UNCHANGED <<m_pthreadMutex, queueVars, m_iRunningThreadNum, m_shutdown,
                 ifrunning, jobbuf, buf>>

\* pthread_create fails: Create returns false and its caller ends the process.
SpawnFails ==
  /\ mainpc = "create"
  /\ mainpc' = "failed"
  /\ UNCHANGED <<m_pthreadMutex, queueVars, m_iRunningThreadNum, m_shutdown,
                 ifrunning, jobbuf, buf, pc>>

\* Create polls ifrunning, which is never reset, and returns true.
CreateReturns ==
  /\ mainpc = "await"
  /\ \A t \in Thread : ifrunning[t]
  /\ mainpc' = "idle"
  /\ UNCHANGED <<m_pthreadMutex, queueVars, m_iRunningThreadNum, m_shutdown,
                 ifrunning, jobbuf, buf, pc>>

\* Variant: the reactor resets its pointer to the message before it queues it.
EnqueueNull(m) ==
  /\ mainpc = "idle"
  /\ buf[m] = "fresh"
  /\ m_pthreadMutex = NoThread
  /\ m_MsgRecvQueue' = Append(m_MsgRecvQueue, NoMsg)
  /\ m_iRecvMsgQueueCount' = m_iRecvMsgQueueCount + 1
  /\ mainpc' = "call"
  /\ UNCHANGED <<m_pthreadMutex, m_iRunningThreadNum, m_shutdown, ifrunning,
                 jobbuf, buf, pc>>

\* inMsgRecvQueueAndSignal up to the unlock.
Enqueue(m) ==
  /\ mainpc = "idle"
  /\ buf[m] = "fresh"
  /\ m_pthreadMutex = NoThread
  /\ buf' = [buf EXCEPT ![m] = "live"]
  /\ m_MsgRecvQueue' = Append(m_MsgRecvQueue, m)
  /\ m_iRecvMsgQueueCount' = m_iRecvMsgQueueCount + 1
  /\ mainpc' = "call"
  /\ UNCHANGED <<m_pthreadMutex, m_iRunningThreadNum, m_shutdown, ifrunning,
                 jobbuf, pc>>

\* Variant: a signal only for the first message in an empty queue.
CallForTheFirst ==
  /\ mainpc = "call"
  /\ IF Len(m_MsgRecvQueue) = 1 /\ Waiting # {}
     THEN \E t \in Waiting : pc' = [pc EXCEPT ![t] = "lock"]
     ELSE UNCHANGED pc
  /\ mainpc' = "idle"
  /\ UNCHANGED <<m_pthreadMutex, queueVars, m_iRunningThreadNum, m_shutdown,
                 ifrunning, jobbuf, buf>>

\* Variant: no signal.
CallNobody ==
  /\ mainpc = "call"
  /\ mainpc' = "idle"
  /\ UNCHANGED <<m_pthreadMutex, queueVars, m_iRunningThreadNum, m_shutdown,
                 ifrunning, jobbuf, buf, pc>>

\* pthread_cond_signal wakes one waiter if there is one.
Call ==
  /\ mainpc = "call"
  /\ \/ \E t \in Waiting : pc' = [pc EXCEPT ![t] = "lock"]
     \/ Waiting = {} /\ UNCHANGED pc
  /\ mainpc' = "idle"
  /\ UNCHANGED <<m_pthreadMutex, queueVars, m_iRunningThreadNum, m_shutdown,
                 ifrunning, jobbuf, buf>>

\* StopAll sets the flag without the mutex.
StopAll ==
  /\ mainpc = "idle"
  /\ m_shutdown' = TRUE
  /\ mainpc' = "broadcast"
  /\ UNCHANGED <<m_pthreadMutex, queueVars, m_iRunningThreadNum, ifrunning,
                 jobbuf, buf, pc>>

\* Variant: one thread is woken.
BroadcastToOne ==
  /\ mainpc = "broadcast"
  /\ \/ Waiting = {} /\ UNCHANGED pc
     \/ \E t \in Waiting : pc' = [pc EXCEPT ![t] = "lock"]
  /\ mainpc' = "join"
  /\ UNCHANGED <<m_pthreadMutex, queueVars, m_iRunningThreadNum, m_shutdown,
                 ifrunning, jobbuf, buf>>

Broadcast ==
  /\ mainpc = "broadcast"
  /\ pc' = [t \in Thread |-> IF t \in Waiting THEN "lock" ELSE pc[t]]
  /\ mainpc' = "join"
  /\ UNCHANGED <<m_pthreadMutex, queueVars, m_iRunningThreadNum, m_shutdown,
                 ifrunning, jobbuf, buf>>

\* pthread_join on every thread, then the mutex, the condition variable and
\* the thread items are destroyed.
JoinAll ==
  /\ mainpc = "join"
  /\ \A t \in Thread : pc[t] = "exited"
  /\ mainpc' = "stopped"
  /\ UNCHANGED <<m_pthreadMutex, queueVars, m_iRunningThreadNum, m_shutdown,
                 ifrunning, jobbuf, buf, pc>>

\* ~CThreadPool: clearMsgRecvQueue frees the messages; the count stays.
Destructor ==
  /\ mainpc \in {"stopped", "failed"}
  /\ buf' = [m \in Msg |-> IF m \in InQueue THEN "dropped" ELSE buf[m]]
  /\ m_MsgRecvQueue' = <<>>
  /\ mainpc' = "gone"
  /\ UNCHANGED <<m_pthreadMutex, m_iRecvMsgQueueCount, m_iRunningThreadNum,
                 m_shutdown, ifrunning, jobbuf, pc>>

-----------------------------------------------------------------------------
ThreadStep(t) ==
  \/ LockAndTest(t)
  \/ Wait(t)
  \/ Exit(t)
  \/ TakeJob(t)
  \/ BeginWork(t)
  \/ Process(t)
  \/ EndWork(t)

\* Once the process ends no thread of it runs.
ThreadFunc(t) == mainpc # "gone" /\ ThreadStep(t)

Spurious(t) == mainpc # "gone" /\ SpuriousWakeup(t)

Create == (\E t \in Thread : Spawn(t)) \/ SpawnFails \/ CreateReturns

inMsgRecvQueueAndSignal == (\E m \in Msg : Enqueue(m)) \/ Call

Stop == StopAll \/ Broadcast \/ JoinAll \/ Destructor

Gone == mainpc = "gone" /\ UNCHANGED vars

Next ==
  \/ \E t \in Thread : ThreadFunc(t) \/ Spurious(t)
  \/ Create
  \/ inMsgRecvQueueAndSignal
  \/ Stop
  \/ Gone

\* The scheduler runs every thread, a handler returns, and whoever asks for
\* the mutex again and again gets it.  Nobody owes the pool a message, a
\* wakeup without a signal, a failure or a call of StopAll.
Fairness ==
  /\ \A t \in Thread :
       /\ WF_vars(ThreadFunc(t))
       /\ SF_vars(mainpc # "gone" /\ LockAndTest(t))
       /\ WF_vars(Spawn(t))
  /\ WF_vars(CreateReturns)
  /\ WF_vars(Call)
  /\ WF_vars(Broadcast)
  /\ WF_vars(JoinAll)
  /\ WF_vars(Destructor)

Spec == Init /\ [][Next]_vars

FairSpec == Spec /\ Fairness

-----------------------------------------------------------------------------
(* Properties *)

TypeOK ==
  /\ m_pthreadMutex \in Thread \cup {NoThread}
  /\ m_MsgRecvQueue \in Seq(Msg)
  /\ m_iRecvMsgQueueCount \in Int
  /\ m_iRunningThreadNum \in Int
  /\ m_shutdown \in BOOLEAN
  /\ ifrunning \in [Thread -> BOOLEAN]
  /\ jobbuf \in [Thread -> Msg \cup {NoMsg}]
  /\ buf \in [Msg -> {"fresh", "live", "handled", "dropped"}]
  /\ pc \in [Thread -> {"none", "lock", "towait", "waiting", "decide", "begin",
                        "work", "end", "exited"}]
  /\ mainpc \in {"create", "await", "idle", "call", "broadcast", "join",
                 "stopped", "failed", "gone"}

\* A thread that leaves the wait loop without having been told to stop finds a
\* message: front() and pop_front() are never called on an empty list, however
\* wakeups, spurious ones included, and takers interleave.
PopsAMessage ==
  \A t \in Thread : pc[t] = "decide" /\ ~m_shutdown => m_MsgRecvQueue # <<>>

Busy == {t \in Thread : pc[t] \in {"begin", "work"}}
InService == {jobbuf[t] : t \in Busy}
Handled == {m \in Msg : buf[m] = "handled"}
Dropped == {m \in Msg : buf[m] = "dropped"}

\* Every message buffer has one owner, the queue or one thread, from the moment
\* it is queued until it is freed: none is handled twice, freed twice, used
\* after it is freed or lost, and the program's count agrees with the queue.
OneOwner ==
  /\ IsInjective(m_MsgRecvQueue)
  /\ \A t, u \in Busy : jobbuf[t] = jobbuf[u] => t = u
  /\ \A t \in Busy : jobbuf[t] \notin InQueue
  /\ InQueue \cup InService = {m \in Msg : buf[m] = "live"}
  /\ mainpc # "gone" => m_iRecvMsgQueueCount = Len(m_MsgRecvQueue)

\* Threads that will look at the queue before they wait again.
Coming == {t \in Thread : pc[t] \in {"lock", "decide"}}

\* The pool never leaves a thread asleep while there is a message for it: as
\* long as one thread waits, every queued message has a thread of its own on
\* its way to the queue, or the signal for it is still to be sent.  It would
\* fail if Call could be lost between the test of the queue and the wait.
NoSleepingOverWork ==
  Waiting # {} /\ mainpc # "gone" /\ ~m_shutdown =>
    Len(m_MsgRecvQueue) <= Cardinality(Coming) + (IF mainpc = "call" THEN 1 ELSE 0)

\* Call logs that all threads are busy and the pool is too small when the count
\* of running threads, which no mutex guards, equals their number.  It never
\* says so while a thread sleeps.
WarnsOnlyWhenNobodySleeps ==
  mainpc # "gone" /\ m_iRunningThreadNum = Cardinality(Thread) => Waiting = {}

\* The main thread comes back.  Create does: every thread gets as far as waiting
\* once even though the others keep taking the mutex.  And StopAll does, when every
\* thread of the pool has ended: unless it set m_shutdown, without the mutex, between
\* a thread's test and its wait.
MainComesBack ==
  /\ mainpc = "await" ~> mainpc = "idle"
  /\ (mainpc = "broadcast" /\ \A t \in Thread : pc[t] # "towait") ~> mainpc = "stopped"

\* The pool serves messages in the order in which they were queued, each once, and
\* every one that is queued unless the pool is told to stop.
Pool == INSTANCE JobQueue WITH
  Job <- Msg,
  Capacity <- Cardinality(Thread),
  waiting <- m_MsgRecvQueue,
  inService <- InService,
  done <- Handled,
  dropped <- Dropped,
  closed <- m_shutdown

ServesInOrder == Pool!Safe
ServesAll == Pool!Spec

-----------------------------------------------------------------------------
(* The inductive invariant that the proofs use. *)

Critical ==
  \A t \in Thread : m_pthreadMutex = t <=> pc[t] \in {"towait", "decide"}

WaitsOnEmptyQueue ==
  \A t \in Thread : pc[t] = "towait" => m_MsgRecvQueue = <<>>

NothingBeforeCreateReturns ==
  mainpc \in {"create", "await", "failed"} => m_MsgRecvQueue = <<>>

EndedWhenStopped == mainpc = "stopped" => \A t \in Thread : pc[t] = "exited"

BusyHasJob == \A t \in Busy : jobbuf[t] \in Msg

Counted == {t \in Thread : pc[t] \in {"work", "end"}}

RunningCounted == m_iRunningThreadNum = Cardinality(Counted)

Control ==
  /\ Critical
  /\ WaitsOnEmptyQueue
  /\ NothingBeforeCreateReturns
  /\ PopsAMessage
  /\ EndedWhenStopped
  /\ mainpc \in {"broadcast", "join", "stopped"} => m_shutdown

IInv ==
  /\ TypeOK
  /\ Control
  /\ BusyHasJob
  /\ OneOwner
  /\ NoSleepingOverWork
  /\ RunningCounted
=============================================================================
