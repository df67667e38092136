-------------------------- MODULE ThreadPool_proofs --------------------------
(***************************************************************************)
(* Proofs about the thread pool, for every finite set of threads and every *)
(* set of messages.                                                        *)
(***************************************************************************)
EXTENDS ThreadPool, QueueFacts, FiniteSetTheorems, TLAPS

(* Typing and control *)

LEMMA TypeStep == TypeOK /\ PopsAMessage /\ [Next]_vars => TypeOK'
<1> SUFFICES ASSUME TypeOK, PopsAMessage, [Next]_vars PROVE TypeOK'
  OBVIOUS
<1> USE DEF TypeOK, queueVars
<1>1. ASSUME NEW t \in Thread, ThreadFunc(t) PROVE TypeOK'
  <2>1. CASE LockAndTest(t) BY <2>1 DEF LockAndTest
  <2>2. CASE Wait(t) BY <2>2 DEF Wait
  <2>3. CASE Exit(t) BY <2>3 DEF Exit
  <2>4. CASE TakeJob(t)
    <3>1. m_MsgRecvQueue # <<>>
      BY <2>4 DEF TakeJob, PopsAMessage
    <3>2. m_MsgRecvQueue' \in Seq(Msg) /\ Head(m_MsgRecvQueue) \in Msg
      BY <2>4, <3>1 DEF TakeJob
    <3> QED BY <2>4, <3>2 DEF TakeJob
  <2>5. CASE BeginWork(t) BY <2>5 DEF BeginWork
  <2>6. CASE Process(t) BY <2>6 DEF Process
  <2>7. CASE EndWork(t) BY <2>7 DEF EndWork
  <2> QED BY <1>1, <2>1, <2>2, <2>3, <2>4, <2>5, <2>6, <2>7
          DEF ThreadFunc, ThreadStep
<1>2. ASSUME NEW t \in Thread, Spurious(t) PROVE TypeOK'
  BY <1>2 DEF Spurious, SpuriousWakeup
<1>3. CASE Create
  BY <1>3 DEF Create, Spawn, SpawnFails, CreateReturns
<1>4. ASSUME NEW m \in Msg, Enqueue(m) PROVE TypeOK'
  BY <1>4 DEF Enqueue
<1>5. CASE Call
  BY <1>5 DEF Call, Waiting
<1>6. CASE StopAll
  <2>1. m_shutdown' \in BOOLEAN
    BY <1>6, Zenon DEF StopAll
  <2> QED BY <1>6, <2>1 DEF StopAll
<1>7. CASE Broadcast BY <1>7 DEF Broadcast, Waiting
<1>8. CASE JoinAll BY <1>8 DEF JoinAll
<1>9. CASE Destructor BY <1>9 DEF Destructor
<1>10. CASE UNCHANGED vars BY <1>10 DEF vars
<1> QED
  BY <1>1, <1>2, <1>3, <1>4, <1>5, <1>6, <1>7, <1>8, <1>9, <1>10
  DEF Next, inMsgRecvQueueAndSignal, Stop, Gone

\* No step breaks what mutex, queue and counters say about where the threads stand.
LEMMA ControlStep == TypeOK /\ Control /\ [Next]_vars => Control'
<1> SUFFICES ASSUME TypeOK, Control, [Next]_vars PROVE Control'
  OBVIOUS
<1> USE NoThreadAssumption DEF TypeOK, Control, queueVars, Critical,
        WaitsOnEmptyQueue, NothingBeforeCreateReturns, PopsAMessage,
        EndedWhenStopped
<1>1. ASSUME NEW t \in Thread, ThreadFunc(t) PROVE Control'
  <2>1. CASE LockAndTest(t) BY <2>1 DEF LockAndTest
  <2>2. CASE Wait(t) BY <2>2 DEF Wait
  <2>3. CASE Exit(t) BY <2>3 DEF Exit
  <2>4. CASE TakeJob(t) BY <2>4 DEF TakeJob
  <2>5. CASE BeginWork(t) BY <2>5 DEF BeginWork
  <2>6. CASE Process(t) BY <2>6 DEF Process
  <2>7. CASE EndWork(t) BY <2>7 DEF EndWork
  <2> QED BY <1>1, <2>1, <2>2, <2>3, <2>4, <2>5, <2>6, <2>7
          DEF ThreadFunc, ThreadStep
<1>2. ASSUME NEW t \in Thread, Spurious(t) PROVE Control'
  BY <1>2 DEF Spurious, SpuriousWakeup
<1>3. CASE Create
  BY <1>3 DEF Create, Spawn, SpawnFails, CreateReturns
<1>4. ASSUME NEW m \in Msg, Enqueue(m) PROVE Control'
  BY <1>4 DEF Enqueue
<1>5. CASE Call
  BY <1>5 DEF Call, Waiting
<1>6. CASE StopAll BY <1>6 DEF StopAll
<1>7. CASE Broadcast BY <1>7 DEF Broadcast, Waiting
<1>8. CASE JoinAll BY <1>8 DEF JoinAll
<1>9. CASE Destructor BY <1>9 DEF Destructor
<1>10. CASE UNCHANGED vars BY <1>10 DEF vars
<1> QED
  BY <1>1, <1>2, <1>3, <1>4, <1>5, <1>6, <1>7, <1>8, <1>9, <1>10
  DEF Next, inMsgRecvQueueAndSignal, Stop, Gone

(* Ownership of the message buffers *)

LEMMA OwnerStep ==
  TypeOK /\ Control /\ BusyHasJob /\ OneOwner /\ [Next]_vars
    => BusyHasJob' /\ OneOwner'
<1> SUFFICES ASSUME TypeOK, Control, BusyHasJob, OneOwner, [Next]_vars
             PROVE BusyHasJob' /\ OneOwner'
  OBVIOUS
<1> USE DEF TypeOK, queueVars, BusyHasJob, OneOwner, InQueue, Busy, InService
<1>1. ASSUME NEW t \in Thread, ThreadFunc(t) PROVE BusyHasJob' /\ OneOwner'
  <2>1. CASE LockAndTest(t) BY <2>1 DEF LockAndTest
  <2>2. CASE Wait(t) BY <2>2 DEF Wait
  <2>3. CASE Exit(t) BY <2>3 DEF Exit
  <2>4. CASE TakeJob(t)
    <3> DEFINE q == m_MsgRecvQueue
    <3> USE <2>4 DEF TakeJob
    <3>1. q # <<>>
      BY DEF PopsAMessage, Control
    <3>2. /\ q' = Tail(q) /\ Head(q) \in Msg
          /\ Len(q') = Len(q) - 1
          /\ IsInjective(q')
          /\ InQueue = InQueue' \cup {Head(q)}
          /\ Head(q) \notin InQueue'
      BY <3>1, TailFacts
    <3>3. jobbuf'[t] = Head(q) /\ \A u \in Busy : jobbuf'[u] = jobbuf[u] /\ u # t
      OBVIOUS
    <3>4. Busy' = Busy \cup {t}
      OBVIOUS
    <3> HIDE <2>4 DEF Busy, InQueue
    <3>5. BusyHasJob'
      BY <3>2, <3>3, <3>4
    <3>6. \A u, v \in Busy' : jobbuf'[u] = jobbuf'[v] => u = v
      BY <3>2, <3>3, <3>4
    <3>7. \A u \in Busy' : jobbuf'[u] \notin InQueue'
      BY <3>2, <3>3, <3>4
    <3>8. {jobbuf'[u] : u \in Busy'} = {jobbuf[u] : u \in Busy} \cup {Head(q)}
      BY <3>3, <3>4
    <3>9. InQueue' \cup {jobbuf'[u] : u \in Busy'} = {m \in Msg : buf'[m] = "live"}
      BY <2>4, <3>2, <3>8
    <3>10. mainpc' # "gone" => m_iRecvMsgQueueCount' = Len(q')
      BY <2>4, <3>2
    <3> QED BY <3>2, <3>5, <3>6, <3>7, <3>9, <3>10
  <2>5. CASE BeginWork(t) BY <2>5 DEF BeginWork
  <2>6. CASE Process(t)
    <3> USE <2>6 DEF Process
    <3>1. Busy' = Busy \ {t} /\ InQueue' = InQueue
      OBVIOUS
    <3>2. \A u \in Busy' : jobbuf'[u] = jobbuf[u]
      BY <3>1
    <3>3. jobbuf[t] \notin InQueue /\ jobbuf[t] \in Msg
      OBVIOUS
    <3>4. {jobbuf'[u] : u \in Busy'} = {jobbuf[u] : u \in Busy} \ {jobbuf[t]}
      BY <3>1, <3>2
    <3>5. {m \in Msg : buf'[m] = "live"} = {m \in Msg : buf[m] = "live"} \ {jobbuf[t]}
      BY <3>3
    <3>6. InQueue' \cup {jobbuf'[u] : u \in Busy'} = {m \in Msg : buf'[m] = "live"}
      BY <3>1, <3>3, <3>4, <3>5
    <3> QED BY <3>1, <3>2, <3>6
  <2>7. CASE EndWork(t) BY <2>7 DEF EndWork
  <2> QED BY <1>1, <2>1, <2>2, <2>3, <2>4, <2>5, <2>6, <2>7
          DEF ThreadFunc, ThreadStep
<1>2. ASSUME NEW t \in Thread, Spurious(t) PROVE BusyHasJob' /\ OneOwner'
  BY <1>2 DEF Spurious, SpuriousWakeup
<1>3. CASE Create
  BY <1>3 DEF Create, Spawn, SpawnFails, CreateReturns
<1>4. ASSUME NEW m \in Msg, Enqueue(m) PROVE BusyHasJob' /\ OneOwner'
  <2> DEFINE q == m_MsgRecvQueue
  <2> USE <1>4 DEF Enqueue
  <2>1. m \notin InQueue /\ \A u \in Busy : jobbuf[u] # m
    OBVIOUS
  <2>2. /\ Len(q') = Len(q) + 1
        /\ IsInjective(q')
        /\ InQueue' = InQueue \cup {m}
    BY <2>1, AppendFacts
  <2>3. {k \in Msg : buf'[k] = "live"} = {k \in Msg : buf[k] = "live"} \cup {m}
    OBVIOUS
  <2>4. InQueue' \cup {jobbuf'[u] : u \in Busy'} = {k \in Msg : buf'[k] = "live"}
    BY <2>2, <2>3
  <2>5. \A u \in Busy' : jobbuf'[u] \notin InQueue'
    BY <2>1, <2>2
  <2> QED BY <2>2, <2>4, <2>5
<1>5. CASE Call
  BY <1>5 DEF Call, Waiting
<1>6. CASE StopAll BY <1>6 DEF StopAll
<1>7. CASE Broadcast
  <2>1. Busy' = Busy
    BY <1>7 DEF Broadcast, Waiting
  <2>2. UNCHANGED <<m_MsgRecvQueue, m_iRecvMsgQueueCount, jobbuf, buf>> /\ mainpc' # "gone"
        /\ mainpc # "gone"
    BY <1>7 DEF Broadcast
  <2> HIDE DEF Busy
  <2> QED BY <2>1, <2>2
<1>8. CASE JoinAll BY <1>8 DEF JoinAll
<1>9. CASE Destructor
  <2> USE <1>9 DEF Destructor
  <2>1. InQueue' = {} /\ Len(m_MsgRecvQueue') = 0 /\ IsInjective(m_MsgRecvQueue')
    BY DEF ToSet, IsInjective
  <2>2. Busy' = Busy /\ {jobbuf'[u] : u \in Busy'} = {jobbuf[u] : u \in Busy}
    OBVIOUS
  <2>3. {m \in Msg : buf'[m] = "live"} = {m \in Msg : buf[m] = "live"} \ InQueue
    OBVIOUS
  <2>4. InQueue' \cup {jobbuf'[u] : u \in Busy'} = {m \in Msg : buf'[m] = "live"}
    BY <2>1, <2>2, <2>3
  <2> QED BY <2>1, <2>2, <2>4
<1>10. CASE UNCHANGED vars BY <1>10 DEF vars
<1> QED
  BY <1>1, <1>2, <1>3, <1>4, <1>5, <1>6, <1>7, <1>8, <1>9, <1>10
  DEF Next, inMsgRecvQueueAndSignal, Stop, Gone

(* Counting threads *)

LEMMA SetsOfThreads ==
  ASSUME NEW S \in SUBSET Thread
  PROVE  /\ IsFiniteSet(S) /\ Cardinality(S) \in Nat
         /\ \A t \in Thread \ S : Cardinality(S \cup {t}) = Cardinality(S) + 1
         /\ \A t \in S : Cardinality(S \ {t}) = Cardinality(S) - 1
<1>1. IsFiniteSet(S) /\ Cardinality(S) \in Nat
  BY ThreadsAssumption, FS_Subset, FS_CardinalityType
<1> QED BY <1>1, FS_AddElement, FS_RemoveElement

\* m_iRunningThreadNum changes with the threads that run.
LEMMA CountStep ==
  TypeOK /\ RunningCounted /\ [Next]_vars => RunningCounted'
<1> SUFFICES ASSUME TypeOK, RunningCounted, [Next]_vars PROVE RunningCounted'
  OBVIOUS
<1> USE DEF TypeOK, queueVars
<1>1. CASE UNCHANGED <<m_iRunningThreadNum, Counted>>
  BY <1>1 DEF RunningCounted
<1>2. Counted \in SUBSET Thread
  BY DEF Counted
<1>3. ASSUME NEW t \in Thread, ThreadFunc(t) PROVE RunningCounted'
  <2>1. CASE BeginWork(t)
    <3>1. Counted' = Counted \cup {t} /\ t \in Thread \ Counted
      BY <2>1 DEF BeginWork, Counted
    <3> QED BY <1>2, <2>1, <3>1, SetsOfThreads DEF BeginWork, RunningCounted
  <2>2. CASE EndWork(t)
    <3>1. Counted' = Counted \ {t} /\ t \in Counted
      BY <2>2 DEF EndWork, Counted
    <3> QED BY <1>2, <2>2, <3>1, SetsOfThreads DEF EndWork, RunningCounted
  <2>3. CASE LockAndTest(t) \/ Wait(t) \/ Exit(t) \/ TakeJob(t) \/ Process(t)
    <3>1. UNCHANGED <<m_iRunningThreadNum, Counted>>
      BY <2>3 DEF LockAndTest, Wait, Exit, TakeJob, Process, Counted
    <3> QED BY <1>1, <3>1
  <2> QED BY <1>3, <2>1, <2>2, <2>3 DEF ThreadFunc, ThreadStep
<1>4. ASSUME NEW t \in Thread, Spurious(t) \/ Spawn(t)
      PROVE  UNCHANGED <<m_iRunningThreadNum, Counted>>
  BY <1>4 DEF Spurious, SpuriousWakeup, Spawn, Counted
<1>5. CASE SpawnFails \/ CreateReturns \/ (\E m \in Msg : Enqueue(m))
           \/ StopAll \/ JoinAll \/ Destructor \/ UNCHANGED vars
  <2>1. UNCHANGED <<m_iRunningThreadNum, pc>>
    BY <1>5 DEF SpawnFails, CreateReturns, Enqueue, StopAll, JoinAll, Destructor, vars
  <2> QED BY <1>1, <2>1 DEF Counted
<1>6. CASE Call \/ Broadcast
  <2>1. UNCHANGED <<m_iRunningThreadNum, Counted>>
    BY <1>6 DEF Call, Broadcast, Counted, Waiting
  <2> QED BY <1>1, <2>1
<1> QED
  BY <1>1, <1>3, <1>4, <1>5, <1>6
  DEF Next, Create, inMsgRecvQueueAndSignal, Stop, Gone

\* No step leaves a message in the queue with every thread asleep.
LEMMA SleepStep ==
  TypeOK /\ Control /\ NoSleepingOverWork /\ [Next]_vars => NoSleepingOverWork'
<1> SUFFICES ASSUME TypeOK, Control, NoSleepingOverWork, [Next]_vars,
                    Waiting' # {}, mainpc' # "gone", ~m_shutdown'
             PROVE Len(m_MsgRecvQueue') <=
                     Cardinality(Coming') + (IF mainpc' = "call" THEN 1 ELSE 0)
  BY DEF NoSleepingOverWork
<1> DEFINE signal == IF mainpc = "call" THEN 1 ELSE 0
           q == m_MsgRecvQueue
           Goal == Len(q') <= Cardinality(Coming') + signal'
<1> USE DEF TypeOK, queueVars
<1>1. Coming \in SUBSET Thread /\ Coming' \in SUBSET Thread
  BY DEF Coming
<1>2. Cardinality(Coming) \in Nat /\ Cardinality(Coming') \in Nat
  BY <1>1, SetsOfThreads
<1>3. \A t \in Thread : /\ t \notin Coming =>
                             Cardinality(Coming \cup {t}) = Cardinality(Coming) + 1
                        /\ t \in Coming =>
                             Cardinality(Coming \ {t}) = Cardinality(Coming) - 1
  BY <1>1, SetsOfThreads
<1>4. q \in Seq(Msg) /\ Len(q) \in Nat
  OBVIOUS
<1>5. CASE UNCHANGED <<q, mainpc, m_shutdown, Waiting, Coming>>
  BY <1>5 DEF NoSleepingOverWork
<1>6. ASSUME NEW t \in Thread, ThreadFunc(t) PROVE Goal
  <2> USE DEF ThreadFunc
  <2>1. CASE LockAndTest(t)
    <3>1. CASE q = <<>>
      BY <1>2, <2>1, <3>1 DEF LockAndTest
    <3>2. CASE q # <<>>
      <4>1. UNCHANGED <<q, mainpc, m_shutdown, Waiting, Coming>>
        BY <2>1, <3>2 DEF LockAndTest, Waiting, Coming
      <4> QED BY <1>5, <4>1
    <3> QED BY <3>1, <3>2
  <2>2. CASE Wait(t)
    <3>1. q' = <<>>
      BY <2>2 DEF Wait, Control, WaitsOnEmptyQueue
    <3> QED BY <1>2, <3>1
  <2>3. CASE Exit(t)
    BY <2>3 DEF Exit
  <2>4. CASE TakeJob(t)
    <3>1. UNCHANGED <<mainpc, m_shutdown, Waiting>> /\ t \in Coming /\ Coming' = Coming \ {t}
      BY <2>4 DEF TakeJob, Waiting, Coming
    <3>2. q # <<>> /\ q' = Tail(q)
      BY <2>4 DEF TakeJob, Control, PopsAMessage
    <3>3. Len(q') = Len(q) - 1
      BY <1>4, <3>2
    <3> QED BY <1>2, <1>3, <1>4, <3>1, <3>3 DEF NoSleepingOverWork
  <2>5. CASE EndWork(t)
    <3>1. UNCHANGED <<q, mainpc, m_shutdown, Waiting>> /\ t \notin Coming /\ Coming' = Coming \cup {t}
      BY <2>5 DEF EndWork, Waiting, Coming
    <3> QED BY <1>2, <1>3, <1>4, <3>1 DEF NoSleepingOverWork
  <2>6. CASE BeginWork(t) \/ Process(t)
    <3>1. UNCHANGED <<q, mainpc, m_shutdown, Waiting, Coming>>
      BY <2>6 DEF BeginWork, Process, Waiting, Coming
    <3> QED BY <1>5, <3>1
  <2> QED BY <1>6, <2>1, <2>2, <2>3, <2>4, <2>5, <2>6 DEF ThreadStep
<1>7. ASSUME NEW t \in Thread, Spurious(t) \/ Spawn(t) PROVE Goal
  <2>1. UNCHANGED <<q, m_shutdown>> /\ signal = signal' /\ Waiting' \subseteq Waiting
        /\ mainpc # "gone" /\ t \notin Coming /\ Coming' = Coming \cup {t}
    BY <1>7 DEF Spurious, SpuriousWakeup, Spawn, Waiting, Coming
  <2> QED BY <1>2, <1>3, <1>4, <2>1 DEF NoSleepingOverWork
<1>8. CASE SpawnFails \/ CreateReturns \/ JoinAll
  <2>1. UNCHANGED <<q, m_shutdown, pc>> /\ signal = signal' /\ mainpc # "gone"
    BY <1>8 DEF SpawnFails, CreateReturns, JoinAll
  <2>2. Waiting' = Waiting /\ Coming' = Coming
    BY <2>1 DEF Waiting, Coming
  <2> QED BY <2>1, <2>2 DEF NoSleepingOverWork
<1>9. ASSUME NEW m \in Msg, Enqueue(m) PROVE Goal
  <2>1. UNCHANGED <<m_shutdown, Waiting, Coming>> /\ mainpc # "gone"
        /\ signal = 0 /\ signal' = 1
    BY <1>9 DEF Enqueue, Waiting, Coming
  <2>2. Len(q') = Len(q) + 1
    BY <1>9 DEF Enqueue
  <2> QED BY <1>2, <1>4, <2>1, <2>2 DEF NoSleepingOverWork
<1>10. CASE Call
  <2>1. UNCHANGED <<q, m_shutdown>> /\ signal = 1 /\ signal' = 0 /\ mainpc # "gone"
    BY <1>10 DEF Call
  <2>2. PICK t \in Waiting : pc' = [pc EXCEPT ![t] = "lock"]
    BY <1>10 DEF Call, Waiting
  <2>3. t \in Thread /\ t \notin Coming /\ Coming' = Coming \cup {t} /\ Waiting # {}
    BY <2>2 DEF Coming, Waiting
  <2>4. ~m_shutdown /\ Len(q) <= Cardinality(Coming) + 1
    BY <2>1, <2>3 DEF NoSleepingOverWork
  <2>5. Cardinality(Coming') = Cardinality(Coming) + 1
    BY <1>3, <2>3
  <2> HIDE DEF TypeOK, queueVars
  <2> QED BY <1>2, <1>4, <2>1, <2>4, <2>5
<1>11. CASE StopAll \/ Broadcast \/ Destructor
  BY <1>11 DEF StopAll, Broadcast, Destructor, Waiting
<1>12. CASE UNCHANGED vars
  <2>1. UNCHANGED <<q, mainpc, m_shutdown, Waiting, Coming>>
    BY <1>12 DEF vars, Waiting, Coming
  <2> QED BY <1>5, <2>1
<1> QED
  BY <1>6, <1>7, <1>8, <1>9, <1>10, <1>11, <1>12
  DEF Next, Create, inMsgRecvQueueAndSignal, Stop, Gone

(* The invariant and what follows from it *)

LEMMA InitIInv == Init => IInv
<1> SUFFICES ASSUME Init PROVE IInv
  OBVIOUS
<1> USE DEF Init
<1>1. TypeOK
  <2>1. m_shutdown \in BOOLEAN
    BY Zenon
  <2> QED BY <2>1 DEF TypeOK
<1>2. Control
  BY NoThreadAssumption
  DEF Control, Critical, WaitsOnEmptyQueue, NothingBeforeCreateReturns,
      PopsAMessage, EndedWhenStopped
<1>3. Busy = {} /\ Counted = {} /\ Waiting = {}
  BY DEF Busy, Counted, Waiting
<1>4. BusyHasJob /\ OneOwner
  BY <1>3 DEF BusyHasJob, OneOwner, InService, InQueue, ToSet, IsInjective
<1>5. NoSleepingOverWork /\ RunningCounted
  BY <1>3, FS_EmptySet DEF NoSleepingOverWork, RunningCounted
<1> QED BY <1>1, <1>2, <1>4, <1>5 DEF IInv

\* The inductive invariant: where each thread stands decides who holds the
\* mutex, what is queued and who owns which message.
THEOREM Invariant == Spec => []IInv
<1>1. IInv /\ [Next]_vars => IInv'
  BY TypeStep, ControlStep, OwnerStep, CountStep, SleepStep DEF IInv, Control
<1> QED BY InitIInv, <1>1, PTL DEF Spec

\* Every variable keeps to its type.
THEOREM TypeCorrect == Spec => []TypeOK
<1>1. IInv => TypeOK
  BY DEF IInv
<1> QED BY Invariant, <1>1, PTL

\* front() and pop_front() are never called on an empty list.
THEOREM NeverPopsEmpty == Spec => []PopsAMessage
<1>1. IInv => PopsAMessage
  BY DEF IInv, Control
<1> QED BY Invariant, <1>1, PTL

\* Every queued message has exactly one owner until it is freed.
THEOREM Ownership == Spec => []OneOwner
<1>1. IInv => OneOwner
  BY DEF IInv
<1> QED BY Invariant, <1>1, PTL

\* No signal is lost: while a thread sleeps, no message lacks a thread.
THEOREM NoLostSignal == Spec => []NoSleepingOverWork
<1>1. IInv => NoSleepingOverWork
  BY DEF IInv
<1> QED BY Invariant, <1>1, PTL

\* The warning that the pool is too small is never given while a thread sleeps.
THEOREM HonestWarning == Spec => []WarnsOnlyWhenNobodySleeps
<1>1. IInv => WarnsOnlyWhenNobodySleeps
  <2> SUFFICES ASSUME IInv, m_iRunningThreadNum = Cardinality(Thread) PROVE Waiting = {}
    BY DEF WarnsOnlyWhenNobodySleeps
  <2>1. Counted \subseteq Thread /\ Cardinality(Counted) = Cardinality(Thread)
    BY DEF IInv, RunningCounted, Counted
  <2>2. Counted = Thread
    BY <2>1, ThreadsAssumption, FS_Subset
  <2> QED BY <2>2 DEF Counted, Waiting
<1> QED BY Invariant, <1>1, PTL

(* Implementation of the abstract queue *)

LEMMA CapacityLeft ==
  ASSUME TypeOK, NEW t \in Thread, t \notin Busy
  PROVE  Cardinality(InService) < Cardinality(Thread)
<1>1. Busy \in SUBSET Thread /\ IsFiniteSet(Busy)
  BY SetsOfThreads DEF Busy
<1>2. IsFiniteSet(InService) /\ Cardinality(InService) <= Cardinality(Busy)
  <2> DEFINE f == [u \in Busy |-> jobbuf[u]]
  <2>1. f \in Surjection(Busy, InService)
    BY DEF Surjection, InService
  <2> QED BY <1>1, <2>1, FS_Surjection
<1>3. Busy \subseteq Thread \ {t} /\ Cardinality(Thread \ {t}) = Cardinality(Thread) - 1
  BY <1>1, ThreadsAssumption, FS_RemoveElement
<1>4. Cardinality(Busy) <= Cardinality(Thread \ {t})
  BY <1>3, ThreadsAssumption, FS_RemoveElement, FS_Subset
<1>5. Cardinality(InService) \in Nat
  BY <1>2, FS_CardinalityType
<1> QED
  BY <1>1, <1>2, <1>3, <1>4, <1>5, ThreadsAssumption, FS_CardinalityType

\* A step of the thread pool is one of the abstract queue, or none of its business.
LEMMA PoolStep == IInv /\ IInv' /\ [Next]_vars => [Pool!Next]_(Pool!vars)
<1> SUFFICES ASSUME IInv, IInv', [Next]_vars PROVE Pool!Next \/ UNCHANGED Pool!vars
  OBVIOUS
<1> USE DEF IInv, TypeOK, queueVars
<1>1a. ASSUME UNCHANGED <<jobbuf, buf>>, Busy' = Busy
      PROVE  UNCHANGED <<InService, Handled, Dropped>>
  BY <1>1a DEF InService, Handled, Dropped
<1>1. CASE UNCHANGED <<m_MsgRecvQueue, InService, Handled, Dropped, m_shutdown>>
  BY <1>1 DEF Pool!vars
<1>2. ASSUME UNCHANGED <<m_MsgRecvQueue, jobbuf, buf, m_shutdown>>, Busy' = Busy
      PROVE  UNCHANGED Pool!vars
  BY <1>1a, <1>2 DEF Pool!vars
<1>3. ASSUME NEW t \in Thread, ThreadFunc(t) PROVE Pool!Next \/ UNCHANGED Pool!vars
  <2>1. CASE TakeJob(t)
    <3> USE DEF TakeJob
    <3>1. t \notin Busy /\ Busy' = Busy \cup {t}
      BY <2>1 DEF Busy
    <3>2. \A u \in Busy : jobbuf'[u] = jobbuf[u]
      BY <2>1, <3>1 DEF Busy
    <3>3. jobbuf'[t] = Head(m_MsgRecvQueue)
      BY <2>1
    <3>4. InService' = InService \cup {Head(m_MsgRecvQueue)}
      BY <3>1, <3>2, <3>3 DEF InService
    <3>5. Cardinality(InService) < Cardinality(Thread)
      BY <3>1, CapacityLeft
    <3>6. m_MsgRecvQueue # <<>>
      BY <2>1 DEF Control, PopsAMessage
    <3>7. UNCHANGED <<Handled, Dropped, m_shutdown>>
      BY <2>1 DEF Handled, Dropped
    <3>8. Pool!Cardinality(InService) < Cardinality(Thread)
      BY <3>5 DEF Pool!Cardinality, Cardinality
    <3>9. Pool!Take
      BY <2>1, <3>4, <3>6, <3>7, <3>8 DEF Pool!Take
    <3> HIDE DEF TakeJob
    <3> QED BY <3>9 DEF Pool!Next
  <2>2. CASE Process(t)
    <3> DEFINE j == jobbuf[t]
    <3> USE DEF Process
    <3>1. t \in Busy /\ Busy' = Busy \ {t} /\ j \in Msg
      BY <2>2 DEF Busy, BusyHasJob
    <3>2. \A u \in Busy' : jobbuf'[u] = jobbuf[u] /\ jobbuf[u] # j
      BY <2>2, <3>1 DEF Busy, OneOwner
    <3>3. j \in InService /\ InService' = InService \ {j}
      BY <3>1, <3>2 DEF InService
    <3>4. buf[j] = "live"
      BY <3>3 DEF OneOwner
    <3>5. Handled' = Handled \cup {j} /\ Dropped' = Dropped
      BY <2>2, <3>1, <3>4 DEF Handled, Dropped
    <3>6. Pool!Finish(j)
      BY <2>2, <3>3, <3>5 DEF Pool!Finish
    <3> HIDE DEF j, Process, Pool!Finish
    <3> QED BY <3>1, <3>6 DEF Pool!Next
  <2>3. CASE LockAndTest(t) \/ Wait(t) \/ Exit(t) \/ BeginWork(t) \/ EndWork(t)
    <3>1. UNCHANGED <<m_MsgRecvQueue, jobbuf, buf, m_shutdown>> /\ Busy' = Busy
      BY <2>3 DEF LockAndTest, Wait, Exit, BeginWork, EndWork, Busy
    <3> QED BY <1>2, <3>1
  <2> QED BY <1>3, <2>1, <2>2, <2>3 DEF ThreadFunc, ThreadStep
<1>4. ASSUME NEW t \in Thread, Spurious(t) \/ Spawn(t) PROVE UNCHANGED Pool!vars
  <2>1. UNCHANGED <<m_MsgRecvQueue, jobbuf, buf, m_shutdown>> /\ Busy' = Busy
    BY <1>4 DEF Spurious, SpuriousWakeup, Spawn, Busy
  <2> QED BY <1>2, <2>1
<1>5. CASE SpawnFails \/ CreateReturns \/ Call \/ Broadcast \/ JoinAll \/ UNCHANGED vars
  <2>1. UNCHANGED <<m_MsgRecvQueue, jobbuf, buf, m_shutdown>> /\ Busy' = Busy
    <3>1. CASE SpawnFails \/ CreateReturns \/ JoinAll \/ UNCHANGED vars
      BY <3>1 DEF SpawnFails, CreateReturns, JoinAll, vars, Busy
    <3>2. CASE Call BY <3>2 DEF Call, Busy, Waiting
    <3>3. CASE Broadcast BY <3>3 DEF Broadcast, Busy, Waiting
    <3> QED BY <1>5, <3>1, <3>2, <3>3
  <2> QED BY <1>2, <2>1
<1>6. ASSUME NEW m \in Msg, Enqueue(m) PROVE Pool!Next
  <2> USE DEF Enqueue
  <2>1. m \notin InQueue \cup InService \cup Handled \cup Dropped
    BY <1>6 DEF OneOwner, Handled, Dropped
  <2>2. InService' = InService /\ Handled' = Handled /\ Dropped' = Dropped
    BY <1>6 DEF Busy, InService, Handled, Dropped
  <2>3. Pool!InWaiting = InQueue
    BY DEF Pool!InWaiting, Pool!ToSet, InQueue, ToSet
  <2>4. Pool!Submit(m)
    BY <1>6, <2>1, <2>2, <2>3 DEF Pool!Submit
  <2> HIDE DEF Enqueue
  <2> QED BY <2>4 DEF Pool!Next
<1>7. CASE StopAll
  <2> USE DEF StopAll
  <2>1. InService' = InService /\ Handled' = Handled /\ Dropped' = Dropped
    BY <1>1a, <1>7 DEF Busy
  <2>2. Pool!Close
    <3>1. m_shutdown' = TRUE
      BY <1>7, Zenon
    <3> QED BY <1>7, <2>1, <3>1 DEF Pool!Close
  <2> QED BY <2>2 DEF Pool!Next
<1>8. CASE Destructor
  <2> USE DEF Destructor
  <2>1. InService' = InService
    BY <1>8 DEF Busy, InService
  <2>2. \A m \in InQueue : m \in Msg /\ buf[m] = "live"
    BY DEF OneOwner
  <2>3. Handled' = Handled /\ Dropped' = Dropped \cup InQueue
    BY <1>8, <2>2 DEF Handled, Dropped
  <2>4. CASE mainpc = "failed"
    <3>1. m_MsgRecvQueue = <<>> /\ InQueue = {}
      BY <2>4 DEF Control, NothingBeforeCreateReturns, InQueue, ToSet
    <3> QED BY <1>1, <1>8, <2>1, <2>3, <3>1
  <2>5. CASE mainpc = "stopped"
    <3>1. InService = {}
      BY <2>5 DEF Control, EndedWhenStopped, Busy, InService
    <3>2. m_shutdown
      BY <2>5 DEF Control
    <3>3. Pool!InWaiting = InQueue
      BY DEF Pool!InWaiting, Pool!ToSet, InQueue, ToSet
    <3>4. Pool!Drop
      BY <1>8, <2>1, <2>3, <3>1, <3>2, <3>3 DEF Pool!Drop
    <3> QED BY <3>4 DEF Pool!Next
  <2> QED BY <1>8, <2>4, <2>5
<1> QED
  BY <1>3, <1>4, <1>5, <1>6, <1>7, <1>8
  DEF Next, Create, inMsgRecvQueueAndSignal, Stop, Gone

\* The pool serves the messages like the abstract queue: first come, first
\* taken, each once, at most as many at a time as there are threads, and it
\* drops messages only after it was told to stop.
THEOREM Refinement == Spec => ServesInOrder
<1>1. Init => Pool!Init
  BY DEF Init, Pool!Init, Busy, InService, Handled, Dropped
<1> QED BY <1>1, Invariant, PoolStep, PTL DEF Spec, ServesInOrder, Pool!Safe
=============================================================================
