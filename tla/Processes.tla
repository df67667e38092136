------------------------------ MODULE Processes ------------------------------
(***************************************************************************)
(* The master process and its workers (proc/ngx_process_cycle.cpp,         *)
(* signal/ngx_signal.cpp).  The master blocks signals, forks the workers,  *)
(* and then takes signals in sigsuspend only.  A worker that ends leaves a *)
(* zombie and SIGCHLD to the master; signals of one kind that are pending  *)
(* at the same time are one signal.  The handler of SIGCHLD calls waitpid  *)
(* until there is nobody to wait for.                                      *)
(*                                                                         *)
(* The handlers of the other signals only write to the log, and neither    *)
(* the master nor a worker ends by a signal that has a handler.            *)
(***************************************************************************)
EXTENDS Integers

CONSTANT MaxWorkers  \* a bound for WorkerProcesses

ASSUME WorkersAssumption == MaxWorkers \in Nat

Workers == 0..(MaxWorkers - 1)

VARIABLES
  WorkerProcesses,  \* as nginx.conf has it, 0 before it is read
  worker,    \* Workers -> what became of each
  master,    \* where the master stands
  inum,      \* the next worker to fork
  SIGCHLD,   \* "pending" or "none"
  ngx_reap

vars == <<WorkerProcesses, worker, master, inum, SIGCHLD, ngx_reap>>

Init ==
  /\ WorkerProcesses = 0
  /\ worker = [w \in Workers |-> "none"]
  /\ master = "main"
  /\ inum = 0
  /\ SIGCHLD = "none"
  /\ ngx_reap = 0

-----------------------------------------------------------------------------
(* The master *)

\* The master blocks the signals and reads how many workers it is to start.
StartMaster(n) ==
  /\ master = "main"
  /\ WorkerProcesses' = n
  /\ master' = "ngx_start_worker_processes"
  /\ UNCHANGED <<worker, inum, SIGCHLD, ngx_reap>>

\* Variant: one worker too many.
SpawnOneMore ==
  /\ master = "ngx_start_worker_processes" /\ inum <= WorkerProcesses
  /\ \E outcome \in {"starting", "failed"} :
       worker' = [worker EXCEPT ![inum] = outcome]
  /\ inum' = inum + 1
  /\ UNCHANGED <<WorkerProcesses, master, SIGCHLD, ngx_reap>>

\* fork may fail, and the master goes on.
ngx_spawn_process ==
  /\ master = "ngx_start_worker_processes" /\ inum < WorkerProcesses
  /\ \E outcome \in {"starting", "failed"} :
       worker' = [worker EXCEPT ![inum] = outcome]
  /\ inum' = inum + 1
  /\ UNCHANGED <<WorkerProcesses, master, SIGCHLD, ngx_reap>>

AllForked ==
  /\ master = "ngx_start_worker_processes" /\ inum = WorkerProcesses
  /\ master' = "sigsuspend"
  /\ UNCHANGED <<WorkerProcesses, worker, inum, SIGCHLD, ngx_reap>>

ngx_signal_handler ==
  /\ master = "sigsuspend" /\ SIGCHLD = "pending"
  /\ SIGCHLD' = "none"
  /\ ngx_reap' = 1
  /\ master' = "waitpid"
  /\ UNCHANGED <<WorkerProcesses, worker, inum>>

\* Variant: the handler waits for one child.
ReapOne ==
  /\ master = "waitpid"
  /\ \E w \in Workers : worker[w] = "zombie" /\ worker' = [worker EXCEPT ![w] = "reaped"]
  /\ master' = "sigsuspend"
  /\ UNCHANGED <<WorkerProcesses, inum, SIGCHLD, ngx_reap>>

\* waitpid returns a child that has ended.
Reap ==
  /\ master = "waitpid"
  /\ \E w \in Workers : worker[w] = "zombie" /\ worker' = [worker EXCEPT ![w] = "reaped"]
  /\ UNCHANGED <<WorkerProcesses, master, inum, SIGCHLD, ngx_reap>>

\* waitpid returns 0, or -1 when there are no children at all.
NobodyToReap ==
  /\ master = "waitpid"
  /\ \A w \in Workers : worker[w] # "zombie"
  /\ master' = "sigsuspend"
  /\ UNCHANGED <<WorkerProcesses, worker, inum, SIGCHLD, ngx_reap>>

ngx_process_get_status == Reap \/ NobodyToReap

ngx_master_process_cycle ==
  \/ ngx_spawn_process \/ AllForked
  \/ ngx_signal_handler \/ ngx_process_get_status

-----------------------------------------------------------------------------
(* The workers *)

ngx_worker_process_init(w) ==
  /\ worker[w] = "starting"
  /\ worker' = [worker EXCEPT ![w] = "running"]
  /\ UNCHANGED <<WorkerProcesses, master, inum, SIGCHLD, ngx_reap>>

\* Variant: the signal of a worker that ends while it starts is lost.
EndsUnheard(w) ==
  /\ worker[w] \in {"starting", "running"}
  /\ worker' = [worker EXCEPT ![w] = "zombie"]
  /\ SIGCHLD' = IF worker[w] = "running" THEN "pending" ELSE SIGCHLD
  /\ UNCHANGED <<WorkerProcesses, master, inum, ngx_reap>>

\* exit(-2) while it starts, or an error that ends it.
Ends(w) ==
  /\ worker[w] \in {"starting", "running"}
  /\ worker' = [worker EXCEPT ![w] = "zombie"]
  /\ SIGCHLD' = "pending"
  /\ UNCHANGED <<WorkerProcesses, master, inum, ngx_reap>>

Next ==
  \/ \E n \in 0..MaxWorkers : StartMaster(n)
  \/ ngx_master_process_cycle
  \/ \E w \in Workers : ngx_worker_process_init(w) \/ Ends(w)

Spec == Init /\ [][Next]_vars
FairSpec == Spec /\ WF_vars(ngx_master_process_cycle)

-----------------------------------------------------------------------------
(* Properties *)

TypeOK ==
  /\ WorkerProcesses \in 0..MaxWorkers
  /\ worker \in [Workers -> {"none", "failed", "starting", "running", "zombie", "reaped"}]
  /\ master \in {"main", "ngx_start_worker_processes", "sigsuspend", "waitpid"}
  /\ inum \in Nat /\ inum <= WorkerProcesses
  /\ SIGCHLD \in {"none", "pending"}
  /\ ngx_reap \in {0, 1}

\* However the ends of workers and the handler interleave, and although signals
\* merge, a zombie is one that the master will hear of or is just looking for.
NoZombieForgotten ==
  (\E w \in Workers : worker[w] = "zombie") => SIGCHLD = "pending" \/ master = "waitpid"

\* Every worker is forked at most once, in order, and before the master waits for
\* signals each has had its turn.
ForkedInTurn ==
  /\ \A w \in Workers : worker[w] = "none" <=> w >= inum
  /\ master = "main" => inum = 0
  /\ master \in {"sigsuspend", "waitpid"} => inum = WorkerProcesses

\* A worker that ended does not stay a zombie.
ZombiesReaped == \A w \in Workers : worker[w] = "zombie" ~> worker[w] = "reaped"
=============================================================================
