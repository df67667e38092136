------------------------------- MODULE Startup -------------------------------
(***************************************************************************)
(* The start of the server: main of app/nginx.cpp loads nginx.conf, opens  *)
(* the listening sockets (net/ngx_c_socket.cpp), becomes a daemon          *)
(* (proc/ngx_daemon.cpp) and forks the workers, and each worker starts its *)
(* threads and its epoll.  Processes is the part from the fork on; here    *)
(* what it leaves open, how many workers there are and when a worker is    *)
(* ready, comes from the settings and from the steps of                    *)
(* ngx_worker_process_init.  Any system call may fail.                     *)
(***************************************************************************)
EXTENDS Processes, Config

CONSTANTS
  Files,       \* what nginx.conf may be
  PortNames,   \* "ListenPort0", "ListenPort1", ...
  DefaultPort, \* 10000
  PortSpace    \* a port number is taken modulo 2^16

ASSUME FilesAssumption ==
  Files \subseteq [kind : {"missing", "directory"}, text : {<<>>}]
                  \cup [kind : {"file"}, text : Seq(Token)]
ASSUME PortsAssumption ==
  PortNames \in Seq(Names) /\ DefaultPort \in Nat /\ PortSpace \in Nat \ {0}

VARIABLES
  file,      \* nginx.conf, until it is read
  m_ConfigItemList,
  main,      \* where main stands, in the process that goes on
  code,      \* what the first process returned, and the one that goes on as a daemon
  setting,   \* what ReadConf read
  m_ListenSocketList,
  init       \* Workers -> where ngx_worker_process_init stands, and what it has started

startVars == <<file, m_ConfigItemList, main, code, setting, m_ListenSocketList, init>>
allVars == <<vars, startVars>>

Running == "none"
NoFile == [kind |-> "missing", text |-> <<>>]
Unread == [x \in {} |-> 0]
Untouched == [pc |-> "Create", threads |-> <<>>, epoll |-> <<>>]

StartInit ==
  /\ Init
  /\ file \in Files
  /\ m_ConfigItemList = <<>>
  /\ main = "Load"
  /\ code = [first |-> Running, daemon |-> Running]
  /\ setting = Unread
  /\ m_ListenSocketList = <<>>
  /\ init = [w \in Workers |-> Untouched]

Loaded == [f \in {any.text : any \in Files} |-> Load[f]]
Conf(name, def) == GetIntDefault(m_ConfigItemList, name, def)

\* The lists of settings that main may go by.
ItemLists == {<<>>} \cup {Loaded[any.text] : any \in Files}

ASSUME FilesAskForFewWorkers ==
  \A conf \in ItemLists :
    GetIntDefault(conf, "WorkerProcesses", 1) \in 0..MaxWorkers

-----------------------------------------------------------------------------
(* main *)

IsDaemon == code.first # Running

Goto(pc) == main' = pc /\ UNCHANGED code
Return(n) ==
  /\ main' = "returned"
  /\ code' = IF IsDaemon THEN [code EXCEPT !.daemon = n] ELSE [code EXCEPT !.first = n]

\* The process that a daemon was started from returns 0, whatever becomes of the
\* daemon.
ParentReturns(pc) == main' = pc /\ code' = [code EXCEPT !.first = "0"]

\* Variant: the end of the file is looked for only behind the end of a line.
LoadWholeLines ==
  /\ main = "Load"
  /\ \/ file.kind = "missing" /\ Return("2") /\ UNCHANGED m_ConfigItemList
     \/ /\ file.kind = "file"
        /\ file.text # <<>> => Last(file.text) = "newline"
        /\ m_ConfigItemList' = Loaded[file.text]
        /\ Goto("ngx_init_signals")
  /\ file' = NoFile
  /\ UNCHANGED <<vars, setting, m_ListenSocketList, init>>

LoadFile ==
  /\ main = "Load"
  /\ \/ file.kind = "missing" /\ Return("2") /\ UNCHANGED m_ConfigItemList
     \/ /\ file.kind = "file"
        /\ m_ConfigItemList' = Loaded[file.text]
        /\ Goto("ngx_init_signals")
  /\ file' = NoFile
  /\ UNCHANGED <<vars, setting, m_ListenSocketList, init>>

\* A directory can be opened and not read, and the end of the file never comes.
LoadForEver ==
  /\ main = "Load" /\ file.kind = "directory"
  /\ UNCHANGED allVars

ngx_init_signals ==
  /\ main = "ngx_init_signals"
  /\ Goto("ReadConf") \/ Return("1")
  /\ UNCHANGED <<vars, file, m_ConfigItemList, setting, m_ListenSocketList, init>>

ReadConf ==
  /\ main = "ReadConf"
  /\ setting' =
       [m_worker_connections     |-> Conf("worker_connections", 1),
        m_ListenPortCount        |-> Conf("ListenPortCount", 1),
        m_RecyConnectionWaitTime |-> Conf("Sock_RecyConnectionWaitTime", 60),
        m_ifkickTimeCount        |-> Conf("Sock_WaitTimeEnable", 0),
        m_iWaitTime              |-> Max({5, Conf("Sock_MaxWaitTime", 0)}),
        m_ifTimeOutKick          |-> Conf("Sock_TimeOutKick", 0),
        m_floodAkEnable          |-> Conf("Sock_FloodAttackKickEnable", 0),
        m_floodTimeInterval      |-> Conf("Sock_FloodTimeInterval", 100),
        m_floodKickCount         |-> Conf("Sock_FloodKickCounter", 10)]
  /\ Goto("ngx_open_listening_sockets")
  /\ UNCHANGED <<vars, file, m_ConfigItemList, m_ListenSocketList, init>>

Opened == Len(m_ListenSocketList)

\* The socket gets port iport; a port that another socket listens on is taken,
\* unless both have SO_REUSEPORT, which may fail without notice.  A socket bound to 0
\* gets a port of the system's choice that nobody listens on.
Listens(iport) ==
  /\ \E reuseport \in BOOLEAN :
       /\ \A i \in 1..Opened :
            iport % PortSpace # 0 /\ m_ListenSocketList[i].bound = iport % PortSpace =>
              reuseport /\ m_ListenSocketList[i].reuseport
       /\ m_ListenSocketList' =
            Append(m_ListenSocketList,
                   [port |-> iport, bound |-> iport % PortSpace, reuseport |-> reuseport])
  /\ Goto("ngx_open_listening_sockets")

\* Variant: every socket gets the first port.
OpenSamePort ==
  /\ main = "ngx_open_listening_sockets"
  /\ Opened < setting.m_ListenPortCount
  /\ \/ Listens(Conf(PortNames[1], DefaultPort))
     \/ Return("1") /\ UNCHANGED m_ListenSocketList
  /\ UNCHANGED <<vars, file, m_ConfigItemList, setting, init>>

\* One round of the loop of ngx_open_listening_sockets: a socket that cannot be
\* made ready is closed, and the program ends.
OpenListeningSocket ==
  /\ main = "ngx_open_listening_sockets"
  /\ Opened < setting.m_ListenPortCount
  /\ \/ Listens(Conf(PortNames[Opened + 1], DefaultPort))
     \/ Return("1") /\ UNCHANGED m_ListenSocketList
  /\ UNCHANGED <<vars, file, m_ConfigItemList, setting, init>>

AllSocketsOpen ==
  /\ main = "ngx_open_listening_sockets"
  /\ Opened >= setting.m_ListenPortCount
  /\ IF Opened = 0 THEN Return("1") ELSE Goto("ngx_daemon")
  /\ UNCHANGED <<vars, file, m_ConfigItemList, setting, m_ListenSocketList, init>>

\* The daemon leaves the terminal after the fork, which may fail as well.
ngx_daemon ==
  /\ main = "ngx_daemon"
  /\ IF Conf("Daemon", 0) # 1 THEN Goto("ngx_master_process_cycle")
     ELSE Return("1") \/ ParentReturns("setsid")
  /\ UNCHANGED <<vars, file, m_ConfigItemList, setting, m_ListenSocketList, init>>

LeaveTerminal ==
  /\ main = "setsid"
  /\ Goto("ngx_master_process_cycle") \/ Return("1")
  /\ UNCHANGED <<vars, file, m_ConfigItemList, setting, m_ListenSocketList, init>>

\* From here on main is in ngx_master_process_cycle for ever.
StartCycle ==
  /\ main = "ngx_master_process_cycle"
  /\ StartMaster(Conf("WorkerProcesses", 1))
  /\ UNCHANGED startVars

Main ==
  \/ LoadFile \/ ngx_init_signals \/ ReadConf \/ OpenListeningSocket
  \/ AllSocketsOpen \/ ngx_daemon \/ LeaveTerminal \/ StartCycle

-----------------------------------------------------------------------------
(* ngx_worker_process_init, with the process's own copy of what main read *)

InitAt(w, pc) == worker[w] = "starting" /\ init[w].pc = pc

\* The next step, with further threads.
Started(w, pc, threads) ==
  /\ init' = [init EXCEPT ![w].pc = pc, ![w].threads = @ \o threads]
  /\ UNCHANGED <<vars, file, m_ConfigItemList, main, code, setting, m_ListenSocketList>>

CreatePool(w) ==
  /\ InitAt(w, "Create")
  /\ Started(w, "Initialize_subproc",
             [t \in 1..Conf("ProcMsgRecvWorkThreadCount", 5) |-> "ThreadFunc"])

Initialize_subproc(w) ==
  /\ InitAt(w, "Initialize_subproc")
  /\ Started(w, "ngx_epoll_init",
             <<"ServerSendQueueThread", "ServerRecyConnectionThread">> \o
             (IF setting.m_ifkickTimeCount = 1
              THEN <<"ServerTimerQueueMonitorThread">> ELSE <<>>))

\* epoll_create takes no size of 0.  Each listening socket gets a connection.
ngx_epoll_init(w) ==
  /\ InitAt(w, "ngx_epoll_init")
  /\ setting.m_worker_connections > 0
  /\ init' = [init EXCEPT ![w].epoll = m_ListenSocketList]
  /\ ngx_worker_process_init(w)
  /\ UNCHANGED <<file, m_ConfigItemList, main, code, setting, m_ListenSocketList>>

\* A step fails, or a worker that was ready ends: with the process its threads go.
WorkerEnds(w) ==
  /\ Ends(w)
  /\ init' = [init EXCEPT ![w] = Untouched]
  /\ UNCHANGED <<file, m_ConfigItemList, main, code, setting, m_ListenSocketList>>

Worker(w) ==
  CreatePool(w) \/ Initialize_subproc(w) \/ ngx_epoll_init(w) \/ WorkerEnds(w)

-----------------------------------------------------------------------------
Master == ngx_master_process_cycle /\ UNCHANGED startVars

StartNext == Main \/ LoadForEver \/ Master \/ \E w \in Workers : Worker(w)

StartSpec == StartInit /\ [][StartNext]_allVars

\* main runs on, and sigsuspend returns for a pending signal.
StartFairSpec == StartSpec /\ WF_allVars(Main) /\ WF_allVars(Master)

-----------------------------------------------------------------------------
(* Properties *)

Thread == {"ThreadFunc", "ServerSendQueueThread", "ServerRecyConnectionThread",
           "ServerTimerQueueMonitorThread"}
Listening == [port : Nat, bound : Nat, reuseport : BOOLEAN]

StartTypeOK ==
  /\ TypeOK
  /\ file.kind \in {"missing", "directory", "file"} /\ file.text \in Seq(Token)
  /\ m_ConfigItemList \in Seq([ItemName : Seq(Token), ItemContent : Seq(Token)])
  /\ main \in {"Load", "ngx_init_signals", "ReadConf", "ngx_open_listening_sockets",
               "ngx_daemon", "setsid", "ngx_master_process_cycle", "returned"}
  /\ code \in [{"first", "daemon"} -> {Running, "0", "1", "2"}]
  /\ \A x \in DOMAIN setting : setting[x] \in Nat
  /\ m_ListenSocketList \in Seq(Listening)
  /\ init \in [Workers -> [pc : {"Create", "Initialize_subproc", "ngx_epoll_init"},
                           threads : Seq(Thread), epoll : Seq(Listening)]]

\* However a file is laid out, with comments, sections, blanks, repeated names and a
\* last line without an end, Load finds for each name what the first line that sets
\* it says; as long as the lines fit the buffers of Load.
LoadsWhatIsWritten ==
  [][LoadFile /\ file.kind = "file" /\ Fits(file.text) =>
       \A name \in Names : AsWritten(m_ConfigItemList', file.text, name)]_allVars

\* A worker that is ready is the one the file describes: it listens on each of the
\* ports, the timer thread runs when heartbeats are watched and only then, and there
\* are as many pool threads as the file says.
RunsAsConfigured ==
  \A w \in Workers : worker[w] = "running" =>
    /\ Len(init[w].epoll) = setting.m_ListenPortCount
    /\ \A i \in DOMAIN init[w].epoll :
         init[w].epoll[i].bound = Conf(PortNames[i], DefaultPort) % PortSpace
    /\ Conf("Sock_WaitTimeEnable", 0) = 1 <=>
         "ServerTimerQueueMonitorThread" \in ToSet(init[w].threads)
    /\ Cardinality({t \in DOMAIN init[w].threads : init[w].threads[t] = "ThreadFunc"})
         = Conf("ProcMsgRecvWorkThreadCount", 5)

\* The start comes to an end, unless nginx.conf is a directory: the program returns, or
\* the master has forked its workers and waits for signals, whatever fails.
StartEnds ==
  main = "Load" /\ file.kind # "directory" ~>
    main = "returned" \/ master \in {"sigsuspend", "waitpid"}

-----------------------------------------------------------------------------
(* The inductive invariant that the proofs use. *)

\* What main goes by is what some file says.
ReadFromFile ==
  /\ main = "Load" => file \in Files
  /\ m_ConfigItemList \in ItemLists

\* Whoever gets past ReadConf has the settings of the file.
SettingsRead ==
  main \notin {"Load", "ngx_init_signals", "ReadConf", "returned"} =>
    /\ setting.m_ListenPortCount = Conf("ListenPortCount", 1)
    /\ setting.m_ifkickTimeCount = Conf("Sock_WaitTimeEnable", 0)

\* The sockets are opened one by one, each on its own port, and main does not go on
\* before there are as many as the file says.
SocketsInTurn ==
  /\ m_ListenSocketList \in Seq(ToSet(m_ListenSocketList))
  /\ main \in {"Load", "ngx_init_signals", "ReadConf"} => m_ListenSocketList = <<>>
  /\ main = "ngx_open_listening_sockets" => Opened <= setting.m_ListenPortCount
  /\ main \in {"ngx_daemon", "setsid", "ngx_master_process_cycle"} =>
       Opened = setting.m_ListenPortCount
  /\ \A i \in 1..Opened :
       m_ListenSocketList[i].bound = Conf(PortNames[i], DefaultPort) % PortSpace

\* The threads that CreatePool starts, and then Initialize_subproc.
PoolThreads == [t \in 1..Conf("ProcMsgRecvWorkThreadCount", 5) |-> "ThreadFunc"]
SocketThreads ==
  <<"ServerSendQueueThread", "ServerRecyConnectionThread">> \o
  (IF Conf("Sock_WaitTimeEnable", 0) = 1 THEN <<"ServerTimerQueueMonitorThread">> ELSE <<>>)

\* How far a worker is in ngx_worker_process_init, and what it has started by then.
InitInTurn(w) ==
  \/ worker[w] \notin {"starting", "running"} /\ init[w] = Untouched
  \/ /\ worker[w] = "starting"
     /\ init[w] \in {Untouched,
                     [pc |-> "Initialize_subproc", threads |-> PoolThreads, epoll |-> <<>>],
                     [pc |-> "ngx_epoll_init", threads |-> PoolThreads \o SocketThreads,
                      epoll |-> <<>>]}
  \/ /\ worker[w] = "running"
     /\ init[w] = [pc |-> "ngx_epoll_init", threads |-> PoolThreads \o SocketThreads,
                   epoll |-> m_ListenSocketList]

\* There are workers only when main has come to ngx_master_process_cycle, where it stays.
WorkersInTurn ==
  /\ master # "main" => main = "ngx_master_process_cycle"
  /\ init = [w \in Workers |-> init[w]]
  /\ \A w \in Workers : InitInTurn(w)
  /\ \A w \in Workers : worker[w] \in {"starting", "running"} =>
                          main = "ngx_master_process_cycle"

StartIInv == ReadFromFile /\ SettingsRead /\ SocketsInTurn /\ WorkersInTurn
=============================================================================
