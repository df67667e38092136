------------------------------ MODULE MCStartup ------------------------------
(* Values for TLC: every short file over a few tokens, and files of two lines *)
(* that set what the start depends on, in several spellings.                  *)
EXTENDS Startup

MCPortNames == <<"ListenPort0", "ListenPort1">>

MCNames == {"WorkerProcesses", "Daemon", "ListenPortCount", "worker_connections",
            "ProcMsgRecvWorkThreadCount", "Sock_RecyConnectionWaitTime",
            "Sock_WaitTimeEnable", "Sock_MaxWaitTime", "Sock_TimeOutKick",
            "Sock_FloodAttackKickEnable", "Sock_FloodTimeInterval",
            "Sock_FloodKickCounter"} \cup ToSet(MCPortNames)

MCShout == [name \in MCNames |-> IF name = "Daemon" THEN "DAEMON" ELSE name \o "_"]

Text(f) == [kind |-> "file", text |-> f]

Short ==
  BoundedSeq({"Daemon", "1", "=", "space", "newline", "#"}, 4)

Line ==
  {<<"WorkerProcesses", "=", "2">>, <<"WorkerProcesses", "space", "=", "space", "3">>,
   <<"ListenPortCount", "=", "2", "cr">>, <<"ListenPortCount", "=", "0">>,
   <<"ListenPort0", "=", "2">>, <<"ListenPort1", "=", "tab", "1", "1", "space">>,
   <<"worker_connections", "=", "0">>, <<"ProcMsgRecvWorkThreadCount", "=", "1">>,
   <<"Sock_WaitTimeEnable", "=", "1", "=">>, <<"DAEMON", "=", "1">>, <<"Daemon", "=", "0">>,
   <<"Daemon", "tab", "=", "1">>, <<"tab", "Daemon", "=", "1">>,
   <<"#", "Daemon", "=", "1">>, <<"#", "space", "space", "space", "space", "space",
                                 "Daemon", "=", "1">>,
   <<"[", "Daemon", "=", "1">>, <<"Sock_MaxWaitTime", "Daemon", "0", "=", "1">>}

MCFiles ==
  {Text(f) : f \in Short} \cup
  {Text(a \o <<"newline">> \o b \o end) : a \in Line, b \in Line, end \in {<<>>, <<"newline">>}}
  \cup {[kind |-> k, text |-> <<>>] : k \in {"missing", "directory"}}
=============================================================================
