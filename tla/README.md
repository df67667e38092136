# TLA+ models of the server framework

This directory holds TLA+ specifications of the epoll server in this
repository, the TLC configurations that check them, and proofs for TLAPS. The
program is a master process with a number of worker processes; each worker is a
reactor with a pool of threads and three service threads, which share
connection objects, queues and counters, partly under mutexes, partly under none.
What is hard to get right, and hard to test, is how these threads meet. The models
follow the code at that level: a step is what a thread does between two points
where another one can interfere.

Names in the modules are those of the source where TLA+ allows it. Lines are
given as `file:line`, below `src/`. `PROJECT.json` maps every definition to the
lines it models.

## The system

### Processes and threads

| Who | Runs | Shares |
|---|---|---|
| first process | `main` (app/nginx.cpp); forks the daemon and exits | the socket to MySQL, opened by the constructor of the global `CLogicSocket` |
| master | `ngx_master_process_cycle`: forks the workers, then `sigsuspend` | – |
| worker, main thread ("reactor") | `ngx_epoll_process_events`: accepts, reads, writes, closes, feeds the pool | everything below |
| worker, pool threads | `ThreadFunc`, `threadRecvProcFunc`, the handlers, `msgSend` | message queue, send queue, connections, MySQL |
| worker, send thread | `ServerSendQueueThread` | send queue, sending state of connections |
| worker, recycle thread | `ServerRecyConnectionThread` | recycle list, free list |
| worker, timer thread | `ServerTimerQueueMonitorThread` | timer queue, `lastPingTime`, connections |

### Components

**Thread pool** (misc/ngx_c_threadpool.cpp). State: the list of received messages
and its count, one mutex and one condition variable, `m_shutdown`, per thread
`ifrunning`, the number of running threads. Operations: `Create`,
`inMsgRecvQueueAndSignal` with `Call`, `ThreadFunc`, `StopAll`, destructor. Hard:
`m_shutdown` and `ifrunning` are used without the mutex; wakeups may be spurious
or lost. Correct if each message is handled by one thread, in order, and none
sleeps in the queue while a thread sleeps.

**Send path** (net/ngx_c_socket.cpp, ngx_c_socket_request.cpp). State: the send
queue with mutex and semaphore; per connection `iSendCount`, `iThrowsendCount`,
`psendMemPointer`, `psendbuf`, `isendlen`, the registered events, `iCurrsequence`.
Operations: `msgSend`, `ServerSendQueueThread`, `ngx_write_request_handler`,
`zdClosesocketProc`. Hard: the sending state passes between send thread and reactor
by `iThrowsendCount` alone, and four threads may close the connection meanwhile.
Correct if a client gets whole messages of its own, memory is freed once and not
used after that, limits hold, and what is queued is sent.

**Connection pool and recycling** (ngx_c_socket_conn.cpp, ngx_c_socket_accept.cpp).
State: all, free and recycled connections, their counters, `m_onlineUserCount`, and
the descriptors of the system. Operations: `ngx_event_accept`, `ngx_get_connection`,
`ngx_free_connection`, `ngx_close_connection`, `inRecyConnectQueue`,
`ServerRecyConnectionThread`. Hard: closing is several unlocked steps, done by
several threads; the system gives a closed descriptor out again. Correct if an
object is in one place, counters agree, limits hold, and what was closed comes back.

**Timer queue and heartbeats** (ngx_c_socket_time.cpp, logic/ngx_c_slogic.cpp).
State: a multimap of entries by time, its size and earliest time, `lastPingTime`.
Operations: `AddToTimerQueue`, `DeleteFromTimerQueue`, `GetOverTimeTimer`, the
monitor thread, `procPingTimeOutChecking`, `_HandlePing`. Hard: entries are taken out and put
back while others delete them, and size and time are read without the mutex.
Correct if nobody is closed who is in time, and who is not is closed in bounded time.

**Packet reception and flood test** (ngx_c_socket_request.cpp). State: `curStat`,
`dataHeadInfo`, `precvbuf`, `irecvlen`, `precvMemPointer`, flood count and time.
Operations: `ngx_read_request_handler`, `recvproc`, `_proc_p1`, `_proc_plast`,
`TestFlood`. Hard: `recv` cuts the stream anywhere; lengths at the limits; a client
that goes in the middle of a packet. Correct if the pool gets the client's packets,
whole, in order and all, and each buffer is freed once.

**Requests and library** (ngx_c_slogic.cpp, library_manager.cpp). State: the
connection to MySQL, and in each process what MySQL's library has received of it and not read. Operations: `threadRecvProcFunc`, the handlers of
`statusHandler`, the operations of `LibraryManager`. Hard: all processes and all pool threads
use one connection without a mutex, `ListBooks` reads its answer in two calls, and the end of one
process may close the connection for all. Correct if every request is answered once, with the truth.

**Master and workers, signals** (proc/ngx_process_cycle.cpp,
signal/ngx_signal.cpp). State: the workers, the pending SIGCHLD. Hard: signals merge.
Correct if no zombie stays.

**Start and configuration** (app/nginx.cpp, app/ngx_c_conf.cpp, app/ngx_string.cpp,
proc/ngx_daemon.cpp, the first half of net/ngx_c_socket.cpp). State: the list of settings,
the listening sockets, what each worker has started. Operations: `main` with its early
ends, `CConfig::Load`, `GetIntDefault`, `ReadConf`, `ngx_open_listening_sockets`,
`ngx_daemon`, `ngx_worker_process_init` with `Initialize_subproc` and `ngx_epoll_init`.
Hard: the order of tests and trimming in `Load`, buffers of fixed size, system calls of
which any may fail. Correct if what the file says is what runs, and the start ends.

**Log and formatting** (app/ngx_log.cpp, app/ngx_printf.cpp). State: the log's descriptor and
level. Operations: `ngx_log_error_core`, `ngx_log_stderr`, `ngx_log_init`, `ngx_vslprintf`,
and the end of the log in `freeresource`. Hard: a buffer that is full in the middle of a
number; two threads; `ngx_log_stderr` writes twice and gives its text back as a format.
Correct if each line is written as it was meant, inside the buffer, and lost only when the
disk is full.

**Not modelled.** The process title (strings copied once; no behaviour over time), CRC32 and
memory (`new` and `delete`; they appear as good and bad packets and as the ownership of
buffers, `FreeMemory` as `Freed` in `SendPath`), `ngx_sock_ntop` (formats an address for the log), and
`Shutdown_subproc`, which comes after the endless loop of a worker and is never
reached (its first step, `StopAll`, is in `ThreadPool`). The handlers of signals
other than SIGCHLD only write to the log.

### How they interact

    client --> reactor: accept ........... ConnPool (object), TimerQueue (entry)
           --> reactor: read ............. PacketRecv: bytes to packets
           --> thread pool ............... ThreadPool: queue, condition variable
           --> handler ................... Requests: dispatch, MySQL
           --> msgSend, send thread ...... SendPath: queue, semaphore
           --> reactor: write ............ SendPath: what the socket did not take
    nginx.conf --> main, daemon .......... Config, Startup: settings, listening sockets
           --> master --> workers ........ Startup, Processes: fork, threads, SIGCHLD
    all of them --> log .................. Log
    any of reactor, pool, timer: zdClosesocketProc --> recycle thread: ConnPool

The locks are those of the message queue, the send queue, the connection lists, the
recycle list, the timer queue and one per connection (`logicPorcMutex`). They nest in
one way: the handlers of heartbeat, register and login hold `logicPorcMutex` and take the
send queue's in `msgSend`, which may call `zdClosesocketProc` and take those of timer queue
and recycle list; and the recycle thread takes that of the free list with that of
the recycle list held. Nobody takes two of them in the opposite order.

## Modules

| Module | What it is |
|---|---|
| `JobQueue` | abstract: jobs served in order, once each, by a bounded number of servers |
| `ThreadPool` | the pool; `Pool == INSTANCE JobQueue WITH ...` is the refinement mapping |
| `ThreadPool_proofs` | its invariants and the refinement, for every number of threads |
| `QueueFacts` | lemmas about the program's lists (`push_back`, `erase`, `pop_front` on sequences) and about definitions that count up from 0, for the proofs |
| `SendPath`, `MCSendPath` | send queue, send thread, reactor's writing half, closing |
| `SendPath_proofs` | its safety invariants, for every number of connections and messages, and every setting |
| `ConnPool` | connection objects, descriptors, accepting and recycling |
| `ConnPool_proofs` | its invariants, for every number of connections and closing threads |
| `TimerQueue`, `MCTimerQueue` | timer entries, heartbeats, the monitor; has a clock |
| `TimerQueue_proofs` | its invariants, for every number of connections, wait and grace |
| `PacketChannel` | abstract: packets sent come out whole, in order, and in the end |
| `PacketRecv` | the byte stream of a client, and the flood test; `Channel == INSTANCE PacketChannel WITH ...` |
| `PacketRecv_proofs` | its invariants, and that it implements the channel, for lengths, limits and packets of any number and size |
| `Requests`, `MCRequests` | dispatch, handlers, and the connection to MySQL |
| `Requests_proofs` | its invariants, for every number of workers, packets and requests |
| `Processes` | master, workers, SIGCHLD |
| `Config` | operators: what `Load` makes of a file, and what the file says |
| `Startup`, `MCStartup` | the start of the program; composes `Config` with `Processes` |
| `Startup_proofs` | the invariants of `Processes`; the whole program does what `Processes` allows; a worker that is ready is the one nginx.conf describes; `Load` finds in a file what is written in it |
| `Log`, `MCLog` | formatting, the log file, stderr |

State and actions correspond to the code like this.

*ThreadPool.* The variables are the members of `CThreadPool`; `pc` says where each
thread stands in `ThreadFunc`, `mainpc` where the main thread stands. `LockAndTest` takes
the mutex and evaluates the loop's condition, `Wait` is `pthread_cond_wait` up to the
release (two steps, since `StopAll` sets `m_shutdown` without the mutex), `TakeJob` is
lines 135–142, `BeginWork`, `Process`, `EndWork` the counted call of the handler.
`buf` follows the memory of each message.

*SendPath.* `conn[c]` has the fields of `ngx_connection_s` that matter for sending.
The send thread walks the queue: `TestSequence` / `DropStale` compare sequence numbers,
`Skip` / `TakeMessage` look at `iThrowsendCount`, `SenderSends` is `sendproc` with its
results, then either `SenderFrees`, `SenderClears` or `RaiseThrow`, `Arm`. The reactor's
`ReactorSends`, `Disarm`, `Post`, `ReactorFrees`, `ReactorClears`, `LowerThrow` are the write handler,
in its order; `Read`, `ReactorCloses`, `HangupWrite` what a hangup does.
`zdClosesocketProc` is four steps for each thread that calls it: the descriptor, the test of
`iThrowsendCount`, the line that lowers it, and the recycling. `mem` follows the
memory of each message, `wire` what the socket accepted.

*ConnPool.* An object is its place in `m_connectionList`; sequences are the two
other lists. `accepting` and `closing` say where `ngx_event_accept` and each call of
`zdClosesocketProc` stand; `open` and `owner` are the system's descriptors and, for
the properties, for whom each was opened.

*TimerQueue.* The multimap is a sequence ordered by time, equal times in the order of
insertion: `Insert` puts an entry behind those that are not later, `Until` and `After` are
the entries that are due and the others, `Without` is the queue after `DeleteFromTimerQueue`. `Tick` advances the clock. `admitted` and `late` are history for the
properties.

*PacketRecv.* A byte is its packet and its place there, so that a byte lost, doubled
or in the wrong packet is seen. One event is one step: only the reactor touches this
state. `accepted` is history: the packets the server has to accept. `Overrun` is what the preset packet of lines 28–43 does (see Findings).

*Requests.* `at[w]` is the handler a worker runs, or the call of MySQL's library in it. `SendQuery` and
`ReadReply` are the two halves of `mysql_query`, `StoreResult` is `mysql_store_result`, which only `ListBooks` calls.
Each process has a MYSQL object of its own behind the shared socket: `status` is its state and `received` what it has
taken from the socket, in one piece or several (`Recv`). MySQL answers `ListBooks` with columns and then rows, so that
a process may take another's reply, a part of one, or more than one. A packet that does not fit what the library
expects ends the connection (`OutOfOrder`), and a query on an object with a result left fails (`QueryFails`).
`NullBody` is the end of a worker at a packet that is a header only. `mysql_close` is
what the exit of any process does; `Execute` and `Hangup` are MySQL.

*Processes.* `worker[w]` is the life of each worker; SIGCHLD is pending or not.

*Config.* A file is a sequence of tokens: a word counts as one character, and blanks, `=`,
`#`, `;`, `[` are what `Load` looks at. `Load` is the loop with `fgets`, `Item` the two copies
and their trimming. `AsWritten` says what the file means by its lines alone.

*Startup.* `main` is where `main` stands; `init[w]` where a worker stands in
`ngx_worker_process_init`, and the threads and listening sockets it has. What a worker reads
is its copy of what `main` read, and nobody writes it after the fork, so one variable serves. `StartCycle`
hands the number of workers to `Processes`, `ngx_epoll_init` is the step of a worker with which
it is running there, `WorkerEnds` its end.

*Log.* `ngx_vslprintf` is a recursive function over what is left of the format; `Directive`
is what stands between `%` and the conversion. In a format that ends there the NUL is printed and the loop goes on
with `Behind`, what stands in memory after the format, which such a call then means (`Unfinished`). `ngx_log_stderr` is two steps, its write to
stderr and its call of `ngx_log_error_core` (`GiveToLog`), since other threads write in between. `made` is
history: the line each call means, whether the level lets it pass, and whether a device refused it.
The meaning of a part (`Meaning`) is defined without the loops of the formatter.

Operators with the comment `Variant:` are altered forms of the definition that
follows them. They are not part of the models: each one, put in place of the original,
makes TLC find a property violated, which shows that the property depends on it.
`PROJECT.json` lists them with the properties.

Some modules have variables that never change (`setting`, `preset`,
`m_floodAkEnable`, `m_ifTimeOutKick`): these are values of `nginx.conf` or
circumstances (who closes, to whom messages go), chosen in `Init`, so that one run covers
several of them.

## Runs

`tlc -config <cfg> <module>`; the numbers are distinct states.

| Run (cfg) | Bounds | Shows |
|---|---|---|
| `ThreadPool` | 3 threads, 3 messages | One owner per message, no pop from an empty list, nobody sleeps over work; `Create` and `StopAll` return; the pool implements `JobQueue`, with the liveness that every message is served unless the pool is stopped |
| `MCSendPath` | 3 messages (one of two pieces), 1 or 2 connections, five settings (145,000) | Clients that stay get whole messages; nothing forgotten, freed twice (unless the timer closes) or sent after it is freed; backlog counted and within limits; no reply to the next user; a rest is always sent |
| `ConnPool` | 2 connections, one of which listens, pool factor 1, 2 descriptors, 3 closing threads (46,000) | One place per object, counters of lists and users, limits, every closed connection comes back |
| `MCTimerQueue` | 2 connections used twice, wait 1 s, grace 1 s, 8 s, symmetry (4.3 million) | One entry per user, size and earliest time, nobody kicked early, the silent closed in time, with and without `Sock_TimeOutKick` |
| `PacketRecv` | header 3, longest 5, `dataHeadInfo` 4; 4 packets, 2 clients (152,000) | Reception implements `PacketChannel`: each accepted packet is delivered whole, in order, and in the end; buffers are accounted for and, without the preset packet, never passed; flood test |
| `MCRequests` | 1 worker with packets for every branch, 2 workers with 4; 3 requests (713,000) | One answer per book request, unless it ends the process; a worker alone is in step with MySQL, answers after the execution and with the truth, and its handlers return |
| `MCStartup` | up to 3 workers, 2 ports, every file of up to 4 tokens and pairs of 17 lines, lines of 6 tokens, names of 2 (65,000) | `Load` finds what is written; a worker that is ready has the ports and threads the file asks for; the start ends; zombies are heard of and reaped |
| `MCLog` | buffer of 12, words of 8 and 16 bits, 84 calls, 2 of them in a run, 2 threads (510,000) | Every line is as meant, once, and inside the buffer, unless a device refused it, also behind a format that ends in a directive |
| `MCSendPathLostPost`, `ConnPoolForeign`, `ConnPoolRefused`, `MCRequestsFeedback` | smaller | the findings below; each is violated |

**Why the bounds are enough.** Three threads are one that waits, one that comes and one
that works, and three messages are more than the threads that wait at any time. In the
send path the interesting orders need a message on its way, one behind it and one of
another connection. Two pieces are a partial send and its rest; limits of 0 and 1 are
reached and passed. Two connections in the pool make `ngx_get_connection` take from the
free list, and make new objects until the limit of accepting is met; two descriptors are
one that is reused while the other is held. Eight seconds are room for two users of a
connection each of which may stay silent until it is closed. A header of three bytes
is cut in every way, and lengths are below the header's, equal to it, the longest, and
above. The files of the start have each token in each place of a short line, and lines that
together make every branch: ports that are the same modulo the port space, a setting given twice,
a line longer than the buffer, a name that fills its field. A buffer of 12 leaves each conversion
every room from none to enough, and two lines are one that is cut off and one behind it, or those
of two threads. Three requests of two workers are enough for one to take the other's reply, or its first half, and for
a third to come after that. In the shared setting a request may be `ListBooks` or end its worker.

**Deadlock** is checked except in `SendPath`, `PacketRecv`, `Requests` and `Log`, which come
to their end when the bounded input is used up, and in `Startup`, where the program returns, or the master waits
for ever when every worker has ended, as it does in the code. A worker that has crashed in `ConnPool` stays so.

**Fairness.** Threads run (weak fairness of their steps; in `PacketRecv` the reactor reads what
has arrived, since epoll in level-triggered mode reports it until it is read; in `Startup` `main` and the master). Nobody owes a client's packet,
a call of `StopAll`, a wakeup without a signal, or a reason to close. Strong fairness where a thread
waits for something that comes and goes: `LockAndTest` (a mutex that is asked for again
and again is given), the closing and recycling threads in `ConnPool` (the same), and in `SendPath` an
event of epoll for a socket that is registered and writable, which epoll in level-triggered
mode reports again until it is taken, and the acceptance of bytes for a client that goes
on reading. `ConnPool` also assumes that no connection is being closed at all times:
each thread that closes it found it before it was closed, and there are finitely many.

**Assumptions of the models.**

- `Sock_RecyConnectionWaitTime` (150 s in nginx.conf) outlasts whatever a thread is doing with a
  connection when it is closed: recycling waits until no thread is inside it. Messages in the
  send queue may stay longer.
- The recycle list is ordered by time, since `time()` does not go back.
- In `TimerQueue` threads are scheduled within the second.
- In `Requests` a worker has one pool thread; the second thread on the same connection to MySQL
  is a second worker. A process crashes on a NULL body, and no other way. When a process exits, its `mysql_close`, which
  comes after `mysql_library_end`, may or may not tell MySQL to close the session and shut the socket down. What is in the socket
  then may be lost.
- Accesses to single words are atomic and seen in order by other threads, also
  where the code has a data race on an `int` or `bool`.
- SIGPIPE is left out: a send to a closed connection fails, as the code's error
  path expects. (The program neither ignores nor handles the signal.)
- The committed read handler closes every client at its first input (Findings). The modules behind
  it, `ThreadPool`, `Requests` and `SendPath`, and `PacketRecv` with `preset = 0`, model the code as it
  is without lines 28–43 of ngx_c_socket_request.cpp.
- `Log` writes a line with one `write`, which writes all or nothing; no text given to `ngx_log_stderr` has a percent
  sign (none in the source has), and the descriptors 0 to 2 are open, so that the log file's is above them. What is cut off is
  measured in characters of the model, of which the time, the level and the process number are one each.
  What stands behind a format (`Behind`) has no percent sign.
- In `Startup` the numbers in a file have no sign and fit an `int`, and `LISTEN` backlog, addresses and titles are left out.

## Findings

Each is a run that TLC finds violated, with a trace of the steps.

1. **A queued reply may wait for ever** (`QueueDrains`). The write handler posts the semaphore
   (ngx_c_socket_request.cpp:402) before it lowers `iThrowsendCount` (:410). The
   send thread wakes, skips the connection because the count is up, and sleeps; nobody
   posts again until there is another message.
2. **A client's socket is closed for another's** (`ClosesItsOwnSocket`). Two threads pass the
   test of `fd` (ngx_c_socket.cpp:443); between their calls of `close` the number goes to a new client.
3. **The limit of the pool ends the worker** (`RefusesAndGoesOn`). The message that refuses the client
   (ngx_c_socket_accept.cpp:107) is formatted with `%zu`, which `ngx_vslprintf` takes for the letter `z` and a `u` behind it:
   it takes no argument, so that `%s` meets the size of a list and reads from that address. The worker
   ends with SIGSEGV before the socket is closed, whatever the level of the log, since the line is formatted first.
4. **A client is told the wrong result** (`FeedbackTrue`). The workers share one connection to
   MySQL; one takes the reply to another's query.

## Observations

Disagreements that no run is spent on, and limits of the properties above.

- A message may be freed twice: `zdClosesocketProc`, called by the timer thread, lowers `iThrowsendCount`
  (ngx_c_socket.cpp:450) while the reactor finishes a message; the send thread takes the connection, and both free
  `psendMemPointer`. `MemoryPassed` leaves this case out (`"timer" \notin setting.ends`); without the condition TLC shows it.
- The preset packet: lines 28–43 of ngx_c_socket_request.cpp copy 78 bytes into `dataHeadInfo`, which has 20,
  over the pointers behind it. `Overrun` is that step, with `preset` the length of the packet; `BuffersKept` allows it an overrun only
  where `preset` is not 0.
- `nginx.conf` may be a directory: it can be opened, `fgets` fails, `feof` stays false, and `Load` goes on for ever
  (ngx_c_conf.cpp:42). `LoadForEver` has it, and `StartEnds` leaves it out.
- A tab between a name and `=` stays in the name (ngx_c_conf.cpp:73 trims spaces only), so that the setting is not found; a line
  of 500 characters or more comes in pieces that are lines of their own; a name of 50 or more runs into the content.
- `worker_connections=0` makes `epoll_create` fail, and each worker ends while the master waits. A port above 65535
  is taken modulo 65536 (ngx_c_socket.cpp:319), and two sockets may share a port if SO_REUSEPORT works, whose failure is only logged (:298).
  Port 0 would be any port, and never in conflict.
- With `Daemon` the first process returns 0 before the daemon has left the terminal, whatever becomes of it (nginx.cpp:148).
- Lines at a level above 0 are dropped until `ngx_log_init` sets the level (nginx.cpp:58 to :111), among them those of
  `Load`. Lines of `freeresource` after the file is closed go to stderr.
- `%lu`, `%zu` and a bare `%u` are not conversions of `ngx_vslprintf`: they print letters and take no argument, and what follows
  in the format gets the wrong one. Some ten messages have them with numbers behind, which only prints wrong values; finding 3 is the one
  where a text follows.
- `StopAll` sets `m_shutdown` (ngx_c_threadpool.cpp:175) and broadcasts without the mutex. When that comes between a
  thread's test (:117) and its wait (:123), the broadcast is lost, and `pthread_join` waits for
  ever. `MainComesBack` leaves this case out; without the condition TLC shows it. The comment at :166
  has all threads ended when the function returns, which it then does not.
- The read handler shows each byte with `%02x` (ngx_c_socket_request.cpp:55), and no byte is shown: in `ngx_vslprintf` the `x`
  asks for a conversion that has to follow (ngx_printf.cpp:100). The format ends there: its NUL is printed, and the loop
  steps over it and prints what stands in memory behind the format (:229). `Log` has such calls (`Unfinished`).
- A hangup with EPOLLOUT lowers `iThrowsendCount` (ngx_c_socket.cpp:728) also when a rest is still
  unsent, or twice. `WholeMessages` is therefore stated for clients that stay, and
  the remaining message may be overwritten, and leaked, by the next one.
- When the timer thread closes a connection, a message that the send thread has just taken
  may be leaked in the same way; `NoneForgotten` is stated for runs where only `msgSend` closes.
- The send thread skips a connection that the reactor sends on (ngx_c_socket.cpp:809) and goes on with
  the list, but a later look may find the connection free: a later message may overtake an earlier one.
- `ngx_event_accept` returns without closing the socket when there are too many users
  (ngx_c_socket_accept.cpp:100), though the comment at :96 says it is closed: the descriptor leaks. `LeaveSocket` has it.
- The message codes 1001–1005 of ngx_logiccomm.h are beyond the table of 12 handlers
  (ngx_c_slogic.cpp:52, :164): such a packet is dropped, and a client has to use 7–11. The answers carry 1001–1005.
- When `Daemon` is set the first process exits after the fork, and the destructor of `LibraryManager`
  (library_manager.cpp:56) may close the session that all workers use, and so does a worker that fails in its
  initialisation (ngx_process_cycle.cpp:188, 197). Nobody connects again.
- A packet for `RemoveBook`, `CheckOutBook` or `ReturnBook` that is a header only makes the handler read at NULL
  (ngx_c_slogic.cpp:399, 418, 437), and the worker ends. `AddBook` tests for a body. `NullBody` has it.
- With two workers a process may take the other's reply and leave it waiting for ever, or take columns and leave the
  rows. `InStepAlone` and `HandlersReturn` are therefore stated for a process that is alone on the connection.
- `msgSend` does not test the sequence number (ngx_c_socket.cpp:408): a late reply to an earlier user of the object counts for
  the new one, and may close the new connection at the limit. `BacklogCounted` counts replies to the user of the time.
- `_HandleRegister` and `_HandleLogIn` answer with a body that is not initialised; `_HandleListBooks`
  prints the books on the server and sends the client no list; two clients may check out the same book.
- `ngx_reap` is set by the handler of SIGCHLD and read nowhere: workers are not started again.

## Proofs

`tlapm M.tla` for each module `M` whose name ends in `_proofs`, and for `QueueFacts`. Each proves that an inductive
invariant `IInv`, which stands at the end of the component's module, holds at first and is kept by every step
(one lemma per conjunct, in it one step per action), and takes the properties from it. TLC checks `IInv` on the
settings of the runs too, which is how each was found.

**ThreadPool**, for every finite non-empty set of threads, every set of messages, and distinct
"no thread" and "no message" (the module's assumptions):

- `Invariant`: `Spec => []IInv`. `IInv` is at the end of `ThreadPool`, and adds to the properties
  what makes them inductive. `Critical`: the mutex is held exactly by the thread that is at
  `towait` or `decide`. `WaitsOnEmptyQueue`: whoever is about to wait saw the queue empty, and since he
  holds the mutex it still is; without it `NoSleepingOverWork` is not preserved by `Wait`.
  `NothingBeforeCreateReturns`, `BusyHasJob` and `RunningCounted` tie the queue, the messages taken and the count
  of running threads to where the threads stand.
- From it: `TypeCorrect`, `NeverPopsEmpty`, `Ownership`, `NoLostSignal`,
  `HonestWarning`. `NoLostSignal` is a counting argument: each action changes the length of the queue and the
  number of threads on their way by amounts that keep the inequality, or leaves nobody waiting.
- `Refinement`: `Spec => Pool!Safe`, with one step per action: it maps to a step of `JobQueue`, or to
  none.

**Processes**, for every number of workers: `TypeCorrect`, `EachItsTurn`, `ZombiesHeard`. A step that makes a
zombie raises SIGCHLD, and the handler that clears it does not leave `waitpid` while there is one.

**Startup**, for every set of files that ask for at most `MaxWorkers` workers (`FilesAskForFewWorkers`), every port and every failure: `StartImplements`, the whole program implements `Processes`: what `main`
goes by is what some file says (`ReadFromFile`), and each step of the start is a step of `Processes` or leaves its variables
alone. `StartForgetsNoZombie` follows from that and `ZombiesHeard`. `ReadyAsConfigured` is `RunsAsConfigured`. Its invariant `StartIInv` follows the
order of the start: whoever is past `ReadConf` has the settings of the file (`SettingsRead`); socket i has port i, and `main` does not leave the loop
before there are as many as the file says (`SocketsInTurn`); a worker exists only once `main` stays in the master's cycle, so that what it reads changes no
more, and its threads are those of the steps it has done (`InitInTurn`, `WorkersInTurn`). A worker that is forked is `Untouched`, which needs `ForkedInTurn` of `Processes`.
`StartTypeCorrect` is `StartTypeOK`: with a file of any length, what `Load` returns is a list of settings, and what `GetIntDefault` makes of it a number. `Load` recurs
over what is left of the file: that there is such a function is proved from tables for the files of at most n tokens (`TableExists`), of which any two agree
(`TablesAgree`, by the shortest file on which they would not), so that `Load` is what the loop computes (`LoadIsTheLoop`).
`LoadReadsWhatIsWritten` is `LoadsWhatIsWritten`, for files of any length and lines up to what the buffers hold, and names that are words
(`WordsAssumption`): when lines fit, `fgets` takes one at a time (`PieceSplits`); of it Load makes a setting for the name just when the line sets it, with the value the line has
(`FirstItem`); the lines behind it are those of the rest (`LinesBehind`, `SetsBehind`, `MeansBehind`), and what is right for the rest stays right with that
line in front (`OneMoreLine`). `LoadFinds` takes the shortest file on which Load would be wrong, whose rest is shorter.

**SendPath**, for every non-empty set of connections, every set of messages with their sizes, and every set of
settings (`ConnAssumption`, `SizesAssumption`, `SettingsAssumption`, `NoMsgAssumption`): `TypeCorrect`, `PassedSafely`,
`NoneForgottenAlways`, `BacklogRight`, `RepliesFresh`, `WholeMessagesAlways`. What the inductive invariant adds:

- `ConnectionsKept`: who is inside a connection keeps it from being recycled. All else rests on it, since a connection
  that is recycled changes hands.
- `HeadersKept`: the header of a message never names a later use of its connection than the present one, and
  names the present one only if the connection is online. This is why a comparison of two numbers,
  without a mutex, is enough for `NoStaleReply`; without it, neither `TestSequence` nor `TakeMessage` preserves that.
- `HandedOver`, for each connection `PassedOn(c)`: send thread and reactor are never both using the sending state, and when
  EPOLLOUT is armed `iThrowsendCount` is above 0 and the pointer is to what is in the buffer. The code has no lock here:
  the count and the registration in epoll are the hand-over, and each line of the invariant is what one side
  relies on after the other's step. It holds until the timer thread closes the connection (`Shared`).
- `PointersKept`: `psendMemPointer` is never to a message in the queue, nor to a freed one except between `FreeMemory` and
  the line that clears it.
- `NoneLost` and `NotLeft`: while nobody hangs up, a message that was taken has a thread or EPOLLOUT behind it.
- `WireKept`, for each connection whose client stays `InHand(c)`: the pieces the socket has accepted are whole messages, then
  the part of the message in hand that `isendlen` no longer counts, and whoever has begun a message is marked by `iThrowsendCount` or is still in the send
  thread's step (`Begun`). A message is off the queue before its first piece is sent (`LeftQueue`), so it never comes twice. Without `Begun`
  `TakeMessage` would put the next message behind a part of the last. How many pieces a message has had is counted over all places of the
  sequence (`Given`), not over its last run, and `sendproc` adds a known number at the end (`PiecesAppended`): so no induction is needed.
- `QueueKept`, `MutexKept`: a message is queued once, and two threads are never inside the queue.

`BacklogCounted` is by counting: a message that is queued adds to `iSendCount` and to the messages of the present
user, one that is taken or dropped as stale takes from both.

**ConnPool**, for every number of objects, sockets and closing threads: `TypeCorrect`, `ObjectsInOnePlace`, `CountersRight`,
`LimitsHold`. `ClosedInUse` (what a thread closes is in use or already queued) and `AcceptedInUse` (the connection that is
being accepted is in use and nobody closes it yet) say why no thread queues an object that is in a list; `RoomLeft` says that what
`ngx_event_accept` tested without a mutex still holds when it takes the connection, since only the reactor adds users and objects.
Each step is first reduced to how objects move between the lists (`GetFreeMoves`, `QueueMoves`, ...), from the facts about sequences in `QueueFacts`.

**Requests**, for every finite set of workers and every set of packets and settings: `TypeCorrect` (with the
table of handlers), `InStepWhenAlone`, `TrueWhenAlone`, `BooksOnce`. `Jobs` ties where a thread stands to the request it
has, `Queries` says that a query is in the pipe once and not yet executed, and that each packet from MySQL says the truth of its request (`PartTrue`), `Answering` that a
request is answered when its handler ends and not before. `InStepWhenAlone` and `TrueWhenAlone` are for settings with one worker, and need
`TakesItsOwnReply`: what the worker has received, with what is still in the socket, is the reply to the request in hand or the rest of it, as long as the call
it is in expects, and whole while the connection is open. With it `OutOfOrder` cannot happen, and rows are never left behind. The end of a process, which cuts what is in the
socket anywhere, keeps it.

**TimerQueue**, for every set of connections, every wait, grace and bound (`WaitAssumption`, `KickAssumption`, `BoundsAssumption`,
`NoConnAssumption`): `TypeCorrect`, `QueueIsKept`, `NobodyKickedEarly`, `AllClosedInTime`. What the inductive invariant adds to the properties:

- `QueueInOrder`: the queue is ordered by time, has no connection twice, and `m_cur_size_` and `m_timer_value_` are what it says they
  are. It makes the first entry the earliest, which the test of the monitor relies on, and says that an entry that is deleted leaves none behind.
- `EntriesKept`: entries in the queue are of present users, and whoever is online and not being closed has one. This is where `Sock_TimeOutKick`
  differs: with it an entry the monitor took out is in its list and no longer in the queue, without it the entry is queued again before the monitor looks at the list.
- `ClosingKept`: a connection that is being closed is not used again, and has no entry once `DeleteFromTimerQueue` has returned.
- `MonitorInTime`: how far the monitor can be behind the clock at each of its steps, and so how old an entry in the queue can be.
- `EntriesInTime`: what the time of an entry says of its user. With `Sock_TimeOutKick` it is a wait after the user was admitted; without it the monitor has
  looked at the user at most a round before, or is about to, or the user is being closed. `NoEarlyKick` and `ClosedInTime` are read off these two.

The loops of the timer queue are recursive functions over places (`Kept`, `Insert`). That such a function exists and does what it
says is proved by counting (`LeastNumber`, that a non-empty set of numbers has a least one, and from it `StepByStep`, in `QueueFacts`): `KeptFacts` is what a
filter keeps, `InsertChain` that insertion keeps the order, and `AddMoves`, `DeleteMoves`, `GetOverMoves` reduce each operation to what it makes of the
set of entries. The invariants then speak of sets.

**PacketRecv**, for headers that fit `dataHeadInfo`, and lengths, limits, packets and uses of any number (`LengthsAssumption`,
`FloodAssumption`, `BoundsAssumption`): `TypeCorrect`, `BuffersRight`, `FloodRight`, and `SafelyImplements`, that every step is one of `PacketChannel` or
none. `Stream` is what has been received of the present packet, and behind it what is in flight; `recv` moves bytes from the one to the other
and leaves it as it is. `InOrder` says that the stream is whole packets, in order: of each byte, where the others of its packet
are, and that a last byte is followed by a first one. It speaks of places and not of a concatenation, so that it needs no induction: `OrderDrop` takes a packet off the front when it is
complete or refused, `OrderAppend` adds one when the client sends. `Due` says that the packets accepted and not yet
delivered are the legal ones from the present packet on; `Counted` ties `irecvlen` and `precvMemPointer` to the bytes received, and with it `recv` never passes the buffer.
`FloodCounted` says that `FloodAttackCount` is the length of the last run of hasty packets (`RunGoesOn`, `LastRun`).

**Only model-checked.**

- Liveness (`ServesAll`, `QueueDrains`, `RemainderSent`, `EveryConnectionRecycled`, `HandlersReturn`,
  `ZombiesReaped`, `StartEnds`, `MainComesBack`, the last part of `ImplementsChannel`):
  fairness and `ENABLED` are out of the prover's reach.
- `Log`: what `ngx_vslprintf` makes of every format. Its definitions recur over what is left of the format and of the buffer; TLC compares them with
  the meaning of the format for every short one.

No module has a RECURSIVE operator.

## Plan

Done, in this order: `ThreadPool` with `JobQueue`, its proofs, `SendPath`, `ConnPool`,
`TimerQueue`, `PacketRecv`, `Requests`, `Processes`, its proofs; then `PacketChannel`, `Config` with `Startup` and its
proofs, `Log`; then `QueueFacts` and the proofs of `ConnPool`, `Requests`, `SendPath` and `PacketRecv`,
and `RunsAsConfigured`; then the proofs of `TimerQueue`, of `WholeMessages`, and of what `Load` makes of a file. Next:

1. Model
   - `SendPath` with `ConnPool`: one model of closing in which descriptors, sending state and recycling meet, small
     enough for two connections; and the replies that `msgSend` counts for a user who came later.
   - `Requests` with several pool threads per worker and `logicPorcMutex`, which heartbeat, register and login hold.
   - `clearconnection` and `Shutdown_subproc`, as the code would run them if it were reached.
2. Prove
   - `Log`: that `ngx_vslprintf` stays in its buffer and prints what the format means, one conversion at a time, as `LoadFinds` does line by line.
