------------------------------ MODULE Requests ------------------------------
(***************************************************************************)
(* What a pool thread does with a packet (logic/ngx_c_slogic.cpp) and the  *)
(* library behind it (logic/library_manager.cpp): threadRecvProcFunc tests *)
(* the packet and calls a handler of the table statusHandler, the handlers *)
(* for books send a query to MySQL, and the handlers answer the client.    *)
(*                                                                         *)
(* The global CLogicSocket object opens the connection to MySQL before     *)
(* main begins, so that the process that main forks into a daemon, the     *)
(* master and all worker processes have the same socket, without a mutex.  *)
(* Each process has a MYSQL object of its own behind it, with a buffer and *)
(* a status.  MySQL answers ListBooks with columns and rows, which are two *)
(* reads of the client, and any other query with one packet.  It may       *)
(* refuse any query.  The model has one pool thread for each process.      *)
(***************************************************************************)
EXTENDS Integers, SequencesExt

CONSTANTS
  Worker,
  Settings,     \* the settings in which the program runs
  MaxRequests   \* bound

Packet == [msgCode : Nat, crc : {"good", "bad"}, body : {"none", "wrong", "right"}]

\* A setting says which workers there are, whether nginx.conf says Daemon, and what
\* clients send.
Setting == [workers : SUBSET Worker, Daemon : BOOLEAN, packets : SUBSET Packet]

ASSUME SettingsAssumption == \A s \in Settings : s.workers \subseteq Worker
                              /\ s.Daemon \in BOOLEAN /\ s.packets \subseteq Packet
ASSUME WorkersAssumption == IsFiniteSet(Worker)
ASSUME BoundAssumption == MaxRequests \in Nat

VARIABLES
  setting,    \* one from Settings, for the whole run of the program
  requests,   \* the packets taken so far; a request is known by its place
  at,         \* Worker -> "init", "idle", the handler or the call of MySQL's library
              \* that runs; "exited" and "crashed" are the ends of the process
  job,        \* Worker -> its request
  conn_,      \* mysql_real_connect succeeded
  parent,     \* the process that forked the daemon: "running" or "gone"
  status,     \* Worker -> its MYSQL object: "ready", "result" to be fetched, "lost"
  received,   \* Worker -> what its MYSQL object has received and not read
  pipe,       \* to MySQL: requests, and Quit
  session,    \* "open", "shut" by a process, "closed" by MySQL
  replies,    \* from MySQL
  executed,   \* what MySQL did for each request: "nothing", "done", "refused"
  answers     \* to the clients

vars == <<setting, requests, at, job, conn_, parent, status, received, pipe, session,
          replies, executed, answers>>

clientVars == <<status, received>>
mysqlVars == <<pipe, session, replies, executed>>
processVars == <<setting, conn_, parent>>

Quit == 0

\* ngx_logiccomm.h
_CMD_PING == 0
_CMD_REGISTER == 5
_CMD_LOGIN == 6
_CMD_ADD_BOOK == 1001
_CMD_REMOVE_BOOK == 1002
_CMD_CHECKOUT_BOOK == 1003
_CMD_RETURN_BOOK == 1004
_CMD_LIST_BOOKS == 1005

\* The first entry is the one for code 0.
statusHandler ==
  <<"_HandlePing", "NULL", "NULL", "NULL", "NULL", "_HandleRegister", "_HandleLogIn",
    "_HandleAddBook", "_HandleRemoveBook", "_HandleCheckOutBook", "_HandleReturnBook",
    "_HandleListBooks">>

AUTH_TOTAL_COMMANDS == Len(statusHandler)

Handler(msgCode) ==
  IF msgCode < AUTH_TOTAL_COMMANDS THEN statusHandler[msgCode + 1] ELSE "beyond"

\* The code a handler answers with.
AnswerCode ==
  [_HandlePing |-> _CMD_PING, _HandleRegister |-> _CMD_REGISTER,
   _HandleLogIn |-> _CMD_LOGIN, _HandleAddBook |-> _CMD_ADD_BOOK,
   _HandleRemoveBook |-> _CMD_REMOVE_BOOK, _HandleCheckOutBook |-> _CMD_CHECKOUT_BOOK,
   _HandleReturnBook |-> _CMD_RETURN_BOOK, _HandleListBooks |-> _CMD_LIST_BOOKS]

NumberHandlers == {"_HandleRemoveBook", "_HandleCheckOutBook", "_HandleReturnBook"}
BookHandlers == NumberHandlers \union {"_HandleAddBook", "_HandleListBooks"}
LibraryCalls == {"mysql_query", "mysql_store_result"}

Lists(i) == Handler(requests[i].msgCode) = "_HandleListBooks"

Init ==
  /\ setting \in Settings
  /\ requests = <<>>
  /\ at = [w \in Worker |-> "init"]
  /\ job = [w \in Worker |-> 0]
  /\ conn_ \in BOOLEAN
  /\ parent = IF setting.Daemon THEN "running" ELSE "gone"
  /\ status = [w \in Worker |-> "ready"]
  /\ received = [w \in Worker |-> <<>>]
  /\ pipe = <<>>
  /\ session = IF conn_ THEN "open" ELSE "closed"
  /\ replies = <<>>
  /\ executed = <<>>
  /\ answers = <<>>

-----------------------------------------------------------------------------
(* The processes *)

\* The end of the connection for all processes: MySQL reads what was sent before, and
\* what nobody has received yet may be lost.
ShutDown ==
  /\ session' = IF session = "open" THEN "shut" ELSE session
  /\ \E n \in 0..Len(replies) : replies' = SubSeq(replies, 1, n)

\* The destructor of LibraryManager calls mysql_close; it runs after mysql_library_end
\* and may not get as far as to say Quit, or to shut the socket down.
mysql_close ==
  \/ conn_ /\ pipe' = Append(pipe, Quit) /\ (ShutDown \/ UNCHANGED <<session, replies>>)
  \/ UNCHANGED <<pipe, session, replies>>

\* main returns in the process that forked the daemon.
ParentExits ==
  /\ parent = "running"
  /\ parent' = "gone"
  /\ mysql_close
  /\ UNCHANGED <<setting, requests, at, job, conn_, clientVars, executed, answers>>

\* A worker gets ready, or calls exit because the thread pool or the socket fails.
ngx_worker_process_init(w) ==
  /\ at[w] = "init"
  /\ \/ at' = [at EXCEPT ![w] = "idle"] /\ UNCHANGED <<pipe, session, replies>>
     \/ at' = [at EXCEPT ![w] = "exited"] /\ mysql_close
  /\ UNCHANGED <<requests, job, processVars, clientVars, executed, answers>>

-----------------------------------------------------------------------------
(* A pool thread *)

\* Variant: the last code is one too many.
InTableAndOneMore(p) == p.msgCode <= AUTH_TOTAL_COMMANDS

InTable(p) == p.msgCode < AUTH_TOTAL_COMMANDS

Passes(p) == p.crc = "good" /\ InTable(p) /\ Handler(p.msgCode) # "NULL"

\* The user of the connection may have gone, and iCurrsequence tells.
threadRecvProcFunc(w) ==
  /\ at[w] = "idle" /\ Len(requests) < MaxRequests
  /\ \E p \in setting.packets, gone \in BOOLEAN :
       /\ requests' = Append(requests, p)
       /\ IF Passes(p) /\ ~gone
          THEN /\ at' = [at EXCEPT ![w] = Handler(p.msgCode)]
               /\ job' = [job EXCEPT ![w] = Len(requests')]
          ELSE UNCHANGED <<at, job>>
  /\ executed' = Append(executed, "nothing")
  /\ UNCHANGED <<processVars, clientVars, pipe, session, replies, answers>>

Body(w) == requests[job[w]].body

\* The handler of w returns after it sent its answer.
Answer(w, text) ==
  /\ answers' = Append(answers, [request |-> job[w], text |-> text,
                                 msgCode |-> AnswerCode[Handler(requests[job[w]].msgCode)]])
  /\ at' = [at EXCEPT ![w] = "idle"]

Silent(w) ==
  /\ at' = [at EXCEPT ![w] = "idle"]
  /\ UNCHANGED answers

_HandlePing(w) ==
  /\ at[w] = "_HandlePing"
  /\ IF Body(w) = "none" THEN Answer(w, "none") ELSE Silent(w)
  /\ UNCHANGED <<requests, job, processVars, clientVars, mysqlVars>>

\* _HandleRegister and _HandleLogIn
_HandleUser(w) ==
  /\ at[w] \in {"_HandleRegister", "_HandleLogIn"}
  /\ IF Body(w) = "right" THEN Answer(w, "none") ELSE Silent(w)
  /\ UNCHANGED <<requests, job, processVars, clientVars, mysqlVars>>

\* Variant: a short body is dropped like that of the other handlers.
AddBookInvalidSilent(w) ==
  /\ at[w] = "_HandleAddBook" /\ Body(w) # "right"
  /\ Silent(w)
  /\ UNCHANGED <<requests, job, processVars, clientVars, mysqlVars>>

AddBookInvalid(w) ==
  /\ at[w] = "_HandleAddBook" /\ Body(w) # "right"
  /\ Answer(w, "invalid")
  /\ UNCHANGED <<requests, job, processVars, clientVars, mysqlVars>>

\* The answer to a book request; only AddBook has a result.
Feedback(i, ok) ==
  IF Handler(requests[i].msgCode) # "_HandleAddBook" THEN "none"
  ELSE IF ok THEN "success" ELSE "failure"

\* The handlers that read a number read it at pPkgBody, which is NULL for a packet that
\* is a header only: the process ends with SIGSEGV.
NullBody(w) ==
  /\ at[w] \in NumberHandlers /\ Body(w) = "none"
  /\ at' = [at EXCEPT ![w] = "crashed"]
  /\ received' = [received EXCEPT ![w] = <<>>]
  /\ UNCHANGED <<requests, job, processVars, status, mysqlVars, answers>>

\* The handler gets as far as to call the library.
HasBook(w) ==
  /\ at[w] \in BookHandlers
  /\ at[w] = "_HandleAddBook" => Body(w) = "right"
  /\ at[w] \in NumberHandlers => Body(w) # "none"

NotConnected(w) ==
  /\ ~conn_ /\ HasBook(w)
  /\ Answer(w, Feedback(job[w], FALSE))
  /\ UNCHANGED <<requests, job, processVars, clientVars, mysqlVars>>

\* mysql_query fails at once: the connection is lost, or commands are out of sync.
QueryFails(w) ==
  /\ conn_ /\ HasBook(w) /\ status[w] # "ready"
  /\ Answer(w, Feedback(job[w], FALSE))
  /\ UNCHANGED <<requests, job, processVars, clientVars, mysqlVars>>

\* mysql_query sends ...
SendQuery(w) ==
  /\ conn_ /\ HasBook(w) /\ status[w] = "ready"
  /\ at' = [at EXCEPT ![w] = "mysql_query"]
  /\ pipe' = Append(pipe, job[w])
  /\ UNCHANGED <<requests, job, processVars, clientVars, session, replies, executed, answers>>

\* ... and recv takes whatever has come, which may be more than one reply.
Recv(w) ==
  /\ at[w] \in LibraryCalls /\ received[w] = <<>> /\ replies # <<>>
  /\ \E n \in 1..Len(replies) :
       /\ received' = [received EXCEPT ![w] = SubSeq(replies, 1, n)]
       /\ replies' = SubSeq(replies, n + 1, Len(replies))
  /\ UNCHANGED <<requests, at, job, processVars, status, pipe, session, executed, answers>>

\* The next packet, and what the library expects.
Packet1(w) == Head(received[w]).part
Fits(w) == (at[w] = "mysql_query") <=> Packet1(w) # "rows"

Read(w) == received' = [received EXCEPT ![w] = Tail(@)]

\* Variant: the result of mysql_query is taken for its opposite.
ReadReplySwapped(w) ==
  /\ at[w] = "mysql_query" /\ received[w] # <<>> /\ Fits(w)
  /\ Read(w)
  /\ \/ /\ Packet1(w) = "columns" /\ status' = [status EXCEPT ![w] = "result"]
        /\ Lists(job[w])
        /\ at' = [at EXCEPT ![w] = "mysql_store_result"] /\ UNCHANGED answers
     \/ /\ Packet1(w) # "columns" /\ UNCHANGED status
        /\ Answer(w, Feedback(job[w], Packet1(w) = "error"))
  /\ UNCHANGED <<requests, job, processVars, mysqlVars>>

\* Variant: a query that MySQL refused is sent again.
ReadReplyRetry(w) ==
  /\ at[w] = "mysql_query" /\ received[w] # <<>> /\ Fits(w)
  /\ Read(w)
  /\ UNCHANGED <<requests, job, processVars, status, session, replies, executed>>
  /\ \/ Packet1(w) = "error" /\ pipe' = Append(pipe, job[w]) /\ UNCHANGED <<at, answers>>
     \/ Packet1(w) # "error" /\ Answer(w, Feedback(job[w], TRUE)) /\ UNCHANGED pipe

\* Variant: ListBooks leaves the rows.
ReadReplyOnly(w) ==
  /\ at[w] = "mysql_query" /\ received[w] # <<>> /\ Fits(w)
  /\ Read(w)
  /\ Answer(w, Feedback(job[w], Packet1(w) # "error"))
  /\ UNCHANGED <<requests, job, processVars, status, mysqlVars>>

\* mysql_query returns; only ListBooks fetches a result, if there is one.
ReadReply(w) ==
  /\ at[w] = "mysql_query" /\ received[w] # <<>> /\ Fits(w)
  /\ Read(w)
  /\ status' = [status EXCEPT ![w] = IF Packet1(w) = "columns" THEN "result" ELSE "ready"]
  /\ IF Packet1(w) = "columns" /\ Lists(job[w])
     THEN at' = [at EXCEPT ![w] = "mysql_store_result"] /\ UNCHANGED answers
     ELSE Answer(w, Feedback(job[w], Packet1(w) # "error"))
  /\ UNCHANGED <<requests, job, processVars, mysqlVars>>

\* mysql_store_result reads the rows, and ListBooks prints them.
StoreResult(w) ==
  /\ at[w] = "mysql_store_result" /\ received[w] # <<>> /\ Fits(w)
  /\ Read(w)
  /\ status' = [status EXCEPT ![w] = "ready"]
  /\ Answer(w, Feedback(job[w], TRUE))
  /\ UNCHANGED <<requests, job, processVars, mysqlVars>>

\* Packets are numbered: one that belongs to another's reply ends the connection.
OutOfOrder(w) ==
  /\ at[w] \in LibraryCalls /\ received[w] # <<>> /\ ~Fits(w)
  /\ received' = [received EXCEPT ![w] = <<>>]
  /\ status' = [status EXCEPT ![w] = "lost"]
  /\ pipe' = Append(pipe, Quit)
  /\ ShutDown
  /\ Answer(w, Feedback(job[w], FALSE))
  /\ UNCHANGED <<requests, job, processVars, executed>>

\* The connection has ended.
GoneAway(w) ==
  /\ at[w] \in LibraryCalls /\ received[w] = <<>> /\ replies = <<>> /\ session # "open"
  /\ status' = [status EXCEPT ![w] = "lost"]
  /\ Answer(w, Feedback(job[w], FALSE))
  /\ UNCHANGED <<requests, job, processVars, received, mysqlVars>>

Handles(w) ==
  \/ _HandlePing(w) \/ _HandleUser(w) \/ AddBookInvalid(w) \/ NullBody(w)
  \/ NotConnected(w) \/ QueryFails(w) \/ SendQuery(w) \/ Recv(w)
  \/ ReadReply(w) \/ StoreResult(w) \/ OutOfOrder(w) \/ GoneAway(w)

-----------------------------------------------------------------------------
(* MySQL *)

Reply(i, ok) ==
  IF ~ok THEN <<[request |-> i, part |-> "error"]>>
  ELSE IF Lists(i)
  THEN <<[request |-> i, part |-> "columns"], [request |-> i, part |-> "rows"]>>
  ELSE <<[request |-> i, part |-> "ok"]>>

Execute ==
  /\ session # "closed" /\ pipe # <<>> /\ Head(pipe) # Quit
  /\ \E ok \in BOOLEAN :
       /\ executed' = [executed EXCEPT ![Head(pipe)] = IF ok THEN "done" ELSE "refused"]
       /\ replies' = IF session = "open" THEN replies \o Reply(Head(pipe), ok) ELSE replies
  /\ pipe' = Tail(pipe)
  /\ UNCHANGED <<requests, at, job, processVars, clientVars, session, answers>>

Hangup ==
  /\ session # "closed" /\ pipe # <<>> /\ Head(pipe) = Quit
  /\ session' = "closed"
  /\ UNCHANGED <<requests, at, job, processVars, clientVars, pipe, replies, executed, answers>>

Next ==
  \/ \E w \in setting.workers :
       ngx_worker_process_init(w) \/ threadRecvProcFunc(w) \/ Handles(w)
  \/ Execute \/ Hangup \/ ParentExits

Fairness ==
  /\ \A w \in Worker : WF_vars(Handles(w))
  /\ WF_vars(Execute \/ Hangup)

Spec == Init /\ [][Next]_vars
FairSpec == Spec /\ Fairness

-----------------------------------------------------------------------------
(* Properties *)

Part == [request : 1..Len(requests), part : {"ok", "error", "columns", "rows"}]

TypeOK ==
  /\ setting \in Settings
  /\ requests \in Seq(setting.packets)
  /\ at \in [Worker -> {"init", "idle", "exited", "crashed", "_HandlePing",
                        "_HandleRegister", "_HandleLogIn"}
                       \union BookHandlers \union LibraryCalls]
  /\ job \in [Worker -> 0..Len(requests)]
  /\ conn_ \in BOOLEAN
  /\ parent \in {"running", "gone"}
  /\ status \in [Worker -> {"ready", "result", "lost"}]
  /\ received \in [Worker -> Seq(Part)]
  /\ pipe \in Seq(0..Len(requests))
  /\ session \in {"open", "shut", "closed"}
  /\ replies \in Seq(Part)
  /\ executed \in [1..Len(requests) -> {"nothing", "done", "refused"}]
  /\ answers \in Seq([request : 1..Len(requests), msgCode : Nat,
                      text : {"none", "invalid", "success",
                              "failure"}])

InPipe == {pipe[k] : k \in DOMAIN pipe} \ {Quit}

\* The feedback of AddBook says what became of the book; when the connection ends
\* before the reply is there, a failure may be the loss of the reply.
FeedbackTrue ==
  \A k \in DOMAIN answers :
    /\ answers[k].text = "success" => executed[answers[k].request] = "done"
    /\ answers[k].text = "failure" =>
         executed[answers[k].request] # "done" \/ session # "open"

\* By the time the client of a book request has an answer, MySQL has executed the
\* request, unless it was refused for its length or the connection has ended.
ExecutedBeforeAnswer ==
  \A k \in DOMAIN answers :
    LET i == answers[k].request IN
      \/ executed[i] # "nothing"
      \/ Handler(requests[i].msgCode) \notin BookHandlers
      \/ answers[k].text = "invalid"
      \/ session # "open"

\* MySQL executes only what a packet asked for that passed every test; and while one
\* process alone uses the connection to MySQL, answers come after the execution and
\* are true.
AnswersTrueAlone ==
  /\ \A i \in DOMAIN requests :
       executed[i] # "nothing" =>
         Passes(requests[i]) /\ Handler(requests[i].msgCode) \in BookHandlers
  /\ Cardinality(setting.workers) = 1 => FeedbackTrue /\ ExecutedBeforeAnswer

\* What is there for w to read.
Coming(w) == received[w] \o replies

\* A process that is alone on the connection stays in step with MySQL: outside of
\* mysql_query and mysql_store_result nothing is left of a query, no rows, no result to
\* be fetched and no query on its way; inside of them what comes is the packet that the
\* call expects, of the request in hand, and while the connection is open there is one
\* to come.
InStep(w) ==
  /\ at[w] \notin LibraryCalls =>
       /\ Coming(w) = <<>> /\ status[w] # "result"
       /\ session = "open" => InPipe = {}
  /\ at[w] \in LibraryCalls =>
       /\ Coming(w) # <<>> => /\ Head(Coming(w)).request = job[w]
                              /\ Head(Coming(w)).part = "rows" <=> at[w] = "mysql_store_result"
       /\ session = "open" => Coming(w) # <<>> \/ InPipe = {job[w]}

InStepAlone == \A w \in Worker : setting.workers = {w} => InStep(w)

\* A thread of a process that is alone on the connection gets back to the thread pool
\* from every request, unless it is one that ends the process.
HandlersReturn ==
  \A w \in Worker :
    setting.workers = {w} /\ job[w] # 0 ~> at[w] \in {"idle", "crashed"}

\* When the thread is done with a book request its client has exactly one answer, and a
\* request that ends the process has none.
BooksAnsweredOnce ==
  \A w \in Worker :
    job[w] # 0 /\ Handler(requests[job[w]].msgCode) \in BookHandlers =>
      LET n == Cardinality({k \in DOMAIN answers : answers[k].request = job[w]}) IN
        n = IF at[w] = "idle" THEN 1 ELSE 0

-----------------------------------------------------------------------------
(* The inductive invariant that the proofs use. *)

IsBook(i) == Passes(requests[i]) /\ Handler(requests[i].msgCode) \in BookHandlers

Answered == {answers[k].request : k \in DOMAIN answers}

Ended == {"init", "idle", "exited"}

\* A thread that does not wait for requests works on one of its own, which passed.
Jobs ==
  /\ \A w \in Worker : job[w] # 0 =>
       Passes(requests[job[w]]) /\ at[w] \notin {"init", "exited"}
  /\ \A w \in Worker : at[w] \notin Ended =>
       /\ job[w] # 0
       /\ \/ at[w] = Handler(requests[job[w]].msgCode)
          \/ at[w] \in LibraryCalls \union {"crashed"} /\ IsBook(job[w])
  /\ \A w, v \in Worker : job[w] = job[v] /\ job[w] # 0 => w = v
  /\ \A w \in Worker : w \notin setting.workers => at[w] = "init"

\* What a packet from MySQL says of the request it belongs to.
PartTrue(p) ==
  /\ executed[p.request] = IF p.part = "error" THEN "refused" ELSE "done"
  /\ p.part \in {"columns", "rows"} => Lists(p.request)
  /\ p.part = "ok" => ~Lists(p.request)

\* MySQL gets a request once, and nothing of the other requests.
Queries ==
  /\ \A k, l \in DOMAIN pipe : pipe[k] = pipe[l] /\ pipe[k] # Quit => k = l
  /\ \A i \in InPipe : IsBook(i) /\ executed[i] = "nothing"
  /\ \A w \in Worker : at[w] \in BookHandlers =>
       job[w] \notin InPipe /\ executed[job[w]] = "nothing"
  /\ \A i \in DOMAIN requests : executed[i] # "nothing" => IsBook(i)
  /\ \A p \in ToSet(replies) : PartTrue(p)
  /\ \A w \in Worker : \A p \in ToSet(received[w]) : PartTrue(p)
  /\ ~conn_ => session = "closed"

\* A request is answered once, by the end of its handler.
Answering ==
  /\ \A k, l \in DOMAIN answers : answers[k].request = answers[l].request => k = l
  /\ \A w \in Worker : job[w] # 0 =>
       IF at[w] = "idle" THEN IsBook(job[w]) => job[w] \in Answered
                         ELSE job[w] \notin Answered

\* How long a reply is, of which this is the rest.
Size(rest) == IF rest[1].part = "columns" THEN 2 ELSE 1

\* What one process alone finds on the connection is the reply to its query, or the rest
\* of it; the end of the connection may cut it.
TakesItsOwnReply ==
  \A w \in Worker : setting.workers = {w} =>
    /\ at[w] \notin LibraryCalls =>
         /\ Coming(w) = <<>> /\ status[w] # "result"
         /\ InPipe = {} \/ status[w] = "lost"
    /\ at[w] \in LibraryCalls =>
         /\ InPipe \subseteq {job[w]}
         /\ \A k \in DOMAIN Coming(w) :
              /\ Coming(w)[k].request = job[w]
              /\ Coming(w)[k].part = "rows" <=> k = (IF at[w] = "mysql_query" THEN 2 ELSE 1)
         /\ Coming(w) # <<>> =>
              /\ Len(Coming(w)) <= Size(Coming(w))
              /\ session = "open" => Len(Coming(w)) = Size(Coming(w))
         /\ Coming(w) = <<>> /\ session = "open" => at[w] = "mysql_query" /\ InPipe = {job[w]}
    /\ at[w] = "mysql_store_result" => Lists(job[w])
    /\ status[w] = "lost" => session # "open"
    /\ FeedbackTrue
    /\ ExecutedBeforeAnswer

IInv ==
  /\ TypeOK
  /\ Jobs
  /\ Queries
  /\ Answering
  /\ TakesItsOwnReply
=============================================================================
