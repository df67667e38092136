--------------------------- MODULE Requests_proofs ---------------------------
(***************************************************************************)
(* Proofs about the handlers and their shared connection to MySQL, for any *)
(* number of worker processes, any packets and any number of requests.     *)
(***************************************************************************)
EXTENDS Requests, QueueFacts, FiniteSetTheorems, SequenceTheorems, TLAPS

(* The table of handlers *)

Plain == {"_HandlePing", "_HandleRegister", "_HandleLogIn"}
Steps == Plain \cup BookHandlers \cup LibraryCalls
Texts == {"none", "invalid", "success", "failure"}

\* The table statusHandler has a handler and an answer for each code that passes.
LEMMA HandlerFacts ==
  ASSUME NEW p \in Packet, Passes(p)
  PROVE  /\ Handler(p.msgCode) \in Plain \cup BookHandlers
         /\ AnswerCode[Handler(p.msgCode)] \in Nat
<1>1. p.msgCode \in Nat /\ p.msgCode < 12 /\ Handler(p.msgCode) # "NULL"
      /\ Handler(p.msgCode) = statusHandler[p.msgCode + 1]
  BY DEF Packet, Passes, InTable, AUTH_TOTAL_COMMANDS, statusHandler, Handler
<1>2. p.msgCode \in {0, 1, 2, 3, 4, 5, 6, 7, 8, 9, 10, 11}
  BY <1>1
<1>3. Handler(p.msgCode) \in Plain \cup BookHandlers
  BY <1>1, <1>2 DEF statusHandler, Plain, BookHandlers, NumberHandlers
<1>4. \A h \in Plain \cup BookHandlers : AnswerCode[h] \in Nat
  BY DEF AnswerCode, Plain, BookHandlers, NumberHandlers, _CMD_PING, _CMD_REGISTER, _CMD_LOGIN,
         _CMD_ADD_BOOK, _CMD_REMOVE_BOOK, _CMD_CHECKOUT_BOOK, _CMD_RETURN_BOOK, _CMD_LIST_BOOKS
<1> QED BY <1>3, <1>4

\* Workers and packets of a setting are those of the constants.
LEMMA SettingFacts ==
  ASSUME TypeOK
  PROVE  setting.workers \subseteq Worker /\ setting.packets \subseteq Packet
BY SettingsAssumption DEF TypeOK

\* What the states of a worker are.
LEMMA AtFacts ==
  /\ Plain \cap BookHandlers = {} /\ NumberHandlers \subseteq BookHandlers
  /\ LibraryCalls \cap (Plain \cup BookHandlers) = {}
  /\ (Ended \cup {"crashed"}) \cap Steps = {}
BY DEF Plain, BookHandlers, NumberHandlers, LibraryCalls, Ended, Steps

\* What a thread in a handler works on.
LEMMA AtWork ==
  ASSUME TypeOK, Jobs, NEW w \in Worker, at[w] \in Steps
  PROVE  /\ job[w] \in 1..Len(requests)
         /\ requests[job[w]] \in Packet
         /\ AnswerCode[Handler(requests[job[w]].msgCode)] \in Nat
         /\ at[w] \in Plain => Handler(requests[job[w]].msgCode) \notin BookHandlers
         /\ at[w] \notin Plain => IsBook(job[w])
         /\ w \in setting.workers
<1>1. job[w] \in 1..Len(requests) /\ requests \in Seq(setting.packets) /\ at[w] \notin Ended
  BY AtFacts DEF TypeOK, Jobs
<1>2. requests[job[w]] \in Packet
  BY <1>1, SettingFacts
<1>3. Passes(requests[job[w]]) /\ w \in setting.workers
  BY <1>1 DEF Jobs, Ended
<1>4. at[w] \notin Plain => IsBook(job[w])
  BY <1>1, <1>2, <1>3, AtFacts, HandlerFacts DEF Jobs, IsBook, Steps
<1>5. at[w] \in Plain => Handler(requests[job[w]].msgCode) \notin BookHandlers
  BY <1>1, AtFacts DEF Jobs, Steps
<1> QED BY <1>1, <1>2, <1>3, <1>4, <1>5, HandlerFacts

(* The steps *)

\* A thread takes a packet, and may start its handler.
LEMMA RecvFacts ==
  ASSUME TypeOK, NEW w \in Worker, threadRecvProcFunc(w)
  PROVE  LET n == Len(requests) IN
         /\ n \in Nat /\ Len(requests') = n + 1 /\ at[w] = "idle"
         /\ requests' \in Seq(setting.packets)
         /\ \A i \in 1..n : requests'[i] = requests[i] /\ executed'[i] = executed[i]
                            /\ (IsBook(i)' <=> IsBook(i))
         /\ executed' \in [1..(n + 1) -> {"nothing", "done", "refused"}]
         /\ executed'[n + 1] = "nothing"
         /\ UNCHANGED <<setting, conn_, parent, status, received, pipe, session, replies, answers>>
         /\ \/ UNCHANGED <<at, job>>
            \/ /\ Passes(requests'[n + 1])
               /\ at' = [at EXCEPT ![w] = Handler(requests'[n + 1].msgCode)]
               /\ job' = [job EXCEPT ![w] = n + 1]
<1> DEFINE n == Len(requests)
           E == {"nothing", "done", "refused"}
<1>1. n \in Nat /\ requests \in Seq(setting.packets) /\ executed \in [1..n -> E]
  BY DEF TypeOK
<1>2. PICK p \in setting.packets :
        /\ requests' = Append(requests, p)
        /\ \/ UNCHANGED <<at, job>>
           \/ /\ Passes(p)
              /\ at' = [at EXCEPT ![w] = Handler(p.msgCode)]
              /\ job' = [job EXCEPT ![w] = Len(requests')]
  BY DEF threadRecvProcFunc
<1>3. /\ requests' \in Seq(setting.packets) /\ Len(requests') = n + 1
      /\ \A i \in 1..n : requests'[i] = requests[i]
      /\ requests'[n + 1] = p
  BY <1>1, <1>2
<1>4. executed \in Seq(E) /\ Len(executed) = n
  BY <1>1
<1>5. executed' = Append(executed, "nothing") /\ at[w] = "idle"
      /\ UNCHANGED <<setting, conn_, parent, status, received, pipe, session, replies, answers>>
  BY DEF threadRecvProcFunc, processVars, clientVars
<1>6. /\ executed' \in [1..(n + 1) -> E] /\ executed'[n + 1] = "nothing"
      /\ \A i \in 1..n : executed'[i] = executed[i]
  <2>1. "nothing" \in E
    OBVIOUS
  <2> HIDE DEF E
  <2>2. /\ executed' \in Seq(E) /\ Len(executed') = n + 1 /\ executed'[n + 1] = "nothing"
        /\ \A i \in 1..n : executed'[i] = executed[i]
    BY <1>4, <1>5, <2>1
  <2>3. executed' \in [1..(n + 1) -> E]
    BY <2>2
  <2> QED BY <2>2, <2>3
<1>7. \A i \in 1..n : IsBook(i)' <=> IsBook(i)
  BY <1>3 DEF IsBook
<1> QED BY <1>1, <1>2, <1>3, <1>5, <1>6, <1>7

\* A handler ends without an answer, or with one.
Quiet == UNCHANGED <<status, received, pipe, session, replies>>

Drops(w) ==
  /\ at[w] \in Plain /\ Silent(w) /\ Quiet
  /\ UNCHANGED <<requests, job, processVars, executed>>

Fetches(w) == Packet1(w) = "columns" /\ Lists(job[w])

Ends(w, text) ==
  /\ at[w] \in Steps /\ text \in Texts /\ Answer(w, text)
  /\ UNCHANGED <<requests, job, processVars, executed>>
  /\ \/ text = "none" /\ at[w] \in Plain /\ Quiet
     \/ text = "invalid" /\ at[w] \in BookHandlers /\ Quiet
     \/ /\ text = Feedback(job[w], FALSE) /\ at[w] \in BookHandlers /\ Quiet
        /\ ~conn_ \/ status[w] # "ready"
     \/ text = Feedback(job[w], FALSE) /\ GoneAway(w)
     \/ text = Feedback(job[w], FALSE) /\ OutOfOrder(w)
     \/ text = Feedback(job[w], Packet1(w) # "error") /\ ReadReply(w) /\ ~Fetches(w)
     \/ text = Feedback(job[w], TRUE) /\ StoreResult(w)

\* The steps that neither take a packet nor send or execute a query.
Others ==
  \/ \E w \in setting.workers : Drops(w) \/ NullBody(w) \/ Recv(w)
                                \/ ngx_worker_process_init(w)
  \/ \E w \in setting.workers : ReadReply(w) /\ Fetches(w)
  \/ \E w \in setting.workers, text \in Texts : Ends(w, text)
  \/ Hangup \/ ParentExits \/ UNCHANGED vars

\* What a step can be, by the part of the state it changes.
LEMMA AllSteps ==
  ASSUME [Next]_vars
  PROVE  \/ \E w \in setting.workers : threadRecvProcFunc(w) \/ SendQuery(w)
         \/ Execute \/ Others
<1>1. ASSUME NEW w \in setting.workers, Handles(w)
      PROVE  \/ Drops(w) \/ NullBody(w) \/ Recv(w) \/ SendQuery(w)
             \/ ReadReply(w) /\ Fetches(w)
             \/ \E text \in Texts : Ends(w, text)
  <2>1. CASE _HandlePing(w) \/ _HandleUser(w)
    BY <2>1 DEF _HandlePing, _HandleUser, Drops, Ends, Quiet, Plain, Steps, Texts, mysqlVars,
                clientVars
  <2>2. CASE AddBookInvalid(w)
    BY <2>2 DEF AddBookInvalid, Ends, Quiet, BookHandlers, Steps, Texts, mysqlVars, clientVars
  <2>3. \A i, ok : Feedback(i, ok) \in Texts
    BY DEF Feedback, Texts
  <2>4. CASE NotConnected(w) \/ QueryFails(w)
    BY <2>3, <2>4 DEF NotConnected, QueryFails, HasBook, Ends, Quiet, Steps, mysqlVars, clientVars
  <2>5. CASE ReadReply(w) /\ ~Fetches(w)
    <3>1. at[w] \in Steps /\ Answer(w, Feedback(job[w], Packet1(w) # "error"))
          /\ UNCHANGED <<requests, job, processVars, executed>>
      BY <2>5 DEF ReadReply, Fetches, Steps, LibraryCalls, mysqlVars
    <3> QED BY <2>3, <2>5, <3>1 DEF Ends
  <2>6. CASE GoneAway(w)
    <3>1. at[w] \in Steps /\ Answer(w, Feedback(job[w], FALSE))
          /\ UNCHANGED <<requests, job, processVars, executed>>
      BY <2>6 DEF GoneAway, Steps, mysqlVars
    <3> QED BY <2>3, <2>6, <3>1 DEF Ends
  <2>7. CASE StoreResult(w)
    <3>1. at[w] \in Steps /\ Answer(w, Feedback(job[w], TRUE))
          /\ UNCHANGED <<requests, job, processVars, executed>>
      BY <2>7 DEF StoreResult, Steps, LibraryCalls, mysqlVars
    <3> QED BY <2>3, <2>7, <3>1 DEF Ends
  <2>8. CASE OutOfOrder(w)
    <3>1. at[w] \in Steps /\ Answer(w, Feedback(job[w], FALSE))
          /\ UNCHANGED <<requests, job, processVars, executed>>
      BY <2>8 DEF OutOfOrder, Steps
    <3> QED BY <2>3, <2>8, <3>1 DEF Ends
  <2> QED BY <1>1, <2>1, <2>2, <2>4, <2>5, <2>6, <2>7, <2>8 DEF Handles
<1> QED BY <1>1 DEF Next, Others

\* The answer that is added.
LEMMA EndFacts ==
  ASSUME TypeOK, Jobs, NEW w \in Worker, NEW text \in Texts, Ends(w, text)
  PROVE  LET n == Len(answers) IN
         /\ n \in Nat /\ Len(answers') = n + 1
         /\ answers' \in Seq([request : 1..Len(requests), msgCode : Nat, text : Texts])
         /\ \A k \in 1..n : answers'[k] = answers[k]
         /\ answers'[n + 1].request = job[w] /\ answers'[n + 1].text = text
         /\ DOMAIN answers = 1..n /\ DOMAIN answers' = 1..(n + 1)
         /\ at[w] \in Steps /\ at' = [at EXCEPT ![w] = "idle"]
         /\ UNCHANGED <<requests, job, setting, conn_, parent, executed>>
<1> DEFINE n == Len(answers)
           A == [request : 1..Len(requests), msgCode : Nat, text : Texts]
           a == [request |-> job[w], text |-> text,
                 msgCode |-> AnswerCode[Handler(requests[job[w]].msgCode)]]
<1>1. answers' = Append(answers, a) /\ at' = [at EXCEPT ![w] = "idle"] /\ at[w] \in Steps
      /\ UNCHANGED <<requests, job, setting, conn_, parent, executed>>
  BY DEF Ends, Answer, processVars
<1>2. answers \in Seq(A)
  BY DEF TypeOK, Texts
<1>3. a \in A
  BY <1>1, AtWork
<1>4. a.request = job[w] /\ a.text = text
  OBVIOUS
<1> HIDE DEF A, a
<1>5. /\ n \in Nat /\ Len(answers') = n + 1 /\ answers' \in Seq(A)
      /\ \A k \in 1..n : answers'[k] = answers[k]
      /\ answers'[n + 1] = a
      /\ DOMAIN answers = 1..n /\ DOMAIN answers' = 1..(n + 1)
  BY <1>1, <1>2, <1>3
<1> QED BY <1>1, <1>4, <1>5 DEF A

(* What is on the way from MySQL *)

\* Parts of a list, and two lists in a row.
LEMMA Cut ==
  ASSUME NEW S, NEW s \in Seq(S), NEW n \in 0..Len(s)
  PROVE  /\ SubSeq(s, 1, n) \in Seq(S) /\ Len(SubSeq(s, 1, n)) = n
         /\ \A k \in 1..n : SubSeq(s, 1, n)[k] = s[k]
         /\ SubSeq(s, n + 1, Len(s)) \in Seq(S) /\ Len(SubSeq(s, n + 1, Len(s))) = Len(s) - n
         /\ \A k \in 1..(Len(s) - n) : SubSeq(s, n + 1, Len(s))[k] = s[n + k]
<1>1. Len(s) \in Nat /\ n \in Nat /\ n <= Len(s) /\ n + 1 \in Nat \ {0} /\ Len(s) \in 0..Len(s)
  OBVIOUS
<1>2. /\ SubSeq(s, 1, n) \in Seq(S)
      /\ Len(SubSeq(s, 1, n)) = IF 1 <= n THEN n - 1 + 1 ELSE 0
      /\ \A k \in Nat \ {0} : 1 + k - 1 <= n => SubSeq(s, 1, n)[k] = s[1 + k - 1]
  BY <1>1, PartOfList, PartsAre
<1>3. /\ SubSeq(s, n + 1, Len(s)) \in Seq(S)
      /\ Len(SubSeq(s, n + 1, Len(s))) = IF n + 1 <= Len(s) THEN Len(s) - (n + 1) + 1 ELSE 0
      /\ \A k \in Nat \ {0} : (n + 1) + k - 1 <= Len(s) =>
           SubSeq(s, n + 1, Len(s))[k] = s[(n + 1) + k - 1]
  BY <1>1, PartOfList, PartsAre
<1> HIDE DEF SubSeq
<1>4. \A k \in 1..n : 1 + k - 1 = k /\ k \in Nat \ {0} /\ k <= n
  BY <1>1
<1>5. \A k \in 1..(Len(s) - n) : (n + 1) + k - 1 = n + k /\ k \in Nat \ {0} /\ n + k <= Len(s)
  BY <1>1
<1>6. (IF 1 <= n THEN n - 1 + 1 ELSE 0) = n
  BY <1>1
<1>7. (IF n + 1 <= Len(s) THEN Len(s) - (n + 1) + 1 ELSE 0) = Len(s) - n
  BY <1>1
<1> QED BY <1>2, <1>3, <1>4, <1>5, <1>6, <1>7

LEMMA CutSet ==
  ASSUME NEW S, NEW s \in Seq(S), NEW n \in 0..Len(s)
  PROVE  ToSet(SubSeq(s, 1, n)) \subseteq ToSet(s)
         /\ ToSet(SubSeq(s, n + 1, Len(s))) \subseteq ToSet(s)
<1> DEFINE a == SubSeq(s, 1, n)
           b == SubSeq(s, n + 1, Len(s))
<1>1. /\ a \in Seq(S) /\ Len(a) = n /\ \A k \in 1..n : a[k] = s[k]
      /\ b \in Seq(S) /\ Len(b) = Len(s) - n /\ \A k \in 1..(Len(s) - n) : b[k] = s[n + k]
  BY Cut
<1> HIDE DEF a, b
<1>2. DOMAIN a = 1..n /\ DOMAIN b = 1..(Len(s) - n) /\ DOMAIN s = 1..Len(s)
  BY <1>1
<1>3. \A k \in 1..n : k \in 1..Len(s)
  OBVIOUS
<1>4. \A k \in 1..(Len(s) - n) : n + k \in 1..Len(s)
  OBVIOUS
<1> QED BY <1>1, <1>2, <1>3, <1>4 DEF ToSet, a, b

LEMMA TailSet ==
  ASSUME NEW S, NEW s \in Seq(S), s # <<>>
  PROVE  /\ Tail(s) \in Seq(S) /\ Len(s) \in Nat \ {0} /\ Len(Tail(s)) = Len(s) - 1
         /\ \A k \in 1..(Len(s) - 1) : Tail(s)[k] = s[k + 1]
         /\ ToSet(Tail(s)) \subseteq ToSet(s) /\ Head(s) = s[1] /\ Head(s) \in ToSet(s)
<1> DEFINE r == Tail(s)
<1>1. /\ Len(s) \in Nat \ {0} /\ r \in Seq(S) /\ Len(r) = Len(s) - 1
      /\ \A i \in 1..(Len(s) - 1) : r[i] = s[i + 1]
      /\ DOMAIN s = 1..Len(s) /\ DOMAIN r = 1..(Len(s) - 1) /\ Head(s) = s[1]
  OBVIOUS
<1> HIDE DEF r
<1>2. 1 \in 1..Len(s) /\ \A i \in 1..(Len(s) - 1) : i + 1 \in 1..Len(s)
  BY <1>1
<1> QED BY <1>1, <1>2 DEF ToSet, r

LEMMA InARow ==
  ASSUME NEW S, NEW r \in Seq(S), NEW s \in Seq(S)
  PROVE  /\ r \o s \in Seq(S) /\ Len(r \o s) = Len(r) + Len(s)
         /\ \A k \in 1..(Len(r) + Len(s)) :
              (r \o s)[k] = IF k <= Len(r) THEN r[k] ELSE s[k - Len(r)]
         /\ ToSet(r \o s) = ToSet(r) \cup ToSet(s)
<1> DEFINE c == r \o s
<1>1. /\ c \in Seq(S) /\ Len(c) = Len(r) + Len(s)
      /\ \A k \in 1..(Len(r) + Len(s)) : c[k] = IF k <= Len(r) THEN r[k] ELSE s[k - Len(r)]
  BY ConcatProperties
<1> HIDE DEF c
<1>2. DOMAIN c = 1..(Len(r) + Len(s)) /\ DOMAIN r = 1..Len(r) /\ DOMAIN s = 1..Len(s)
      /\ Len(r) \in Nat /\ Len(s) \in Nat
  BY <1>1
<1>3. ToSet(c) \subseteq ToSet(r) \cup ToSet(s)
  <2>1. \A k \in 1..(Len(r) + Len(s)) : k <= Len(r) => k \in 1..Len(r)
    BY <1>2
  <2>2. \A k \in 1..(Len(r) + Len(s)) : ~(k <= Len(r)) => k - Len(r) \in 1..Len(s)
    BY <1>2
  <2> QED BY <1>1, <1>2, <2>1, <2>2 DEF ToSet
<1>4. ToSet(r) \cup ToSet(s) \subseteq ToSet(c)
  <2>1. \A k \in 1..Len(r) : k \in 1..(Len(r) + Len(s)) /\ k <= Len(r)
    BY <1>2
  <2>2. \A k \in 1..Len(s) : /\ Len(r) + k \in 1..(Len(r) + Len(s)) /\ ~(Len(r) + k <= Len(r))
                             /\ (Len(r) + k) - Len(r) = k
    BY <1>2
  <2>3. ASSUME NEW k \in 1..Len(r) PROVE r[k] \in ToSet(c)
    BY <1>1, <1>2, <2>1 DEF ToSet
  <2>4. ASSUME NEW k \in 1..Len(s) PROVE s[k] \in ToSet(c)
    <3>1. c[Len(r) + k] = s[k] /\ Len(r) + k \in DOMAIN c
      BY <1>1, <1>2, <2>2
    <3> QED BY <3>1 DEF ToSet
  <2> QED BY <1>2, <2>3, <2>4 DEF ToSet
<1> QED BY <1>1, <1>3, <1>4 DEF c

\* The two lists that hold what w gets from MySQL, and the packets.
LEMMA PacketTypes ==
  ASSUME TypeOK
  PROVE  /\ replies \in Seq(Part) /\ received \in [Worker -> Seq(Part)]
         /\ \A p \in Part : p.request \in 1..Len(requests)
                            /\ p.part \in {"ok", "error", "columns", "rows"}
         /\ ToSet(replies) \subseteq Part
         /\ \A w \in Worker : ToSet(received[w]) \subseteq Part
         /\ setting.workers \subseteq Worker
<1>1. replies \in Seq(Part) /\ received \in [Worker -> Seq(Part)]
  BY DEF TypeOK
<1>2. \A s \in Seq(Part) : ToSet(s) \subseteq Part
  BY ToSetFinite
<1> QED BY <1>1, <1>2, SettingFacts DEF Part

\* What MySQL answers.
LEMMA ReplyFacts ==
  ASSUME NEW i \in 1..Len(requests), NEW ok \in BOOLEAN
  PROVE  /\ Reply(i, ok) \in Seq(Part) /\ Reply(i, ok) # <<>>
         /\ Len(Reply(i, ok)) = Size(Reply(i, ok))
         /\ \A k \in 1..Len(Reply(i, ok)) :
              /\ Reply(i, ok)[k].request = i
              /\ Reply(i, ok)[k].part = "rows" <=> k = 2
              /\ Reply(i, ok)[k].part = "error" <=> ~ok
              /\ Reply(i, ok)[k].part \in {"columns", "rows"} => Lists(i)
              /\ Reply(i, ok)[k].part = "ok" => ~Lists(i)
<1> DEFINE P(x) == [request |-> i, part |-> x]
           r == Reply(i, ok)
<1>1. \A x \in {"ok", "error", "columns", "rows"} :
        P(x) \in Part /\ P(x).request = i /\ P(x).part = x
  BY DEF Part
<1>2. \/ ~ok /\ r = <<P("error")>>
      \/ ok /\ Lists(i) /\ r = <<P("columns"), P("rows")>>
      \/ ok /\ ~Lists(i) /\ r = <<P("ok")>>
  BY DEF Reply
<1>p. P("error").part = "error" /\ P("ok").part = "ok" /\ "error" # "columns" /\ "ok" # "columns"
  OBVIOUS
<1> HIDE DEF P, r, Part
<1>3. ASSUME NEW p \in Part, NEW q \in Part
      PROVE  /\ <<p>> \in Seq(Part) /\ Len(<<p>>) = 1 /\ <<p>>[1] = p
             /\ <<p, q>> \in Seq(Part) /\ Len(<<p, q>>) = 2
             /\ <<p, q>>[1] = p /\ <<p, q>>[2] = q
  OBVIOUS
<1>4. 1..1 = {1} /\ 1..2 = {1, 2}
  OBVIOUS
<1>5. CASE ~ok /\ r = <<P("error")>>
  <2>1. r \in Seq(Part) /\ Len(r) = 1 /\ r[1] = P("error")
    BY <1>1, <1>3, <1>5
  <2>2. Len(r) = Size(r) /\ r # <<>>
    BY <1>p, <2>1 DEF Size
  <2> QED BY <1>1, <1>4, <1>5, <2>1, <2>2 DEF r
<1>6. CASE ok /\ Lists(i) /\ r = <<P("columns"), P("rows")>>
  <2>1. r \in Seq(Part) /\ Len(r) = 2 /\ r[1] = P("columns") /\ r[2] = P("rows")
    BY <1>1, <1>3, <1>6
  <2>2. Len(r) = Size(r) /\ r # <<>>
    BY <1>1, <2>1 DEF Size
  <2> QED BY <1>1, <1>4, <1>6, <2>1, <2>2 DEF r
<1>7. CASE ok /\ ~Lists(i) /\ r = <<P("ok")>>
  <2>1. r \in Seq(Part) /\ Len(r) = 1 /\ r[1] = P("ok")
    BY <1>1, <1>3, <1>7
  <2>2. Len(r) = Size(r) /\ r # <<>>
    BY <1>p, <2>1 DEF Size
  <2>3. \A k \in 1..Len(r) : r[k].request = i /\ r[k].part = "ok" /\ k # 2
    BY <1>1, <1>4, <2>1
  <2> QED BY <1>7, <2>1, <2>2, <2>3 DEF r
<1> QED BY <1>2, <1>5, <1>6, <1>7

\* The connection is shut, or nothing happens to what comes.
ShutOrNot == ShutDown \/ UNCHANGED <<session, replies>>

LEMMA ShutFacts ==
  ASSUME TypeOK, ShutOrNot
  PROVE  /\ replies' \in Seq(Part) /\ ToSet(replies') \subseteq ToSet(replies)
         /\ session' \in {"open", "shut", "closed"}
         /\ session' = session \/ session' = "shut"
         /\ session = "closed" => session' = "closed"
         /\ session' = "open" => UNCHANGED <<session, replies>>
<1>1. replies \in Seq(Part) /\ session \in {"open", "shut", "closed"}
  BY DEF TypeOK
<1>2. CASE ShutDown
  <2>1. PICK n \in 0..Len(replies) : replies' = SubSeq(replies, 1, n)
    BY <1>2 DEF ShutDown
  <2>2. replies' \in Seq(Part) /\ ToSet(replies') \subseteq ToSet(replies)
    BY <1>1, <2>1, Cut, CutSet
  <2>3. session' = IF session = "open" THEN "shut" ELSE session
    BY <1>2 DEF ShutDown
  <2> QED BY <1>1, <2>2, <2>3
<1> QED BY <1>1, <1>2 DEF ShutOrNot

\* Other steps change the answers and the workers, and bring packets nearer.
LEMMA OthersFacts ==
  ASSUME TypeOK, Others
  PROVE  /\ UNCHANGED <<requests, job, setting, conn_, executed>>
         /\ pipe' = pipe \/ pipe' = Append(pipe, Quit)
         /\ session' \in {"open", "shut", "closed"}
         /\ session = "closed" => session' = "closed"
         /\ session' = "open" => session = "open"
         /\ replies' \in Seq(Part) /\ received' \in [Worker -> Seq(Part)]
         /\ ToSet(replies') \subseteq ToSet(replies)
         /\ \A w \in Worker :
              ToSet(received'[w]) \subseteq ToSet(received[w]) \cup ToSet(replies)
<1> DEFINE Held == /\ replies' \in Seq(Part) /\ received' \in [Worker -> Seq(Part)]
                   /\ ToSet(replies') \subseteq ToSet(replies)
                   /\ \A w \in Worker :
                        ToSet(received'[w]) \subseteq ToSet(received[w]) \cup ToSet(replies)
           Same == UNCHANGED <<requests, job, setting, conn_, executed>>
           Line == /\ pipe' = pipe \/ pipe' = Append(pipe, Quit)
                   /\ session' \in {"open", "shut", "closed"}
                   /\ session = "closed" => session' = "closed"
                   /\ session' = "open" => session = "open"
<1>t. replies \in Seq(Part) /\ received \in [Worker -> Seq(Part)]
      /\ session \in {"open", "shut", "closed"} /\ setting.workers \subseteq Worker
  BY PacketTypes DEF TypeOK
<1>n. \A S : <<>> \in Seq(S) /\ ToSet(<<>>) = {}
  BY DEF ToSet
<1>l. UNCHANGED <<pipe, session>> => Line
  BY <1>t
<1>h. UNCHANGED <<replies, received>> => Held
  BY <1>t
<1>s. ASSUME ShutOrNot, UNCHANGED pipe \/ pipe' = Append(pipe, Quit)
      PROVE  Line /\ (UNCHANGED received => Held)
  BY <1>s, <1>t, ShutFacts
<1>r. ASSUME NEW w \in Worker, received[w] # <<>>, Read(w), UNCHANGED replies PROVE Held
  <2>1. received' = [received EXCEPT ![w] = Tail(received[w])]
    BY <1>r DEF Read
  <2>2. Tail(received[w]) \in Seq(Part) /\ ToSet(Tail(received[w])) \subseteq ToSet(received[w])
    BY <1>r, <1>t, TailSet
  <2> HIDE DEF Part
  <2> QED BY <1>r, <1>t, <2>1, <2>2
<1> HIDE DEF Held, Same, Line
<1>1. ASSUME NEW w \in setting.workers, Drops(w) PROVE Same /\ Line /\ Held
  BY <1>1, <1>l, <1>h DEF Drops, Quiet, processVars, Same
<1>2. ASSUME NEW w \in setting.workers, NullBody(w) PROVE Same /\ Line /\ Held
  <2>1. received' = [received EXCEPT ![w] = <<>>] /\ UNCHANGED <<pipe, session, replies>> /\ Same
    BY <1>2 DEF NullBody, mysqlVars, processVars, Same
  <2>2. Held
    BY <1>t, <1>n, <2>1 DEF Held
  <2> QED BY <1>l, <2>1, <2>2
<1>3. ASSUME NEW w \in setting.workers, Recv(w) PROVE Same /\ Line /\ Held
  <2>1. Same /\ UNCHANGED <<pipe, session>>
    BY <1>3 DEF Recv, processVars, Same
  <2>2. PICK n \in 1..Len(replies) :
          /\ received' = [received EXCEPT ![w] = SubSeq(replies, 1, n)]
          /\ replies' = SubSeq(replies, n + 1, Len(replies))
    BY <1>3 DEF Recv
  <2>3. n \in 0..Len(replies)
    OBVIOUS
  <2>4. /\ SubSeq(replies, 1, n) \in Seq(Part) /\ replies' \in Seq(Part)
        /\ ToSet(SubSeq(replies, 1, n)) \subseteq ToSet(replies)
        /\ ToSet(replies') \subseteq ToSet(replies)
    BY <1>t, <2>2, <2>3, Cut, CutSet
  <2>5. Held
    BY <1>t, <2>2, <2>4 DEF Held
  <2> QED BY <1>l, <2>1, <2>5
<1>4. ASSUME NEW w \in setting.workers, ngx_worker_process_init(w) PROVE Same /\ Line /\ Held
  <2>1. Same /\ UNCHANGED received
    BY <1>4 DEF ngx_worker_process_init, processVars, clientVars, Same
  <2>2. ShutOrNot /\ (UNCHANGED pipe \/ pipe' = Append(pipe, Quit))
    BY <1>4 DEF ngx_worker_process_init, mysql_close, ShutOrNot
  <2> QED BY <1>s, <2>1, <2>2
<1>5. ASSUME NEW w \in setting.workers, ReadReply(w) PROVE Same /\ Line /\ Held
  <2>1. Same /\ UNCHANGED <<pipe, session, replies>> /\ received[w] # <<>> /\ Read(w)
    BY <1>5 DEF ReadReply, processVars, mysqlVars, Same
  <2> QED BY <1>l, <1>r, <1>t, <2>1
<1>6. ASSUME NEW w \in setting.workers, NEW text \in Texts, Ends(w, text) PROVE Same /\ Line /\ Held
  <2>1. CASE Quiet
    BY <1>6, <1>l, <1>h, <2>1 DEF Ends, Quiet, processVars, Same
  <2>2. CASE GoneAway(w)
    BY <1>l, <1>h, <2>2 DEF GoneAway, mysqlVars, processVars, Same
  <2>3. CASE OutOfOrder(w)
    <3>1. /\ Same /\ ShutOrNot /\ pipe' = Append(pipe, Quit)
          /\ received' = [received EXCEPT ![w] = <<>>]
      BY <2>3 DEF OutOfOrder, processVars, Same, ShutOrNot
    <3>2. Held
      BY <1>t, <1>n, <3>1, ShutFacts DEF Held
    <3> QED BY <1>s, <3>1, <3>2
  <2>4. CASE StoreResult(w)
    <3>1. Same /\ UNCHANGED <<pipe, session, replies>> /\ received[w] # <<>> /\ Read(w)
      BY <2>4 DEF StoreResult, processVars, mysqlVars, Same
    <3> QED BY <1>l, <1>r, <1>t, <3>1
  <2> QED BY <1>5, <1>6, <2>1, <2>2, <2>3, <2>4 DEF Ends
<1>7. ASSUME Hangup PROVE Same /\ Line /\ Held
  <2>1. session' = "closed" /\ UNCHANGED <<pipe, replies, received>> /\ Same
    BY <1>7 DEF Hangup, processVars, clientVars, Same
  <2>2. Line
    BY <2>1 DEF Line
  <2> QED BY <1>h, <2>1, <2>2
<1>8. ASSUME ParentExits PROVE Same /\ Line /\ Held
  <2>1. Same /\ UNCHANGED received
    BY <1>8 DEF ParentExits, clientVars, Same
  <2>2. ShutOrNot /\ (UNCHANGED pipe \/ pipe' = Append(pipe, Quit))
    BY <1>8 DEF ParentExits, mysql_close, ShutOrNot
  <2> QED BY <1>s, <2>1, <2>2
<1>9. ASSUME UNCHANGED vars PROVE Same /\ Line /\ Held
  BY <1>9, <1>l, <1>h DEF vars, Same
<1> QED BY <1>1, <1>2, <1>3, <1>4, <1>5, <1>6, <1>7, <1>8, <1>9 DEF Others, Held, Same, Line

\* What other steps do to the workers, and to the answers.
LEMMA OthersAt ==
  ASSUME TypeOK, Others
  PROVE  \/ UNCHANGED <<at, answers>>
         \/ \E w \in setting.workers, x \in {"idle", "exited"} :
              at[w] = "init" /\ at' = [at EXCEPT ![w] = x] /\ UNCHANGED answers
         \/ \E w \in setting.workers :
              at[w] \in Plain /\ at' = [at EXCEPT ![w] = "idle"] /\ UNCHANGED answers
         \/ \E w \in setting.workers, x \in {"mysql_store_result", "crashed"} :
              /\ at[w] \in Steps \ Plain /\ at' = [at EXCEPT ![w] = x] /\ UNCHANGED answers
         \/ \E w \in setting.workers, text \in Texts : Ends(w, text)
<1>1. ASSUME NEW w \in setting.workers, NullBody(w)
      PROVE  at[w] \in Steps \ Plain /\ at' = [at EXCEPT ![w] = "crashed"] /\ UNCHANGED answers
  BY <1>1, AtFacts DEF NullBody, Steps
<1>2. ASSUME NEW w \in setting.workers, ReadReply(w), Fetches(w)
      PROVE  /\ at[w] \in Steps \ Plain /\ at' = [at EXCEPT ![w] = "mysql_store_result"]
             /\ UNCHANGED answers
  BY <1>2, AtFacts DEF ReadReply, Fetches, Steps, LibraryCalls
<1>3. ASSUME NEW w \in setting.workers, Recv(w) PROVE UNCHANGED <<at, answers>>
  BY <1>3 DEF Recv
<1>4. ASSUME NEW w \in setting.workers, ngx_worker_process_init(w)
      PROVE  \E x \in {"idle", "exited"} :
               at[w] = "init" /\ at' = [at EXCEPT ![w] = x] /\ UNCHANGED answers
  BY <1>4 DEF ngx_worker_process_init
<1>5. ASSUME NEW w \in setting.workers, Drops(w)
      PROVE  at[w] \in Plain /\ at' = [at EXCEPT ![w] = "idle"] /\ UNCHANGED answers
  BY <1>5 DEF Drops, Silent
<1>6. Hangup \/ ParentExits \/ UNCHANGED vars => UNCHANGED <<at, answers>>
  BY DEF Hangup, ParentExits, vars
<1> QED BY <1>1, <1>2, <1>3, <1>4, <1>5, <1>6 DEF Others

(* The steps keep the invariant *)

LEMMA TypeStep == TypeOK /\ Jobs /\ [Next]_vars => TypeOK'
<1> SUFFICES ASSUME TypeOK, Jobs, [Next]_vars PROVE TypeOK'
  OBVIOUS
<1> DEFINE AtSet == {"init", "idle", "exited", "crashed", "_HandlePing", "_HandleRegister",
                     "_HandleLogIn"} \union BookHandlers \union LibraryCalls
           E == {"nothing", "done", "refused"}
           A(m) == [request : 1..m, msgCode : Nat, text : Texts]
           Q(m) == [request : 1..m, part : {"ok", "error", "columns", "rows"}]
<1>t. /\ at \in [Worker -> AtSet] /\ Len(requests) \in Nat
      /\ pipe \in Seq(0..Len(requests)) /\ job \in [Worker -> 0..Len(requests)]
      /\ executed \in [1..Len(requests) -> E]
      /\ status \in [Worker -> {"ready", "result", "lost"}]
      /\ answers \in Seq(A(Len(requests)))
      /\ setting \in Settings /\ conn_ \in BOOLEAN /\ parent \in {"running", "gone"}
      /\ session \in {"open", "shut", "closed"} /\ setting.workers \subseteq Worker
  BY SettingFacts DEF TypeOK, Texts
<1>h. Plain \cup BookHandlers \subseteq AtSet /\ LibraryCalls \subseteq AtSet
      /\ {"idle", "exited", "crashed", "mysql_query", "mysql_store_result"} \subseteq AtSet
  BY DEF Plain, LibraryCalls
<1> HIDE DEF AtSet
<1>1. ASSUME NEW w \in Worker, threadRecvProcFunc(w) PROVE TypeOK'
  <2> DEFINE n == Len(requests)
  <2>1. /\ n \in Nat /\ Len(requests') = n + 1 /\ requests' \in Seq(setting.packets)
        /\ executed' \in [1..(n + 1) -> E]
        /\ UNCHANGED <<setting, conn_, parent, status, received, pipe, session, replies, answers>>
        /\ \/ UNCHANGED <<at, job>>
           \/ /\ Passes(requests'[n + 1])
              /\ at' = [at EXCEPT ![w] = Handler(requests'[n + 1].msgCode)]
              /\ job' = [job EXCEPT ![w] = n + 1]
    BY <1>1, RecvFacts
  <2>2. requests'[n + 1] \in Packet
    BY <2>1, SettingFacts
  <2>3. at' \in [Worker -> AtSet]
    BY <1>t, <1>h, <2>1, <2>2, HandlerFacts
  <2>5. 0..n \subseteq 0..(n + 1) /\ 1..n \subseteq 1..(n + 1) /\ n + 1 \in 0..(n + 1)
    BY <2>1
  <2>4. job' \in [Worker -> 0..(n + 1)]
    <3>1. job \in [Worker -> 0..(n + 1)]
      BY <1>t, <2>5
    <3> QED BY <2>1, <2>5, <3>1
  <2>6. A(n) \subseteq A(n + 1) /\ Q(n) \subseteq Q(n + 1)
    BY <2>5
  <2>7. answers \in Seq(A(n)) /\ replies \in Seq(Q(n)) /\ received \in [Worker -> Seq(Q(n))]
    BY <1>t, PacketTypes DEF Part
  <2> HIDE DEF A, Q
  <2>8. pipe \in Seq(0..(n + 1)) /\ answers \in Seq(A(n + 1)) /\ replies \in Seq(Q(n + 1))
        /\ Seq(Q(n)) \subseteq Seq(Q(n + 1))
    BY <1>t, <2>5, <2>6, <2>7, SeqMonotonic
  <2>9. received \in [Worker -> Seq(Q(n + 1))]
    BY <2>7, <2>8
  <2> QED BY <1>t, <2>1, <2>3, <2>4, <2>8, <2>9 DEF TypeOK, Part, A, Q, AtSet, Texts
<1>2. ASSUME NEW w \in Worker, SendQuery(w) PROVE TypeOK'
  <2>1. at' \in [Worker -> AtSet]
    BY <1>2, <1>t, <1>h DEF SendQuery
  <2>2. pipe' \in Seq(0..Len(requests))
    BY <1>2, <1>t DEF SendQuery
  <2>3. UNCHANGED Part
    BY <1>2 DEF SendQuery, Part
  <2> QED BY <1>2, <2>1, <2>2, <2>3 DEF TypeOK, AtSet, SendQuery, processVars, clientVars
<1>3. CASE Execute
  <2>1. /\ pipe # <<>> /\ pipe' = Tail(pipe) /\ Head(pipe) # 0
        /\ UNCHANGED <<requests, at, job, setting, conn_, parent, status, received, session,
                       answers>>
    BY <1>3 DEF Execute, Quit, processVars, clientVars
  <2>2. Head(pipe) \in 1..Len(requests) /\ pipe' \in Seq(0..Len(requests))
    BY <1>t, <2>1
  <2>3. PICK ok \in BOOLEAN :
          /\ executed' = [executed EXCEPT ![Head(pipe)] = IF ok THEN "done" ELSE "refused"]
          /\ replies' = IF session = "open" THEN replies \o Reply(Head(pipe), ok) ELSE replies
    BY <1>3 DEF Execute
  <2>4. executed' \in [1..Len(requests) -> E]
    BY <1>t, <2>3
  <2>5. replies' \in Seq(Part)
    <3>1. Reply(Head(pipe), ok) \in Seq(Part)
      BY <2>2, ReplyFacts
    <3>2. replies \in Seq(Part)
      BY PacketTypes
    <3> QED BY <2>3, <3>1, <3>2, InARow
  <2>6. UNCHANGED Part
    BY <2>1 DEF Part
  <2> QED BY <2>1, <2>2, <2>4, <2>5, <2>6 DEF TypeOK
<1>4. CASE Others
  <2>1. /\ UNCHANGED <<requests, job, setting, conn_, executed>>
        /\ pipe' = pipe \/ pipe' = Append(pipe, Quit)
        /\ session' \in {"open", "shut", "closed"}
        /\ replies' \in Seq(Part) /\ received' \in [Worker -> Seq(Part)]
    BY <1>4, OthersFacts
  <2>2. pipe' \in Seq(0..Len(requests))
    <3> DEFINE S == 0..Len(requests)
    <3>1. Quit \in S /\ pipe \in Seq(S)
      BY <1>t DEF Quit
    <3> HIDE DEF S
    <3>2. pipe' \in Seq(S)
      BY <2>1, <3>1
    <3> QED BY <3>2 DEF S
  <2>3. at' \in [Worker -> AtSet] /\ answers' \in Seq(A(Len(requests)))
    <3>1. CASE UNCHANGED <<at, answers>>
      BY <1>t, <3>1
    <3>2. CASE \E w \in setting.workers, text \in Texts : Ends(w, text)
      <4>1. PICK w \in Worker, text \in Texts : Ends(w, text)
        BY <1>t, <3>2
      <4> QED BY <1>t, <1>h, <4>1, EndFacts
    <3>3. CASE /\ UNCHANGED answers
               /\ \E w \in Worker, x \in AtSet : at' = [at EXCEPT ![w] = x]
      BY <1>t, <3>3
    <3> QED BY <1>4, <1>t, <1>h, <3>1, <3>2, <3>3, OthersAt
  <2>4. parent' \in {"running", "gone"} /\ status' \in [Worker -> {"ready", "result", "lost"}]
    <3>1. CASE UNCHANGED <<parent, status>>
      BY <1>t, <3>1
    <3>2. CASE ParentExits
      BY <1>t, <3>2 DEF ParentExits, clientVars
    <3>3. ASSUME NEW w \in Worker,
                 ReadReply(w) \/ StoreResult(w) \/ OutOfOrder(w) \/ GoneAway(w)
          PROVE  parent' = parent /\ status' \in [Worker -> {"ready", "result", "lost"}]
      BY <1>t, <3>3 DEF ReadReply, StoreResult, OutOfOrder, GoneAway, processVars
    <3>4. Hangup \/ UNCHANGED vars => UNCHANGED <<parent, status>>
      BY DEF Hangup, vars, processVars, clientVars
    <3>5. \A w \in Worker : Drops(w) \/ NullBody(w) \/ Recv(w) \/ ngx_worker_process_init(w)
                              => UNCHANGED <<parent, status>>
      BY DEF Drops, Quiet, NullBody, Recv, ngx_worker_process_init, processVars, clientVars
    <3>6. \A w \in Worker, text \in Texts : Ends(w, text) =>
            \/ UNCHANGED <<parent, status>>
            \/ ReadReply(w) \/ StoreResult(w) \/ OutOfOrder(w) \/ GoneAway(w)
      BY DEF Ends, Quiet, processVars
    <3> QED BY <1>4, <1>t, <3>1, <3>2, <3>3, <3>4, <3>5, <3>6 DEF Others
  <2>5. UNCHANGED Part
    BY <2>1 DEF Part
  <2> QED BY <1>t, <2>1, <2>2, <2>3, <2>4, <2>5 DEF TypeOK, AtSet, Texts
<1> QED BY <1>t, <1>1, <1>2, <1>3, <1>4, AllSteps

\* A worker keeps to its own request until it takes the next.
LEMMA JobsStep == TypeOK /\ Jobs /\ [Next]_vars => Jobs'
<1> SUFFICES ASSUME TypeOK, Jobs, [Next]_vars PROVE Jobs'
  OBVIOUS
<1>t. at \in [Worker -> {at[w] : w \in Worker}] /\ job \in [Worker -> 0..Len(requests)]
      /\ Len(requests) \in Nat /\ setting.workers \subseteq Worker
  BY SettingFacts DEF TypeOK
<1>1. ASSUME NEW w \in setting.workers, threadRecvProcFunc(w) PROVE Jobs'
  <2> DEFINE n == Len(requests)
  <2>1. /\ at[w] = "idle" /\ Len(requests') = n + 1 /\ requests' \in Seq(setting.packets)
        /\ \A i \in 1..n : requests'[i] = requests[i] /\ (IsBook(i)' <=> IsBook(i))
        /\ UNCHANGED setting
    BY <1>1, <1>t, RecvFacts
  <2>2. CASE UNCHANGED <<at, job>>
    <3>1. \A v \in Worker : job[v] # 0 => job[v] \in 1..n
      BY <1>t
    <3> QED BY <2>1, <2>2, <3>1 DEF Jobs, Passes
  <2>3. CASE /\ Passes(requests'[n + 1])
             /\ at' = [at EXCEPT ![w] = Handler(requests'[n + 1].msgCode)]
             /\ job' = [job EXCEPT ![w] = n + 1]
    <3>1. \A v \in Worker : job[v] # 0 => job[v] \in 1..n
      BY <1>t
    <3>2. requests'[n + 1] \in Packet
      BY <1>t, <2>1, SettingFacts
    <3>3. \A v \in Worker : v # w => at'[v] = at[v] /\ job'[v] = job[v] /\ job[v] # n + 1
      BY <1>t, <2>3
    <3>4. at'[w] = Handler(requests'[n + 1].msgCode) /\ job'[w] = n + 1 /\ n + 1 # 0
      BY <1>t, <2>3
    <3>5. at'[w] \notin {"init", "exited"}
      BY <2>3, <3>2, <3>4, HandlerFacts, AtFacts DEF Ended, Steps
    <3>6. ASSUME NEW v \in Worker, at'[v] \notin Ended
          PROVE  /\ job'[v] # 0
                 /\ \/ at'[v] = Handler(requests'[job'[v]].msgCode)
                    \/ at'[v] \in LibraryCalls \union {"crashed"} /\ IsBook(job[v])'
      <4>1. CASE v = w BY <2>3, <3>4, <4>1
      <4>2. CASE v # w BY <2>1, <3>1, <3>3, <3>6, <4>2 DEF Jobs
      <4> QED BY <4>1, <4>2
    <3>7. \A u, v \in Worker : job'[u] = job'[v] /\ job'[u] # 0 => u = v
      BY <3>3, <3>4 DEF Jobs
    <3>8. \A v \in Worker : v \notin setting.workers => at'[v] = "init"
      BY <1>1, <3>3 DEF Jobs
    <3>9. ASSUME NEW v \in Worker, job'[v] # 0
          PROVE  Passes(requests'[job'[v]]) /\ at'[v] \notin {"init", "exited"}
      <4>1. CASE v = w BY <2>3, <3>4, <3>5, <4>1
      <4>2. CASE v # w BY <2>1, <3>1, <3>3, <3>9, <4>2 DEF Jobs
      <4> QED BY <4>1, <4>2
    <3> QED BY <2>1, <3>6, <3>7, <3>8, <3>9 DEF Jobs, Passes
  <2> QED BY <1>1, <1>t, <2>2, <2>3, RecvFacts
<1>2. ASSUME NEW w \in setting.workers, NEW x, at' = [at EXCEPT ![w] = x],
             UNCHANGED <<requests, job, setting>>,
             job[w] # 0 => x \notin {"init", "exited"},
             x \notin Ended => IsBook(job[w]) /\ job[w] # 0 /\ x \in LibraryCalls \cup {"crashed"}
      PROVE  Jobs'
  <2>1. at'[w] = x /\ \A v \in Worker : v # w => at'[v] = at[v]
    BY <1>t, <1>2
  <2>2. \A i : IsBook(i)' <=> IsBook(i)
    BY <1>2 DEF IsBook, Passes
  <2> QED BY <1>2, <1>t, <2>1, <2>2 DEF Jobs
<1>3. ASSUME NEW w \in setting.workers, SendQuery(w) PROVE Jobs'
  <2>1. at[w] \in BookHandlers /\ at' = [at EXCEPT ![w] = "mysql_query"]
        /\ UNCHANGED <<requests, job, setting>>
    BY <1>3 DEF SendQuery, HasBook, processVars
  <2>2. job[w] # 0 /\ IsBook(job[w])
    BY <1>t, <2>1, AtFacts, AtWork DEF Steps
  <2>3. "mysql_query" \in LibraryCalls
    BY DEF LibraryCalls
  <2> QED BY <1>2, <2>1, <2>2, <2>3, AtFacts
<1>4. CASE Execute
  BY <1>4 DEF Execute, Jobs, processVars, IsBook, Passes
<1>5. CASE Others
  <2>1. UNCHANGED <<requests, job, setting>>
    BY <1>5, OthersFacts
  <2>2. CASE UNCHANGED <<at, answers>>
    BY <2>1, <2>2 DEF Jobs, IsBook, Passes
  <2>3. ASSUME NEW w \in setting.workers, NEW x \in {"idle", "exited"}, at[w] = "init",
               at' = [at EXCEPT ![w] = x]
        PROVE  Jobs'
    <3>1. job[w] = 0 /\ x \in Ended
      BY <1>t, <2>3 DEF Jobs, Ended
    <3> QED BY <1>2, <2>1, <2>3, <3>1
  <2>4. ASSUME NEW w \in setting.workers, at' = [at EXCEPT ![w] = "idle"]
        PROVE  Jobs'
    <3>1. "idle" \in Ended
      BY DEF Ended
    <3> QED BY <1>2, <2>1, <2>4, <3>1
  <2>5. ASSUME NEW w \in setting.workers, NEW x \in {"mysql_store_result", "crashed"},
               at[w] \in Steps \ Plain, at' = [at EXCEPT ![w] = x]
        PROVE  Jobs'
    <3>1. job[w] # 0 /\ IsBook(job[w])
      BY <1>t, <2>5, AtWork
    <3>2. x \in LibraryCalls \cup {"crashed"}
      BY <2>5 DEF LibraryCalls
    <3> QED BY <1>2, <2>1, <2>5, <3>1, <3>2
  <2>6. ASSUME NEW w \in setting.workers, NEW text \in Texts, Ends(w, text)
        PROVE  at' = [at EXCEPT ![w] = "idle"]
    BY <1>t, <2>6, EndFacts
  <2> QED BY <1>5, <2>2, <2>3, <2>4, <2>5, <2>6, OthersAt
<1> QED BY <1>1, <1>3, <1>4, <1>5, AllSteps

\* The requests on the way to MySQL.
PipeDistinct == \A k, l \in DOMAIN pipe : pipe[k] = pipe[l] /\ pipe[k] # Quit => k = l

\* What is on its way to MySQL, and answered, are requests.
LEMMA PipeTypes ==
  ASSUME TypeOK
  PROVE  /\ Len(requests) \in Nat /\ pipe \in Seq(Nat) /\ InPipe \subseteq 1..Len(requests)
         /\ Answered \subseteq 1..Len(requests)
<1>1. pipe \in Seq(0..Len(requests)) /\ Len(requests) \in Nat
      /\ 0..Len(requests) \subseteq Nat
  BY DEF TypeOK
<1>2. pipe \in Seq(Nat)
  BY <1>1, SeqMonotonic
<1>3. InPipe \subseteq 1..Len(requests)
  <2>1. \A k \in DOMAIN pipe : pipe[k] \in 0..Len(requests)
    BY <1>1
  <2>2. \A i \in 0..Len(requests) : i # 0 => i \in 1..Len(requests)
    BY <1>1
  <2> QED BY <2>1, <2>2 DEF InPipe, Quit
<1>4. Answered \subseteq 1..Len(requests)
  <2>1. \A k \in DOMAIN answers : answers[k].request \in 1..Len(requests)
    <3> DEFINE A == [request : 1..Len(requests), msgCode : Nat, text : Texts]
    <3>1. answers \in Seq(A)
      BY DEF TypeOK, Texts
    <3>2. \A a \in A : a.request \in 1..Len(requests)
      OBVIOUS
    <3> HIDE DEF A
    <3>3. \A k \in DOMAIN answers : answers[k] \in A
      BY <3>1
    <3> QED BY <3>2, <3>3
  <2> QED BY <2>1 DEF Answered
<1> QED BY <1>1, <1>2, <1>3, <1>4

\* A query that is sent is added to those on their way.
LEMMA PipeAppend ==
  ASSUME TypeOK, PipeDistinct, NEW m \in Nat, m \notin InPipe, pipe' = Append(pipe, m)
  PROVE  InPipe' = (InPipe \cup {m}) \ {Quit} /\ PipeDistinct'
<1>1. /\ Len(pipe) \in Nat /\ DOMAIN pipe = 1..Len(pipe) /\ DOMAIN pipe' = 1..(Len(pipe) + 1)
      /\ \A k \in 1..Len(pipe) : pipe'[k] = pipe[k]
      /\ pipe'[Len(pipe) + 1] = m
  BY PipeTypes
<1>2. 1..(Len(pipe) + 1) = 1..Len(pipe) \cup {Len(pipe) + 1}
  BY <1>1
<1>3. InPipe' = (InPipe \cup {m}) \ {Quit}
  BY <1>1, <1>2 DEF InPipe
<1>4. PipeDistinct'
  BY <1>1, <1>2 DEF InPipe, PipeDistinct
<1> QED BY <1>3, <1>4

\* MySQL takes one query, and only that one.
LEMMA PipeTail ==
  ASSUME TypeOK, PipeDistinct, pipe # <<>>, Head(pipe) # Quit, pipe' = Tail(pipe)
  PROVE  Head(pipe) \in InPipe /\ InPipe' = InPipe \ {Head(pipe)} /\ PipeDistinct'
<1> DEFINE n == Len(pipe)
<1>1. /\ n \in Nat \ {0} /\ DOMAIN pipe = 1..n /\ DOMAIN pipe' = 1..(n - 1)
      /\ \A k \in 1..(n - 1) : pipe'[k] = pipe[k + 1] /\ k + 1 \in 1..n /\ k + 1 # 1
      /\ Head(pipe) = pipe[1] /\ 1 \in 1..n
  BY PipeTypes
<1>2. \A k \in 1..n : k = 1 \/ (k - 1 \in 1..(n - 1) /\ pipe'[k - 1] = pipe[k])
  BY <1>1
<1>3. Head(pipe) \in InPipe
  BY <1>1 DEF InPipe
<1>4. PipeDistinct'
  <2>1. ASSUME NEW k \in 1..(n - 1), NEW l \in 1..(n - 1), pipe'[k] = pipe'[l], pipe'[k] # Quit
        PROVE  k = l
    <3>1. k + 1 = l + 1
      BY <1>1, <2>1 DEF PipeDistinct
    <3> QED BY <3>1
  <2> QED BY <1>1, <2>1 DEF PipeDistinct
<1>5. InPipe' \subseteq InPipe \ {Head(pipe)}
  <2>1. \A k \in 1..(n - 1) : pipe'[k] # Quit => pipe'[k] \in InPipe /\ pipe'[k] # pipe[1]
    BY <1>1 DEF InPipe, PipeDistinct
  <2> QED BY <1>1, <2>1 DEF InPipe
<1>6. InPipe \ {Head(pipe)} \subseteq InPipe'
  <2>1. \A k \in 1..n : pipe[k] # Quit /\ pipe[k] # pipe[1] => pipe[k] \in InPipe'
    BY <1>1, <1>2 DEF InPipe
  <2> QED BY <1>1, <2>1 DEF InPipe
<1> QED BY <1>3, <1>4, <1>5, <1>6

\* No step sends a query twice, or executes one that was not sent.
LEMMA QueriesStep == TypeOK /\ Jobs /\ Queries /\ [Next]_vars => Queries'
<1> SUFFICES ASSUME TypeOK, Jobs, Queries, [Next]_vars PROVE Queries'
  OBVIOUS
<1>t. /\ at \in [Worker -> {at[w] : w \in Worker}] /\ Len(requests) \in Nat
      /\ job \in [Worker -> 0..Len(requests)] /\ DOMAIN requests = 1..Len(requests)
      /\ executed \in [1..Len(requests) -> {"nothing", "done", "refused"}]
      /\ setting.workers \subseteq Worker
  BY SettingFacts DEF TypeOK
<1>w. \A w \in Worker : at[w] \in BookHandlers => job[w] \in 1..Len(requests) /\ IsBook(job[w])
  BY AtFacts, AtWork DEF Steps
<1>p. PipeDistinct /\ Quit \in Nat /\ Quit \notin InPipe
  BY DEF PipeDistinct, Queries, Quit, InPipe
<1>1. ASSUME NEW w \in setting.workers, threadRecvProcFunc(w) PROVE Queries'
  <2> DEFINE n == Len(requests)
  <2>1. /\ Len(requests') = n + 1 /\ DOMAIN requests' = 1..(n + 1)
        /\ \A i \in 1..n : requests'[i] = requests[i] /\ executed'[i] = executed[i]
                           /\ (IsBook(i)' <=> IsBook(i))
        /\ executed'[n + 1] = "nothing" /\ n + 1 \notin 1..n
        /\ \A i \in 1..(n + 1) : i = n + 1 \/ i \in 1..n
        /\ UNCHANGED <<conn_, received, pipe, session, replies>>
    BY <1>t, <1>1, RecvFacts
  <2>2. InPipe' = InPipe /\ InPipe \subseteq 1..n
    BY <2>1, PipeTypes DEF InPipe
  <2>3. \A v \in Worker : at'[v] \in BookHandlers =>
          \/ at[v] \in BookHandlers /\ job'[v] = job[v]
          \/ job'[v] = n + 1
    BY <1>t, <1>1, RecvFacts
  <2>4. \A v \in Worker : at'[v] \in BookHandlers =>
          job'[v] \notin InPipe /\ executed'[job'[v]] = "nothing"
    BY <1>w, <2>1, <2>2, <2>3 DEF Queries
  <2>5. \A p \in Part : PartTrue(p) => PartTrue(p)'
    <3>1. \A p \in Part : p.request \in 1..n
      BY PacketTypes
    <3> QED BY <2>1, <3>1 DEF PartTrue, Lists
  <2>6. /\ \A p \in ToSet(replies) : PartTrue(p)'
        /\ \A v \in Worker : \A p \in ToSet(received[v]) : PartTrue(p)'
    BY <2>5, PacketTypes DEF Queries
  <2> QED BY <1>t, <2>1, <2>2, <2>4, <2>6 DEF Queries
<1>2. ASSUME NEW w \in setting.workers, SendQuery(w) PROVE Queries'
  <2>1. at[w] \in BookHandlers /\ at' = [at EXCEPT ![w] = "mysql_query"]
        /\ pipe' = Append(pipe, job[w])
        /\ UNCHANGED <<requests, job, conn_, received, session, replies, executed>>
    BY <1>2 DEF SendQuery, HasBook, processVars, clientVars
  <2>2. job[w] \in 1..Len(requests) /\ IsBook(job[w]) /\ job[w] \notin InPipe
        /\ executed[job[w]] = "nothing"
    BY <1>w, <1>t, <2>1 DEF Queries
  <2>3. InPipe' = InPipe \cup {job[w]} /\ PipeDistinct'
    <3>1. job[w] \in Nat /\ job[w] # Quit
      BY <2>2 DEF Quit
    <3> QED BY <1>p, <2>1, <2>2, <3>1, PipeAppend
  <2>4. \A v \in Worker : at'[v] \in BookHandlers => at[v] \in BookHandlers /\ job[v] # job[w]
    <3>1. "mysql_query" \notin BookHandlers
      BY AtFacts DEF LibraryCalls
    <3>2. \A v \in Worker : at'[v] \in BookHandlers => at[v] \in BookHandlers /\ v # w
      BY <1>t, <2>1, <3>1
    <3> QED BY <1>t, <1>w, <2>2, <3>2 DEF Jobs
  <2>5. \A i : IsBook(i)' <=> IsBook(i)
    BY <2>1 DEF IsBook, Passes
  <2>6. \A p : PartTrue(p)' <=> PartTrue(p)
    BY <2>1 DEF PartTrue, Lists
  <2> QED BY <2>1, <2>2, <2>3, <2>4, <2>5, <2>6 DEF Queries, PipeDistinct
<1>3. CASE Execute
  <2> DEFINE i == Head(pipe)
  <2>1. /\ pipe # <<>> /\ i # Quit /\ pipe' = Tail(pipe) /\ session # "closed"
        /\ UNCHANGED <<requests, at, job, conn_, received, session>>
    BY <1>3 DEF Execute, processVars, clientVars
  <2>2. PICK ok \in BOOLEAN :
          /\ executed' = [executed EXCEPT ![i] = IF ok THEN "done" ELSE "refused"]
          /\ replies' = IF session = "open" THEN replies \o Reply(i, ok) ELSE replies
    BY <1>3 DEF Execute
  <2>3. i \in InPipe /\ InPipe' = InPipe \ {i} /\ PipeDistinct'
    BY <1>p, <2>1, PipeTail
  <2> HIDE DEF i
  <2>4. i \in 1..Len(requests) /\ IsBook(i) /\ executed[i] = "nothing"
    BY <2>3, PipeTypes DEF Queries
  <2>5. /\ \A j \in 1..Len(requests) : j # i => executed'[j] = executed[j]
        /\ executed'[i] = IF ok THEN "done" ELSE "refused"
    BY <1>t, <2>2, <2>4
  <2>6. \A p \in Part : PartTrue(p) => PartTrue(p)'
    <3> SUFFICES ASSUME NEW p \in Part, PartTrue(p) PROVE PartTrue(p)'
      OBVIOUS
    <3>1. p.request \in 1..Len(requests)
      BY PacketTypes
    <3>2. executed[p.request] # "nothing"
      BY DEF PartTrue
    <3> QED BY <2>1, <2>4, <2>5, <3>1, <3>2 DEF PartTrue, Lists
  <2>7. \A p \in ToSet(Reply(i, ok)) : PartTrue(p)'
    <3>1. Reply(i, ok) \in Seq(Part)
      BY <2>4, ReplyFacts
    <3>2. PICK r \in Seq(Part) : r = Reply(i, ok)
      BY <3>1
    <3>3. ASSUME NEW k \in 1..Len(r) PROVE PartTrue(r[k])'
      <4>1. /\ r[k].request = i /\ (r[k].part = "error" <=> ~ok)
            /\ r[k].part \in {"columns", "rows"} => Lists(i)
            /\ r[k].part = "ok" => ~Lists(i)
        BY <2>4, <3>2, ReplyFacts
      <4>2. executed'[r[k].request] = IF r[k].part = "error" THEN "refused" ELSE "done"
        BY <2>5, <4>1
      <4>3. Lists(r[k].request)' <=> Lists(r[k].request)
        BY <2>1 DEF Lists
      <4>4. executed'[r[k].request] = IF r[k].part = "error" THEN "refused" ELSE "done"
        BY <4>2
      <4> HIDE DEF i
      <4> QED BY <4>1, <4>3, <4>4 DEF PartTrue
    <3>4. DOMAIN r = 1..Len(r)
      OBVIOUS
    <3> QED BY <3>2, <3>3, <3>4 DEF ToSet
  <2>8. /\ \A p \in ToSet(replies') : PartTrue(p)'
        /\ \A v \in Worker : \A p \in ToSet(received'[v]) : PartTrue(p)'
    <3>1. ToSet(replies') \subseteq ToSet(replies) \cup ToSet(Reply(i, ok))
      <4>1. replies \in Seq(Part) /\ Reply(i, ok) \in Seq(Part)
        BY <2>4, ReplyFacts, PacketTypes
      <4> QED BY <2>2, <4>1, InARow
    <3>2. \A p \in ToSet(replies) : PartTrue(p)'
      BY <2>6, PacketTypes DEF Queries
    <3>3. \A v \in Worker : \A p \in ToSet(received[v]) : PartTrue(p)'
      BY <2>6, PacketTypes DEF Queries
    <3> QED BY <2>1, <2>7, <3>1, <3>2, <3>3
  <2>9. \A j : IsBook(j)' <=> IsBook(j)
    BY <2>1 DEF IsBook, Passes
  <2>10. \A j \in InPipe' : IsBook(j) /\ executed'[j] = "nothing"
    BY <2>3, <2>5, PipeTypes DEF Queries
  <2>11. \A v \in Worker : at[v] \in BookHandlers =>
           job[v] \notin InPipe' /\ executed'[job[v]] = "nothing"
    BY <1>w, <2>3, <2>5 DEF Queries
  <2>12. \A j \in DOMAIN requests : executed'[j] # "nothing" => IsBook(j)
    BY <1>t, <2>4, <2>5 DEF Queries
  <2> QED BY <2>1, <2>3, <2>8, <2>9, <2>10, <2>11, <2>12 DEF Queries, PipeDistinct
<1>4. CASE Others
  <2>1. /\ UNCHANGED <<requests, job, setting, conn_, executed>>
        /\ pipe' = pipe \/ pipe' = Append(pipe, Quit)
        /\ session = "closed" => session' = "closed"
        /\ ToSet(replies') \subseteq ToSet(replies)
        /\ \A w \in Worker :
             ToSet(received'[w]) \subseteq ToSet(received[w]) \cup ToSet(replies)
    BY <1>4, OthersFacts
  <2>2. InPipe' = InPipe /\ PipeDistinct'
    <3>1. CASE UNCHANGED pipe BY <1>p, <3>1 DEF InPipe, PipeDistinct
    <3>2. CASE pipe' = Append(pipe, Quit) BY <1>p, <3>2, PipeAppend
    <3> QED BY <2>1, <3>1, <3>2
  <2>3. \A v \in Worker : at'[v] \in BookHandlers => at[v] \in BookHandlers
    <3>1. {"idle", "exited", "crashed", "mysql_store_result"} \cap BookHandlers = {}
      BY AtFacts DEF Ended, Steps, LibraryCalls
    <3>2. ASSUME NEW w \in setting.workers, NEW text \in Texts, Ends(w, text)
          PROVE  at' = [at EXCEPT ![w] = "idle"]
      BY <1>t, <3>2, EndFacts
    <3>3. UNCHANGED at \/ \E w \in Worker, x \in {"idle", "exited", "crashed",
                                                  "mysql_store_result"} :
                            at' = [at EXCEPT ![w] = x]
      BY <1>4, <1>t, <3>2, OthersAt
    <3> QED BY <1>t, <3>1, <3>3
  <2>4. \A i : IsBook(i)' <=> IsBook(i)
    BY <2>1 DEF IsBook, Passes
  <2>5. \A p : PartTrue(p)' <=> PartTrue(p)
    BY <2>1 DEF PartTrue, Lists
  <2> QED BY <2>1, <2>2, <2>3, <2>4, <2>5 DEF Queries, PipeDistinct
<1> QED BY <1>1, <1>2, <1>3, <1>4, AllSteps

\* No step answers a request twice.
LEMMA AnsweringStep == TypeOK /\ Jobs /\ Answering /\ [Next]_vars => Answering'
<1> SUFFICES ASSUME TypeOK, Jobs, Answering, [Next]_vars PROVE Answering'
  OBVIOUS
<1>t. /\ at \in [Worker -> {at[w] : w \in Worker}] /\ Len(requests) \in Nat
      /\ job \in [Worker -> 0..Len(requests)] /\ setting.workers \subseteq Worker
  BY SettingFacts DEF TypeOK
<1>1. ASSUME NEW w \in setting.workers, threadRecvProcFunc(w) PROVE Answering'
  <2> DEFINE n == Len(requests)
  <2>1. /\ at[w] = "idle" /\ UNCHANGED answers /\ requests' \in Seq(setting.packets)
        /\ Len(requests') = n + 1
        /\ \A i \in 1..n : IsBook(i)' <=> IsBook(i)
        /\ \/ UNCHANGED <<at, job>>
           \/ /\ Passes(requests'[n + 1])
              /\ at' = [at EXCEPT ![w] = Handler(requests'[n + 1].msgCode)]
              /\ job' = [job EXCEPT ![w] = n + 1]
    BY <1>1, <1>t, RecvFacts
  <2>2. Answered' = Answered /\ n + 1 \notin Answered /\ n + 1 # 0
    <3>1. Answered' = Answered
      BY <2>1 DEF Answered
    <3>2. Answered \subseteq 1..n /\ n + 1 \notin 1..n
      BY <1>t, PipeTypes
    <3> QED BY <1>t, <3>1, <3>2
  <2>3. \A v \in Worker : job[v] # 0 => job[v] \in 1..n
    BY <1>t
  <2>4. CASE UNCHANGED <<at, job>>
    BY <2>1, <2>2, <2>3, <2>4 DEF Answering
  <2>5. CASE /\ Passes(requests'[n + 1])
             /\ at' = [at EXCEPT ![w] = Handler(requests'[n + 1].msgCode)]
             /\ job' = [job EXCEPT ![w] = n + 1]
    <3>1. requests'[n + 1] \in Packet
      BY <1>t, <2>1, SettingFacts
    <3>2. at'[w] # "idle" /\ job'[w] = n + 1
      BY <1>t, <2>5, <3>1, HandlerFacts, AtFacts DEF Ended, Steps
    <3>3. \A v \in Worker : v # w => at'[v] = at[v] /\ job'[v] = job[v]
      BY <1>t, <2>5
    <3>4. ASSUME NEW v \in Worker, job'[v] # 0
          PROVE  IF at'[v] = "idle" THEN IsBook(job[v])' => job'[v] \in Answered'
                                    ELSE job'[v] \notin Answered'
      <4>1. CASE v = w BY <2>2, <3>2, <4>1
      <4>2. CASE v # w BY <2>1, <2>2, <2>3, <3>3, <3>4, <4>2 DEF Answering
      <4> QED BY <4>1, <4>2
    <3> QED BY <2>1, <3>4 DEF Answering
  <2> QED BY <2>1, <2>4, <2>5
<1>2. ASSUME NEW w \in setting.workers, NEW text \in Texts, Ends(w, text) PROVE Answering'
  <2> DEFINE n == Len(answers)
  <2>1. /\ n \in Nat /\ \A k \in 1..n : answers'[k] = answers[k]
        /\ answers'[n + 1].request = job[w]
        /\ DOMAIN answers = 1..n /\ DOMAIN answers' = 1..(n + 1)
        /\ at[w] \in Steps /\ at' = [at EXCEPT ![w] = "idle"]
        /\ UNCHANGED <<requests, job>>
    BY <1>2, <1>t, EndFacts
  <2>2. 1..(n + 1) = 1..n \cup {n + 1} /\ n + 1 \notin 1..n
    BY <2>1
  <2>3. Answered' = Answered \cup {job[w]}
    BY <2>1, <2>2 DEF Answered
  <2>4. job[w] # 0 /\ job[w] \notin Answered
    BY <1>t, <2>1, AtFacts, AtWork DEF Answering, Ended
  <2>5. \A k, l \in DOMAIN answers' : answers'[k].request = answers'[l].request => k = l
    BY <2>1, <2>2, <2>4 DEF Answering, Answered
  <2>6. \A v \in Worker : v # w /\ job[v] # 0 => job[v] # job[w] /\ at'[v] = at[v]
    BY <1>t, <2>1 DEF Jobs
  <2>7. \A i : IsBook(i)' <=> IsBook(i)
    BY <2>1 DEF IsBook, Passes
  <2> QED BY <1>t, <2>1, <2>3, <2>5, <2>6, <2>7 DEF Answering
<1>3. ASSUME UNCHANGED <<requests, job, answers>>,
             NEW w \in setting.workers, NEW x, at' = [at EXCEPT ![w] = x],
             job[w] # 0 => IF x = "idle" THEN ~IsBook(job[w]) ELSE at[w] # "idle"
      PROVE  Answering'
  <2>1. Answered' = Answered /\ \A i : IsBook(i)' <=> IsBook(i)
    BY <1>3 DEF Answered, IsBook, Passes
  <2>2. at'[w] = x /\ \A v \in Worker : v # w => at'[v] = at[v]
    BY <1>t, <1>3
  <2> QED BY <1>3, <2>1, <2>2 DEF Answering
<1>4. ASSUME UNCHANGED <<requests, job, at, answers>> PROVE Answering'
  <2>1. Answered' = Answered /\ \A i : IsBook(i)' <=> IsBook(i)
    BY <1>4 DEF Answered, IsBook, Passes
  <2> QED BY <1>4, <2>1 DEF Answering
<1>5. ASSUME NEW w \in setting.workers, SendQuery(w) PROVE Answering'
  <2>1. /\ at[w] \in BookHandlers /\ at' = [at EXCEPT ![w] = "mysql_query"]
        /\ UNCHANGED <<requests, job, answers>>
    BY <1>5 DEF SendQuery, HasBook
  <2>2. at[w] # "idle"
    BY <2>1, AtFacts DEF Steps, Ended
  <2> QED BY <1>3, <2>1, <2>2
<1>6. CASE Execute
  BY <1>4, <1>6 DEF Execute
<1>7. CASE Others
  <2>1. UNCHANGED <<requests, job>>
    BY <1>7, OthersFacts
  <2>2. ASSUME NEW w \in setting.workers, NEW x \in {"idle", "exited"}, at[w] = "init",
               at' = [at EXCEPT ![w] = x], UNCHANGED answers
        PROVE  Answering'
    <3>1. job[w] = 0
      BY <1>t, <2>2 DEF Jobs
    <3> QED BY <1>3, <2>1, <2>2, <3>1
  <2>3. ASSUME NEW w \in setting.workers, at[w] \in Plain, at' = [at EXCEPT ![w] = "idle"],
               UNCHANGED answers
        PROVE  Answering'
    <3>1. ~IsBook(job[w])
      BY <1>t, <2>3, AtWork DEF IsBook, Steps
    <3> QED BY <1>3, <2>1, <2>3, <3>1
  <2>4. ASSUME NEW w \in setting.workers, NEW x \in {"mysql_store_result", "crashed"},
               at[w] \in Steps \ Plain, at' = [at EXCEPT ![w] = x], UNCHANGED answers
        PROVE  Answering'
    <3>1. at[w] # "idle" /\ x # "idle"
      BY <2>4, AtFacts DEF Ended
    <3> QED BY <1>3, <2>1, <2>4, <3>1
  <2> QED BY <1>2, <1>4, <1>7, <2>1, <2>2, <2>3, <2>4, OthersAt
<1> QED BY <1>1, <1>5, <1>6, <1>7, AllSteps

(* What one process alone finds on the connection *)

\* What comes to w: first what it has received.
LEMMA ComingFacts ==
  ASSUME TypeOK, NEW w \in Worker
  PROVE  /\ Coming(w) \in Seq(Part) /\ DOMAIN Coming(w) = 1..Len(Coming(w))
         /\ Len(Coming(w)) = Len(received[w]) + Len(replies)
         /\ Coming(w) = <<>> <=> received[w] = <<>> /\ replies = <<>>
         /\ received[w] # <<>> => Coming(w) # <<>> /\ Coming(w)[1] = Head(received[w])
         /\ Coming(w) # <<>> => Len(Coming(w)) \in Nat \ {0} /\ 1 \in DOMAIN Coming(w)
         /\ Queries => \A k \in DOMAIN Coming(w) : PartTrue(Coming(w)[k])
<1> DEFINE c == Coming(w)
           r == received[w]
<1>1. r \in Seq(Part) /\ replies \in Seq(Part) /\ c = r \o replies
  BY PacketTypes DEF Coming
<1> HIDE DEF c, r, Part
<1>2. /\ c \in Seq(Part) /\ Len(c) = Len(r) + Len(replies)
      /\ \A k \in 1..(Len(r) + Len(replies)) :
           c[k] = IF k <= Len(r) THEN r[k] ELSE replies[k - Len(r)]
      /\ ToSet(c) = ToSet(r) \cup ToSet(replies)
  BY <1>1, InARow
<1>3. DOMAIN c = 1..Len(c) /\ Len(r) \in Nat /\ Len(replies) \in Nat
  BY <1>1, <1>2
<1>4. /\ c = <<>> <=> Len(c) = 0
      /\ r = <<>> <=> Len(r) = 0
      /\ replies = <<>> <=> Len(replies) = 0
  BY <1>1, <1>2
<1>5. r # <<>> => c # <<>> /\ c[1] = Head(r)
  <2>1. r # <<>> => 1 \in 1..(Len(r) + Len(replies)) /\ 1 <= Len(r)
    BY <1>3, <1>4
  <2> QED BY <1>1, <1>2, <1>3, <1>4, <2>1
<1>6. c = <<>> <=> r = <<>> /\ replies = <<>>
  BY <1>2, <1>3, <1>4
<1>7. c # <<>> => Len(c) \in Nat \ {0} /\ 1 \in DOMAIN c
  BY <1>2, <1>3, <1>4
<1>8. ASSUME Queries, NEW k \in DOMAIN c PROVE PartTrue(c[k])
  <2>1. c[k] \in ToSet(r) \cup ToSet(replies)
    BY <1>2 DEF ToSet
  <2> QED BY <1>8, <2>1 DEF Queries, r
<1> QED BY <1>2, <1>3, <1>5, <1>6, <1>7, <1>8 DEF c, r

\* A packet that is read was the first.
LEMMA ComingRead ==
  ASSUME TypeOK, NEW w \in Worker, received[w] # <<>>, Read(w), UNCHANGED replies
  PROVE  /\ Coming(w)' \in Seq(Part) /\ Len(Coming(w)') = Len(Coming(w)) - 1
         /\ \A k \in 1..(Len(Coming(w)) - 1) : Coming(w)'[k] = Coming(w)[k + 1]
<1> DEFINE r == received[w]
           t == Tail(r)
<1>1. r \in Seq(Part) /\ replies \in Seq(Part) /\ r # <<>> /\ received \in [Worker -> Seq(Part)]
  BY PacketTypes
<1>2. received'[w] = t
  BY <1>1 DEF Read
<1>3. Coming(w) = r \o replies /\ Coming(w)' = t \o replies
  BY <1>2 DEF Coming
<1> HIDE DEF r, Part
<1>4. /\ t \in Seq(Part) /\ Len(r) \in Nat \ {0} /\ Len(t) = Len(r) - 1
      /\ \A k \in 1..(Len(r) - 1) : t[k] = r[k + 1]
  BY <1>1, TailSet
<1> HIDE DEF t
<1> DEFINE n == Len(replies)
<1>5. /\ r \o replies \in Seq(Part) /\ Len(r \o replies) = Len(r) + n
      /\ \A k \in 1..(Len(r) + n) :
           (r \o replies)[k] = IF k <= Len(r) THEN r[k] ELSE replies[k - Len(r)]
      /\ t \o replies \in Seq(Part) /\ Len(t \o replies) = Len(t) + n
      /\ \A k \in 1..(Len(t) + n) :
           (t \o replies)[k] = IF k <= Len(t) THEN t[k] ELSE replies[k - Len(t)]
  BY <1>1, <1>4, InARow
<1>6. n \in Nat
  BY <1>1
<1>7. ASSUME NEW k \in 1..(Len(r) + n - 1) PROVE (t \o replies)[k] = (r \o replies)[k + 1]
  <2>1. k \in 1..(Len(t) + n) /\ k + 1 \in 1..(Len(r) + n) /\ k - Len(t) = k + 1 - Len(r)
        /\ (k <= Len(t) <=> k + 1 <= Len(r)) /\ (k <= Len(t) => k \in 1..(Len(r) - 1))
    BY <1>4, <1>6
  <2>2. CASE k <= Len(t)
    BY <1>4, <1>5, <2>1, <2>2
  <2>3. CASE ~(k <= Len(t))
    BY <1>5, <2>1, <2>3
  <2> QED BY <2>2, <2>3
<1>8. Len(t) + n = Len(r) + n - 1
  BY <1>4, <1>6
<1> QED BY <1>3, <1>5, <1>7, <1>8

\* recv only moves what comes nearer.
LEMMA ComingRecv ==
  ASSUME TypeOK, NEW w \in Worker, Recv(w)
  PROVE  Coming(w)' = Coming(w)
<1>1. replies \in Seq(Part) /\ received \in [Worker -> Seq(Part)]
  BY PacketTypes
<1>2. PICK n \in 1..Len(replies) :
        /\ received' = [received EXCEPT ![w] = SubSeq(replies, 1, n)]
        /\ replies' = SubSeq(replies, n + 1, Len(replies))
  BY DEF Recv
<1> DEFINE a == SubSeq(replies, 1, n)
           b == SubSeq(replies, n + 1, Len(replies))
<1>3. Coming(w)' = a \o b /\ Coming(w) = <<>> \o replies
  BY <1>1, <1>2 DEF Recv, Coming
<1>4. n \in 0..Len(replies) /\ Len(replies) \in Nat
  BY <1>1
<1> HIDE DEF Part
<1>5. /\ a \in Seq(Part) /\ Len(a) = n /\ \A k \in 1..n : a[k] = replies[k]
      /\ b \in Seq(Part) /\ Len(b) = Len(replies) - n
      /\ \A k \in 1..(Len(replies) - n) : b[k] = replies[n + k]
  BY <1>1, <1>4, Cut
<1> HIDE DEF a, b
<1>6. <<>> \in Seq(Part) /\ Len(<<>>) = 0
  OBVIOUS
<1>7. /\ a \o b \in Seq(Part) /\ Len(a \o b) = Len(a) + Len(b)
      /\ \A k \in 1..(Len(a) + Len(b)) : (a \o b)[k] = IF k <= Len(a) THEN a[k] ELSE b[k - Len(a)]
  BY <1>5, InARow
<1>8. <<>> \o replies = replies
  BY <1>1
<1>9. ASSUME NEW k \in 1..Len(replies) PROVE (a \o b)[k] = replies[k]
  <2>1. k \in 1..(Len(a) + Len(b)) /\ (k <= n => k \in 1..n)
        /\ (~(k <= n) => k - n \in 1..(Len(replies) - n) /\ n + (k - n) = k)
    BY <1>4, <1>5
  <2> QED BY <1>5, <1>7, <2>1
<1>10. Len(a \o b) = Len(replies)
  BY <1>4, <1>5, <1>7
<1>11. a \o b = replies
  <2> DEFINE c == a \o b
  <2>1. c \in Seq(Part) /\ Len(c) = Len(replies) /\ \A k \in 1..Len(replies) : c[k] = replies[k]
    BY <1>7, <1>9, <1>10
  <2> HIDE DEF c
  <2>2. c = replies
    BY <1>1, <2>1, SeqEqual
  <2> QED BY <2>2 DEF c
<1> QED BY <1>3, <1>8, <1>11

\* The end of the connection cuts what comes.
LEMMA ComingShut ==
  ASSUME TypeOK, NEW w \in Worker, ShutOrNot, UNCHANGED received
  PROVE  /\ Coming(w)' \in Seq(Part) /\ Len(Coming(w)') <= Len(Coming(w))
         /\ \A k \in 1..Len(Coming(w)') : Coming(w)'[k] = Coming(w)[k]
<1>1. replies \in Seq(Part) /\ received[w] \in Seq(Part)
      /\ Coming(w)' = received[w] \o replies' /\ Coming(w) = received[w] \o replies
  BY PacketTypes DEF Coming
<1>2. replies' \in Seq(Part) /\ Len(replies') <= Len(replies)
      /\ \A k \in 1..Len(replies') : replies'[k] = replies[k]
  <2>1. CASE ShutDown
    <3>1. PICK n \in 0..Len(replies) : replies' = SubSeq(replies, 1, n)
      BY <2>1 DEF ShutDown
    <3>2. Len(replies) \in Nat
      BY <1>1
    <3> HIDE DEF Part
    <3>3. /\ replies' \in Seq(Part) /\ Len(replies') = n
          /\ \A k \in 1..n : replies'[k] = replies[k]
      BY <1>1, <3>1, Cut
    <3> QED BY <3>2, <3>3
  <2>2. CASE UNCHANGED replies
    BY <1>1, <2>2
  <2> QED BY <2>1, <2>2 DEF ShutOrNot
<1> DEFINE r == received[w]
           n == Len(replies)
           m == Len(replies')
<1> HIDE DEF r, Part
<1>3. /\ r \o replies \in Seq(Part) /\ Len(r \o replies) = Len(r) + n
      /\ \A k \in 1..(Len(r) + n) :
           (r \o replies)[k] = IF k <= Len(r) THEN r[k] ELSE replies[k - Len(r)]
      /\ r \o replies' \in Seq(Part) /\ Len(r \o replies') = Len(r) + m
      /\ \A k \in 1..(Len(r) + m) :
           (r \o replies')[k] = IF k <= Len(r) THEN r[k] ELSE replies'[k - Len(r)]
  BY <1>1, <1>2, InARow DEF r
<1>4. Len(r) \in Nat /\ n \in Nat /\ m \in Nat /\ m <= n
  BY <1>1, <1>2 DEF r
<1>5. ASSUME NEW k \in 1..(Len(r) + m) PROVE (r \o replies')[k] = (r \o replies)[k]
  <2>1. k \in 1..(Len(r) + n) /\ (~(k <= Len(r)) => k - Len(r) \in 1..m)
    BY <1>4
  <2> QED BY <1>2, <1>3, <2>1
<1>6. Len(r) + m <= Len(r) + n
  BY <1>4
<1> QED BY <1>1, <1>3, <1>5, <1>6 DEF r

\* The answers so far stay true.
LEMMA AnswersKept ==
  ASSUME TypeOK, UNCHANGED answers, FeedbackTrue, ExecutedBeforeAnswer,
         \A i \in Answered : executed[i] # "nothing" => executed'[i] = executed[i],
         \A i \in Answered : (executed'[i] = executed[i]) \/ session # "open",
         \A i \in Answered : (Handler(requests[i].msgCode) \in BookHandlers)'
                               = (Handler(requests[i].msgCode) \in BookHandlers),
         session # "open" => session' # "open"
  PROVE  FeedbackTrue' /\ ExecutedBeforeAnswer'
<1>1. \A k \in DOMAIN answers : answers[k].request \in Answered
  BY DEF Answered
<1>2. FeedbackTrue'
  BY <1>1 DEF FeedbackTrue
<1>3. ExecutedBeforeAnswer'
  BY <1>1 DEF ExecutedBeforeAnswer
<1> QED BY <1>2, <1>3

\* An answer that is true is one more.
LEMMA AnswerTrue ==
  ASSUME TypeOK, Jobs, NEW w \in Worker, NEW text \in Texts, Ends(w, text), UNCHANGED session,
         FeedbackTrue, ExecutedBeforeAnswer,
         text = "success" => executed[job[w]] = "done",
         text = "failure" => executed[job[w]] # "done" \/ session # "open",
         \/ executed[job[w]] # "nothing" \/ Handler(requests[job[w]].msgCode) \notin BookHandlers
         \/ text = "invalid" \/ session # "open"
  PROVE  FeedbackTrue' /\ ExecutedBeforeAnswer'
<1> DEFINE n == Len(answers)
           i == job[w]
<1>1. /\ n \in Nat /\ \A k \in 1..n : answers'[k] = answers[k]
      /\ answers'[n + 1].request = i /\ answers'[n + 1].text = text
      /\ DOMAIN answers = 1..n /\ DOMAIN answers' = 1..(n + 1)
      /\ UNCHANGED <<requests, job, executed>>
  BY EndFacts
<1>2. 1..(n + 1) = 1..n \cup {n + 1}
  BY <1>1
<1>3. FeedbackTrue'
  BY <1>1, <1>2 DEF FeedbackTrue
<1>4. ExecutedBeforeAnswer'
  BY <1>1, <1>2 DEF ExecutedBeforeAnswer
<1> QED BY <1>3, <1>4

\* Outside of the library nothing is left, inside there is the rest of the reply.
AtRest(w) ==
  Coming(w) = <<>> /\ status[w] # "result" /\ (InPipe = {} \/ status[w] = "lost")

InCall(w) ==
  /\ InPipe \subseteq {job[w]}
  /\ \A k \in DOMAIN Coming(w) :
       /\ Coming(w)[k].request = job[w]
       /\ Coming(w)[k].part = "rows" <=> k = (IF at[w] = "mysql_query" THEN 2 ELSE 1)
  /\ Coming(w) # <<>> =>
       /\ Len(Coming(w)) <= Size(Coming(w))
       /\ session = "open" => Len(Coming(w)) = Size(Coming(w))
  /\ Coming(w) = <<>> /\ session = "open" => at[w] = "mysql_query" /\ InPipe = {job[w]}

Owns(w) ==
  /\ at[w] \notin LibraryCalls => AtRest(w)
  /\ at[w] \in LibraryCalls => InCall(w)
  /\ at[w] = "mysql_store_result" => Lists(job[w])
  /\ status[w] = "lost" => session # "open"

\* What w reads is of its own request, which MySQL has executed.
LEMMA ReadsOwn ==
  ASSUME TypeOK, Queries, NEW w \in Worker, InCall(w), at[w] \in LibraryCalls, Coming(w) # <<>>
  PROVE  /\ Coming(w)[1].request = job[w] /\ PartTrue(Coming(w)[1])
         /\ Coming(w)[1].part \in {"ok", "error", "columns", "rows"}
         /\ Coming(w)[1].part = "rows" <=> at[w] = "mysql_store_result"
         /\ executed[job[w]] = IF Coming(w)[1].part = "error" THEN "refused" ELSE "done"
         /\ InPipe = {}
         /\ received[w] # <<>> => Fits(w) /\ Packet1(w) = Coming(w)[1].part
<1>1. 1 \in DOMAIN Coming(w) /\ PartTrue(Coming(w)[1]) /\ Coming(w)[1] \in Part
  BY ComingFacts
<1>2. Coming(w)[1].request = job[w]
      /\ (Coming(w)[1].part = "rows" <=> at[w] = "mysql_store_result")
  BY <1>1 DEF InCall, LibraryCalls
<1>3. executed[job[w]] = IF Coming(w)[1].part = "error" THEN "refused" ELSE "done"
  BY <1>1, <1>2 DEF PartTrue
<1>4. InPipe = {}
  BY <1>3 DEF InCall, Queries
<1>5. received[w] # <<>> => Fits(w) /\ Packet1(w) = Coming(w)[1].part
  BY <1>2, ComingFacts DEF Fits, Packet1, LibraryCalls
<1>6. Coming(w)[1].part \in {"ok", "error", "columns", "rows"}
  BY <1>1, PacketTypes
<1> QED BY <1>1, <1>2, <1>3, <1>4, <1>5, <1>6

\* With one worker no step leaves another packet on the connection than its own.
LEMMA OwnStep ==
  ASSUME TypeOK, Jobs, Queries, Answering, NEW w \in Worker, setting.workers = {w},
         Owns(w), FeedbackTrue, ExecutedBeforeAnswer, [Next]_vars
  PROVE  Owns(w)' /\ FeedbackTrue' /\ ExecutedBeforeAnswer'
<1> DEFINE True == FeedbackTrue' /\ ExecutedBeforeAnswer'
           c == Coming(w)
           d == Coming(w)'
<1>t. /\ Len(requests) \in Nat /\ at \in [Worker -> {at[v] : v \in Worker}]
      /\ status \in [Worker -> {"ready", "result", "lost"}]
      /\ executed \in [1..Len(requests) -> {"nothing", "done", "refused"}]
      /\ session \in {"open", "shut", "closed"} /\ received \in [Worker -> Seq(Part)]
      /\ replies \in Seq(Part)
  BY PacketTypes DEF TypeOK
<1>a. /\ Answered \subseteq 1..Len(requests)
      /\ InPipe \subseteq 1..Len(requests)
  BY PipeTypes
<1>k. ASSUME UNCHANGED <<requests, executed, answers>>, session # "open" => session' # "open"
      PROVE  True
  BY <1>k, AnswersKept
<1>q. ASSUME UNCHANGED <<received, replies>> PROVE d = c
  BY <1>q DEF Coming
<1>p. ASSUME pipe' = pipe \/ pipe' = Append(pipe, Quit) PROVE InPipe' = InPipe
  <2>1. PipeDistinct /\ Quit \in Nat /\ Quit \notin InPipe
    BY DEF PipeDistinct, Queries, Quit, InPipe
  <2>2. CASE pipe' = pipe BY <2>2 DEF InPipe
  <2>3. CASE pipe' = Append(pipe, Quit) BY <2>1, <2>3, PipeAppend
  <2> QED BY <1>p, <2>2, <2>3
<1>l. LibraryCalls = {"mysql_query", "mysql_store_result"}
  BY DEF LibraryCalls
<1> HIDE DEF True
<1>1. ASSUME threadRecvProcFunc(w) PROVE Owns(w)' /\ True
  <2> DEFINE n == Len(requests)
  <2>1. /\ at[w] = "idle" /\ UNCHANGED <<status, received, pipe, session, replies, answers>>
        /\ requests' \in Seq(setting.packets) /\ Len(requests') = n + 1
        /\ \A i \in 1..n : requests'[i] = requests[i] /\ executed'[i] = executed[i]
        /\ \/ UNCHANGED <<at, job>>
           \/ /\ Passes(requests'[n + 1])
              /\ at' = [at EXCEPT ![w] = Handler(requests'[n + 1].msgCode)]
    BY <1>1, RecvFacts
  <2>2. at'[w] \notin LibraryCalls
    <3>1. requests'[n + 1] \in Packet
      BY <1>t, <2>1, SettingFacts
    <3> QED BY <1>t, <1>l, <2>1, <3>1, HandlerFacts, AtFacts
  <2>3. AtRest(w)'
    <3>1. at[w] = "idle"
      BY <2>1
    <3>2. at[w] \notin LibraryCalls
      BY ONLY <1>l, <3>1
    <3>3. AtRest(w)
      BY ONLY Owns(w), <3>2 DEF Owns
    <3>4. d = c
      BY <1>q, <2>1
    <3>5. status' = status /\ InPipe' = InPipe
      BY <1>p, <2>1
    <3> QED BY ONLY <3>3, <3>4, <3>5 DEF AtRest
  <2>4. True
    BY <1>a, <2>1, AnswersKept DEF True
  <2> QED BY <1>l, <2>1, <2>2, <2>3, <2>4 DEF Owns
<1>2. ASSUME SendQuery(w) PROVE Owns(w)' /\ True
  <2>1. /\ at[w] \in BookHandlers /\ at'[w] = "mysql_query" /\ status[w] = "ready"
        /\ pipe' = Append(pipe, job[w])
        /\ UNCHANGED <<requests, job, status, received, session, replies, executed, answers>>
    BY <1>2, <1>t DEF SendQuery, HasBook, clientVars
  <2>2. c = <<>> /\ InPipe = {}
    BY <2>1, AtFacts DEF Owns, AtRest
  <2>3. job[w] \in 1..Len(requests) /\ PipeDistinct
    BY <2>1, AtFacts, AtWork DEF Steps, PipeDistinct, Queries
  <2>4. InPipe' = {job[w]}
    <3>1. job[w] \in Nat /\ job[w] \notin InPipe /\ job[w] # Quit
      BY <2>2, <2>3 DEF Quit
    <3> QED BY <2>1, <2>2, <2>3, <3>1, PipeAppend
  <2>5. d = <<>>
    BY <1>q, <2>1, <2>2
  <2>6. InCall(w)'
    <3>1. DOMAIN d = {}
      BY <2>5
    <3> QED BY <2>1, <2>4, <2>5, <3>1 DEF InCall
  <2> QED BY <1>k, <1>l, <2>1, <2>6 DEF Owns
<1>3. ASSUME Execute PROVE Owns(w)' /\ True
  <2>1. /\ pipe # <<>> /\ Head(pipe) # Quit /\ pipe' = Tail(pipe)
        /\ UNCHANGED <<requests, at, job, status, received, session, answers>>
    BY <1>3 DEF Execute, clientVars
  <2>2. PICK i : i = Head(pipe)
    OBVIOUS
  <2>3. PICK ok \in BOOLEAN :
          /\ executed' = [executed EXCEPT ![i] = IF ok THEN "done" ELSE "refused"]
          /\ replies' = IF session = "open" THEN replies \o Reply(i, ok) ELSE replies
    BY <1>3, <2>2 DEF Execute
  <2>4. i \in InPipe /\ InPipe' = InPipe \ {i}
    <3>1. PipeDistinct
      BY DEF Queries, PipeDistinct
    <3> QED BY <2>1, <2>2, <3>1, PipeTail
  <2>5. i \in 1..Len(requests) /\ executed[i] = "nothing"
    BY <1>a, <2>4 DEF Queries
  <2>6. CASE session = "open"
    <3>1. at[w] \in LibraryCalls /\ i = job[w] /\ InPipe' = {}
      BY <2>4, <2>6 DEF Owns, AtRest, InCall
    <3>2. c = <<>>
      BY <2>5, <3>1, ReadsOwn DEF Owns
    <3>3. at[w] = "mysql_query" /\ replies = <<>> /\ received[w] = <<>>
      BY <2>6, <3>1, <3>2, ComingFacts DEF Owns, InCall
    <3>4. d = Reply(i, ok)
      <4>1. Reply(i, ok) \in Seq(Part)
        BY <2>5, ReplyFacts
      <4>2. d = <<>> \o (<<>> \o Reply(i, ok))
        BY <2>1, <2>3, <2>6, <3>3 DEF Coming
      <4> HIDE DEF Part
      <4> QED BY <4>1, <4>2
    <3>5. InCall(w)'
      <4>1. PICK r \in Seq(Part) : r = Reply(i, ok)
        BY <2>5, ReplyFacts
      <4>2. /\ r # <<>> /\ Len(r) = Size(r) /\ DOMAIN r = 1..Len(r)
            /\ \A k \in 1..Len(r) : r[k].request = i /\ (r[k].part = "rows" <=> k = 2)
        BY <2>5, <4>1, ReplyFacts
      <4>3. Len(r) <= Size(r)
        BY <4>2
      <4>4. d = r /\ Size(Coming(w))' = Size(r)
        BY <3>4, <4>1 DEF Size
      <4> QED BY <2>1, <3>1, <3>3, <4>2, <4>3, <4>4 DEF InCall
    <3>6. i \notin Answered
      BY <3>1, <1>l, <2>5 DEF Answering, Quit
    <3>7. True
      <4>1. \A j \in Answered : executed'[j] = executed[j]
        BY <1>t, <1>a, <2>3, <3>6
      <4> QED BY <2>1, <4>1, AnswersKept DEF True
    <3> QED BY <1>l, <2>1, <3>1, <3>3, <3>5, <3>7 DEF Owns
  <2>7. CASE session # "open"
    <3>1. replies' = replies
      BY <2>3, <2>7
    <3>2. d = c
      BY <1>q, <2>1, <3>1
    <3>3. True
      <4>1. \A j \in Answered : executed[j] # "nothing" => executed'[j] = executed[j]
        BY <1>t, <1>a, <2>3, <2>5
      <4> QED BY <2>1, <2>7, <4>1, AnswersKept DEF True
    <3>4. CASE at[w] \notin LibraryCalls
      <4>1. AtRest(w)'
        BY <2>1, <2>4, <3>2, <3>4 DEF Owns, AtRest
      <4> QED BY <1>l, <2>1, <2>7, <3>3, <3>4, <4>1 DEF Owns
    <3>5. CASE at[w] \in LibraryCalls
      <4>1. InCall(w)'
        BY <2>1, <2>4, <2>7, <3>2, <3>5 DEF Owns, InCall, Size
      <4>2. Lists(job[w])' = Lists(job[w])
        BY <2>1 DEF Lists
      <4> QED BY <2>1, <2>7, <3>3, <3>5, <4>1, <4>2 DEF Owns
    <3> QED BY <3>4, <3>5
  <2> QED BY <2>6, <2>7
<1>4. ASSUME Others PROVE Owns(w)' /\ True
  <2>o. /\ UNCHANGED <<requests, job, executed>>
        /\ session' \in {"open", "shut", "closed"}
        /\ session # "open" => session' # "open"
        /\ InPipe' = InPipe
    BY <1>4, <1>p, <1>t, OthersFacts
  <2>l. Lists(job[w])' <=> Lists(job[w])
    BY <2>o DEF Lists
  <2>r. ASSUME at[w] \notin LibraryCalls, at'[w] \notin LibraryCalls,
               UNCHANGED <<received, replies>> \/ (received'[w] = <<>> /\ replies' = <<>>),
               status'[w] = status[w]
        PROVE  Owns(w)'
    <3>1. AtRest(w) /\ c = <<>>
      BY <2>r DEF Owns, AtRest
    <3>2. d = <<>>
      <4>1. CASE UNCHANGED <<received, replies>>
        BY <1>q, <3>1, <4>1
      <4>2. CASE received'[w] = <<>> /\ replies' = <<>>
        BY <4>2 DEF Coming
      <4> QED BY <2>r, <4>1, <4>2
    <3> QED BY <1>l, <2>o, <2>r, <3>1, <3>2 DEF Owns, AtRest
  <2>q. ASSUME Quiet, at[w] \notin LibraryCalls, at'[w] \notin LibraryCalls PROVE Owns(w)'
    <3>1. UNCHANGED <<received, replies>> /\ status'[w] = status[w]
      BY <2>q DEF Quiet
    <3> QED BY <2>r, <2>q, <3>1
  <2>1. ASSUME Drops(w) PROVE Owns(w)' /\ True
    <3>1. at[w] \in Plain /\ at'[w] = "idle" /\ Quiet /\ UNCHANGED answers
      BY <1>t, <2>1 DEF Drops, Silent
    <3> QED BY <1>k, <1>l, <2>o, <2>q, <3>1, AtFacts
  <2>2. ASSUME NullBody(w) PROVE Owns(w)' /\ True
    <3>1. /\ at[w] \in BookHandlers /\ at'[w] = "crashed"
          /\ received'[w] = <<>> /\ UNCHANGED <<status, session, replies, answers>>
      BY <1>t, <2>2, AtFacts DEF NullBody, mysqlVars
    <3>2. replies = <<>>
      BY <3>1, AtFacts, ComingFacts DEF Owns, AtRest
    <3> QED BY <1>k, <1>l, <2>o, <2>r, <3>1, <3>2, AtFacts
  <2>3. ASSUME Recv(w) PROVE Owns(w)' /\ True
    <3>1. d = c /\ UNCHANGED <<at, status, session, answers>>
      BY <2>3, ComingRecv DEF Recv
    <3>2. at[w] \notin LibraryCalls => AtRest(w)'
      BY <2>o, <3>1 DEF Owns, AtRest
    <3>3. at[w] \in LibraryCalls => InCall(w)'
      BY <2>o, <3>1 DEF Owns, InCall, Size
    <3> QED BY <1>k, <2>o, <2>l, <3>1, <3>2, <3>3 DEF Owns
  <2>4. ASSUME ngx_worker_process_init(w) PROVE Owns(w)' /\ True
    <3>1. /\ at[w] = "init" /\ at'[w] \in {"idle", "exited"} /\ ShutOrNot
          /\ UNCHANGED <<status, received, answers>>
      BY <1>t, <2>4 DEF ngx_worker_process_init, mysql_close, ShutOrNot, clientVars
    <3>2. replies = <<>> /\ received[w] = <<>>
      BY <1>l, <3>1, ComingFacts DEF Owns, AtRest
    <3>3. replies' = <<>>
      <4>1. replies' \in Seq(Part) /\ ToSet(replies') \subseteq ToSet(replies)
        BY <3>1, ShutFacts
      <4>2. DOMAIN replies' = {}
        <5>1. ToSet(replies) = {}
          BY <3>2 DEF ToSet
        <5>2. \A k \in DOMAIN replies' : replies'[k] \in ToSet(replies')
          BY DEF ToSet
        <5> QED BY <4>1, <5>1, <5>2
      <4> HIDE DEF Part
      <4>3. DOMAIN replies' = 1..Len(replies') /\ Len(replies') \in Nat
        BY <4>1
      <4>4. Len(replies') = 0
        BY <4>2, <4>3
      <4> QED BY <4>1, <4>4
    <3> QED BY <1>k, <1>l, <2>o, <2>r, <3>1, <3>2, <3>3
  <2>s. ASSUME UNCHANGED <<received, at, status, answers>>,
               ShutOrNot \/ UNCHANGED replies
        PROVE  Owns(w)' /\ True
    <3>1. PICK e \in Seq(Part) : e = d /\ Len(e) <= Len(c) /\ \A k \in 1..Len(e) : e[k] = c[k]
      <4>1. CASE ShutOrNot
        BY <2>s, <4>1, ComingShut
      <4>2. CASE UNCHANGED replies
        BY <1>q, <2>s, <4>2, ComingFacts
      <4> QED BY <2>s, <4>1, <4>2
    <3>2. session' = "open" => session = "open" /\ e = c
      <4>1. session' = "open" => session = "open"
        BY <1>t, <2>o
      <4>2. session' = "open" => UNCHANGED replies
        BY <2>s, ShutFacts
      <4> QED BY <1>q, <2>s, <3>1, <4>1, <4>2
    <3>3. c \in Seq(Part) /\ DOMAIN c = 1..Len(c) /\ Len(c) \in Nat
      BY ComingFacts
    <3>4. /\ DOMAIN e = 1..Len(e) /\ Len(e) \in Nat /\ DOMAIN e \subseteq DOMAIN c
          /\ e # <<>> => 1 \in 1..Len(e)
          /\ c = <<>> => e = <<>>
      <4> HIDE DEF Part, c
      <4>1. c = <<>> => Len(c) = 0
        OBVIOUS
      <4>2. e = <<>> <=> Len(e) = 0
        OBVIOUS
      <4> QED BY <3>1, <3>3, <4>1, <4>2
    <3>5. at[w] \notin LibraryCalls => AtRest(w)'
      BY <2>o, <2>s, <3>1, <3>4 DEF Owns, AtRest
    <3>6. ASSUME at[w] \in LibraryCalls PROVE InCall(w)'
      <4>1. /\ InPipe \subseteq {job[w]}
            /\ \A k \in DOMAIN e :
                 /\ e[k].request = job[w]
                 /\ e[k].part = "rows" <=> k = (IF at[w] = "mysql_query" THEN 2 ELSE 1)
        BY <3>1, <3>4, <3>6 DEF Owns, InCall
      <4>2. e # <<>> => Size(e) = Size(c) /\ Len(e) <= Size(e)
        <5>1. e # <<>> => Size(e) = Size(c) /\ c # <<>>
          BY <3>1, <3>4 DEF Size
        <5>2. c # <<>> => Len(c) <= Size(c)
          BY <3>6 DEF Owns, InCall
        <5>3. Size(c) \in Nat
          BY DEF Size
        <5> QED BY <3>1, <3>3, <3>4, <5>1, <5>2, <5>3
      <4>3. e # <<>> /\ session' = "open" => Len(e) = Size(e)
        BY <3>2, <3>6 DEF Owns, InCall
      <4>4. e = <<>> /\ session' = "open" => at[w] = "mysql_query" /\ InPipe = {job[w]}
        BY <3>2, <3>6 DEF Owns, InCall
      <4>5. Size(Coming(w))' = Size(e)
        BY <3>1 DEF Size
      <4> QED BY <2>o, <2>s, <3>1, <4>1, <4>2, <4>3, <4>4, <4>5 DEF InCall
    <3>7. status'[w] = "lost" => session' # "open"
      BY <2>o, <2>s DEF Owns
    <3> QED BY <1>k, <2>o, <2>l, <2>s, <3>5, <3>6, <3>7 DEF Owns
  <2>5. ASSUME Hangup PROVE Owns(w)' /\ True
    BY <2>5, <2>s DEF Hangup, clientVars
  <2>6. ASSUME ParentExits PROVE Owns(w)' /\ True
    BY <2>6, <2>s DEF ParentExits, mysql_close, ShutOrNot, clientVars
  <2>7. ASSUME UNCHANGED vars PROVE Owns(w)' /\ True
    BY <2>7, <2>s DEF vars
  <2>8. ASSUME received[w] # <<>>, Read(w), UNCHANGED <<session, replies>>, at[w] \in LibraryCalls,
               at[w] = "mysql_query" => Fits(w)
        PROVE  /\ Packet1(w) = c[1].part /\ PartTrue(c[1]) /\ c[1].request = job[w]
               /\ c[1].part \in {"ok", "error", "columns", "rows"}
               /\ c[1].part = "rows" <=> at[w] = "mysql_store_result"
               /\ executed[job[w]] = IF c[1].part = "error" THEN "refused" ELSE "done"
               /\ InPipe = {} /\ d \in Seq(Part) /\ Len(c) \in Nat \ {0} /\ Len(d) = Len(c) - 1
               /\ \A k \in 1..(Len(c) - 1) : d[k] = c[k + 1]
               /\ Len(c) <= Size(c) /\ (session = "open" => Len(c) = Size(c))
    <3>1. c # <<>> /\ Len(c) \in Nat \ {0} /\ InCall(w)
      BY <2>8, ComingFacts DEF Owns
    <3>2. /\ d \in Seq(Part) /\ Len(d) = Len(c) - 1
          /\ \A k \in 1..(Len(c) - 1) : d[k] = c[k + 1]
      BY <2>8, ComingRead
    <3>3. Len(c) <= Size(c) /\ (session = "open" => Len(c) = Size(c))
      BY <3>1 DEF InCall
    <3> QED BY <2>8, <3>1, <3>2, <3>3, ReadsOwn
  <2>e. ASSUME received[w] # <<>>, Read(w), UNCHANGED <<session, replies>>, at[w] \in LibraryCalls,
               at[w] = "mysql_query" => Fits(w),
               c[1].part # "columns", at'[w] = "idle", status'[w] = "ready"
        PROVE  Owns(w)'
    <3>1. d \in Seq(Part) /\ Len(d) = 0
      BY <2>8, <2>e DEF Size
    <3>2. d = <<>>
      <4> HIDE DEF Part
      <4> QED BY <3>1
    <3>3. AtRest(w)'
      BY <2>8, <2>e, <2>o, <3>2 DEF AtRest
    <3> QED BY <1>l, <2>e, <3>3 DEF Owns
  <2>9. ASSUME ReadReply(w), Fetches(w) PROVE Owns(w)' /\ True
    <3>1. /\ received[w] # <<>> /\ Read(w) /\ UNCHANGED <<session, replies, answers>>
          /\ at[w] = "mysql_query" /\ Fits(w) /\ status'[w] = "result"
          /\ at'[w] = "mysql_store_result" /\ Packet1(w) = "columns" /\ Lists(job[w])
      BY <1>t, <2>9 DEF ReadReply, Fetches, mysqlVars
    <3>2. PICK e \in Seq(Part) :
            /\ e = d /\ Len(c) \in Nat \ {0} /\ Len(e) = Len(c) - 1
            /\ \A k \in 1..(Len(c) - 1) : e[k] = c[k + 1]
            /\ Len(c) <= 2 /\ (session = "open" => Len(c) = 2) /\ InPipe = {}
      BY <1>l, <2>8, <3>1 DEF Size
    <3>3. DOMAIN e = 1..Len(e) /\ DOMAIN c = 1..Len(c) /\ (e = <<>> <=> Len(e) = 0)
      <4>1. DOMAIN e = 1..Len(e) /\ (e = <<>> <=> Len(e) = 0)
        OBVIOUS
      <4> QED BY <4>1, ComingFacts
    <3>4. \A k \in DOMAIN e : k = 1 /\ e[k].request = job[w] /\ e[k].part = "rows"
      <4> SUFFICES ASSUME NEW k \in DOMAIN e
                   PROVE  k = 1 /\ e[k].request = job[w] /\ e[k].part = "rows"
        OBVIOUS
      <4>1. k = 1 /\ k + 1 = 2 /\ k \in 1..(Len(c) - 1) /\ k + 1 \in DOMAIN c
        BY <3>2, <3>3
      <4>2. c[k + 1].request = job[w] /\ c[k + 1].part = "rows"
        BY <1>l, <3>1, <4>1 DEF Owns, InCall
      <4> QED BY <3>2, <4>1, <4>2
    <3>5. e # <<>> => Len(e) = 1 /\ Size(e) = 1
      <4>1. e # <<>> => Len(e) = 1
        BY <3>2, <3>3
      <4>2. e # <<>> => e[1].part = "rows"
        BY <3>3, <3>4, <4>1
      <4> QED BY <4>1, <4>2 DEF Size
    <3>6. session = "open" => e # <<>>
      BY <3>2, <3>3
    <3>7. InCall(w)'
      <4>1. Size(Coming(w))' = Size(e)
        BY <3>2 DEF Size
      <4> QED BY <2>o, <3>1, <3>2, <3>4, <3>5, <3>6, <4>1 DEF InCall
    <3> QED BY <1>k, <1>l, <2>o, <2>l, <3>1, <3>7 DEF Owns
  <2>10. ASSUME NEW text \in Texts, Ends(w, text) PROVE Owns(w)' /\ True
    <3>1. at[w] \in Steps /\ at'[w] = "idle" /\ "idle" \notin LibraryCalls
      BY <1>t, <1>l, <2>10, EndFacts
    <3>2. /\ at[w] \in Plain => Handler(requests[job[w]].msgCode) \notin BookHandlers
          /\ at[w] \in BookHandlers => executed[job[w]] = "nothing" /\ at[w] \notin LibraryCalls
      BY <3>1, AtFacts, AtWork DEF Queries
    <3>f. \A ok : /\ Feedback(job[w], ok) # "failure" \/ ~ok
                  /\ Feedback(job[w], ok) # "success" \/ ok
      BY DEF Feedback
    <3>3. CASE /\ text \in {"none", "invalid"} /\ Quiet
               /\ \/ text = "none" /\ at[w] \in Plain
                  \/ text = "invalid" /\ at[w] \in BookHandlers
      <4>1. at[w] \notin LibraryCalls
        BY <3>3, AtFacts
      <4>2. True
        BY <2>10, <3>2, <3>3, AnswerTrue DEF Quiet, True
      <4> QED BY <2>q, <3>1, <3>3, <4>1, <4>2
    <3>4. CASE /\ text = Feedback(job[w], FALSE) /\ at[w] \in BookHandlers /\ Quiet
               /\ ~conn_ \/ status[w] # "ready"
      <4>1. session # "open"
        <5>1. CASE ~conn_ BY <5>1 DEF Queries
        <5>2. CASE status[w] # "ready"
          BY <1>t, <3>2, <3>4, <5>2 DEF Owns, AtRest
        <5> QED BY <3>4, <5>1, <5>2
      <4>2. True
        BY <2>10, <3>2, <3>4, <3>f, <4>1, AnswerTrue DEF Quiet, True
      <4> QED BY <2>q, <3>1, <3>2, <3>4, <4>2
    <3>5. CASE text = Feedback(job[w], FALSE) /\ GoneAway(w)
      <4>1. /\ received[w] = <<>> /\ replies = <<>> /\ session # "open" /\ status'[w] = "lost"
            /\ UNCHANGED <<received, replies, session>>
        BY <1>t, <3>5 DEF GoneAway, mysqlVars
      <4>2. d = <<>>
        BY <1>q, <4>1, ComingFacts
      <4>3. True
        BY <2>10, <3>5, <3>f, <4>1, AnswerTrue DEF True
      <4>4. AtRest(w)'
        BY <4>1, <4>2 DEF AtRest
      <4> QED BY <1>l, <3>1, <4>1, <4>3, <4>4 DEF Owns
    <3>6. ~OutOfOrder(w)
      <4> SUFFICES ASSUME OutOfOrder(w) PROVE FALSE
        OBVIOUS
      <4>1. at[w] \in LibraryCalls /\ received[w] # <<>> /\ ~Fits(w)
        BY DEF OutOfOrder
      <4> QED BY <4>1, ComingFacts, ReadsOwn DEF Owns
    <3>7. CASE text = Feedback(job[w], Packet1(w) # "error") /\ ReadReply(w) /\ ~Fetches(w)
      <4>1. /\ received[w] # <<>> /\ Read(w) /\ UNCHANGED <<session, replies>>
            /\ at[w] = "mysql_query" /\ Fits(w) /\ at[w] \in LibraryCalls
            /\ status'[w] = IF Packet1(w) = "columns" THEN "result" ELSE "ready"
        BY <1>l, <1>t, <3>7 DEF ReadReply, mysqlVars
      <4>2. /\ Packet1(w) = c[1].part /\ c[1].part \in {"ok", "error", "columns", "rows"}
            /\ PartTrue(c[1]) /\ c[1].request = job[w]
            /\ executed[job[w]] = IF c[1].part = "error" THEN "refused" ELSE "done"
        BY <2>8, <4>1
      <4>3. c[1].part # "columns"
        BY <3>7, <4>2 DEF PartTrue, Fetches
      <4>4. True
        <5>1. text = "success" => executed[job[w]] = "done"
          BY <3>7, <3>f, <4>2
        <5>2. text = "failure" => executed[job[w]] # "done"
          BY <3>7, <3>f, <4>2
        <5>3. executed[job[w]] # "nothing"
          BY <4>2
        <5> QED BY <2>10, <4>1, <5>1, <5>2, <5>3, AnswerTrue DEF True
      <4>5. Owns(w)'
        BY <2>e, <3>1, <4>1, <4>2, <4>3
      <4> QED BY <4>4, <4>5
    <3>8. CASE text = Feedback(job[w], TRUE) /\ StoreResult(w)
      <4>1. /\ received[w] # <<>> /\ Read(w) /\ UNCHANGED <<session, replies>>
            /\ at[w] = "mysql_store_result" /\ at[w] \in LibraryCalls
            /\ status'[w] = "ready"
        BY <1>l, <1>t, <3>8 DEF StoreResult, mysqlVars
      <4>2. c[1].part = "rows" /\ executed[job[w]] = "done"
        BY <2>8, <4>1
      <4>3. True
        BY <2>10, <3>8, <3>f, <4>1, <4>2, AnswerTrue DEF True
      <4>4. Owns(w)'
        BY <2>e, <3>1, <4>1, <4>2
      <4> QED BY <4>3, <4>4
    <3> HIDE DEF True
    <3>9. \/ text = "none" /\ at[w] \in Plain /\ Quiet
          \/ text = "invalid" /\ at[w] \in BookHandlers /\ Quiet
          \/ /\ text = Feedback(job[w], FALSE) /\ at[w] \in BookHandlers /\ Quiet
             /\ ~conn_ \/ status[w] # "ready"
          \/ text = Feedback(job[w], FALSE) /\ GoneAway(w)
          \/ text = Feedback(job[w], FALSE) /\ OutOfOrder(w)
          \/ text = Feedback(job[w], Packet1(w) # "error") /\ ReadReply(w) /\ ~Fetches(w)
          \/ text = Feedback(job[w], TRUE) /\ StoreResult(w)
      BY <2>10 DEF Ends
    <3> QED BY <3>3, <3>4, <3>5, <3>6, <3>7, <3>8, <3>9
  <2> QED BY <1>4, <2>1, <2>2, <2>3, <2>4, <2>5, <2>6, <2>7, <2>9, <2>10 DEF Others
<1> QED BY <1>1, <1>2, <1>3, <1>4, AllSteps DEF True

LEMMA OwnReplyStep ==
  TypeOK /\ Jobs /\ Queries /\ Answering /\ TakesItsOwnReply /\ [Next]_vars => TakesItsOwnReply'
<1> SUFFICES ASSUME TypeOK, Jobs, Queries, Answering, TakesItsOwnReply, [Next]_vars
             PROVE  TakesItsOwnReply'
  OBVIOUS
<1>1. setting' = setting
  <2>1. \A v \in Worker : threadRecvProcFunc(v) \/ SendQuery(v) => setting' = setting
    BY DEF threadRecvProcFunc, SendQuery, processVars
  <2>2. Execute => setting' = setting
    BY DEF Execute, processVars
  <2>3. Others => setting' = setting
    BY OthersFacts
  <2> QED BY <2>1, <2>2, <2>3, AllSteps, SettingFacts
<1>2. \A w \in Worker : setting.workers = {w} => Owns(w) /\ FeedbackTrue /\ ExecutedBeforeAnswer
  BY DEF TakesItsOwnReply, Owns, AtRest, InCall
<1>3. ASSUME NEW w \in Worker, setting.workers = {w}
      PROVE  Owns(w)' /\ FeedbackTrue' /\ ExecutedBeforeAnswer'
  BY <1>2, <1>3, OwnStep
<1> QED BY <1>1, <1>3 DEF TakesItsOwnReply, Owns, AtRest, InCall

(* The invariant *)

LEMMA InitIInv == Init => IInv
<1> SUFFICES ASSUME Init PROVE IInv
  OBVIOUS
<1>1. /\ setting \in Settings /\ requests = <<>> /\ conn_ \in BOOLEAN
      /\ at = [w \in Worker |-> "init"] /\ job = [w \in Worker |-> 0]
      /\ status = [w \in Worker |-> "ready"] /\ received = [w \in Worker |-> <<>>]
      /\ pipe = <<>> /\ replies = <<>> /\ executed = <<>> /\ answers = <<>>
      /\ session = IF conn_ THEN "open" ELSE "closed"
      /\ parent = IF setting.Daemon THEN "running" ELSE "gone"
  BY DEF Init
<1>2. TypeOK
  <2>1. \A S : <<>> \in Seq(S)
    OBVIOUS
  <2>2. Len(requests) = 0 /\ 1..0 = {} /\ 0 \in 0..0
    BY <1>1
  <2>3. executed \in [1..Len(requests) -> {"nothing", "done", "refused"}]
    BY <1>1, <2>2
  <2>4. job \in [Worker -> 0..Len(requests)] /\ received \in [Worker -> Seq(Part)]
    BY <1>1, <2>1, <2>2
  <2> QED BY <1>1, <2>1, <2>3, <2>4 DEF TypeOK
<1>3. DOMAIN pipe = {} /\ DOMAIN requests = {} /\ DOMAIN answers = {} /\ ToSet(replies) = {}
      /\ \A w \in Worker : ToSet(received[w]) = {}
  <2>1. ToSet(<<>>) = {}
    BY DEF ToSet
  <2> QED BY <1>1, <2>1
<1>4. InPipe = {} /\ Answered = {} /\ \A w \in Worker : Coming(w) = <<>>
  BY <1>1, <1>3, <1>2, ComingFacts DEF InPipe, Answered
<1>5. \A w \in Worker : at[w] \notin LibraryCalls \cup BookHandlers /\ at[w] \in Ended
  BY <1>1, AtFacts DEF Ended, Steps
<1>6. Jobs
  BY <1>1, <1>5 DEF Jobs
<1>7. Queries
  BY <1>1, <1>3, <1>4, <1>5 DEF Queries
<1>8. Answering
  BY <1>1, <1>3 DEF Answering
<1>9. TakesItsOwnReply
  BY <1>1, <1>3, <1>4, <1>5 DEF TakesItsOwnReply, LibraryCalls, FeedbackTrue, ExecutedBeforeAnswer
<1> QED BY <1>2, <1>6, <1>7, <1>8, <1>9 DEF IInv

\* Every step of the workers and of MySQL keeps the inductive invariant.
THEOREM Invariant == Spec => []IInv
<1>1. IInv /\ [Next]_vars => IInv'
  BY TypeStep, JobsStep, QueriesStep, AnsweringStep, OwnReplyStep DEF IInv
<1> QED BY InitIInv, <1>1, PTL DEF Spec

\* Every code that passes the tests of threadRecvProcFunc has a handler in
\* statusHandler, for every packet a client can send.
THEOREM TypeCorrect == Spec => []TypeOK
BY Invariant, PTL DEF IInv

\* A process that alone uses the socket of the global CLogicSocket reads what its own
\* query is answered, columns and rows in the calls that are for them, and leaves
\* nothing for the next query, wherever MySQL's packets are cut and whenever other
\* processes close the connection.
THEOREM InStepWhenAlone == Spec => []InStepAlone
<1>1. IInv => InStepAlone
  <2> SUFFICES ASSUME IInv, NEW w \in Worker, setting.workers = {w} PROVE InStep(w)
    BY DEF InStepAlone
  <2>1. Owns(w) /\ TypeOK /\ Queries
    BY DEF IInv, TakesItsOwnReply, Owns, AtRest, InCall
  <2>2. CASE at[w] \notin LibraryCalls
    BY <2>1, <2>2 DEF InStep, Owns, AtRest
  <2>3. CASE at[w] \in LibraryCalls
    <3>1. InCall(w) /\ (Coming(w) # <<>> => Head(Coming(w)) = Coming(w)[1])
      BY <2>1, <2>3, ComingFacts DEF Owns
    <3> QED BY <2>1, <2>3, <3>1, ReadsOwn DEF InStep, InCall
  <2> QED BY <2>2, <2>3
<1> QED BY Invariant, <1>1, PTL

\* MySQL executes only requests for books that passed the tests, and a single process
\* tells each client the truth, after MySQL has executed the request.
THEOREM TrueWhenAlone == Spec => []AnswersTrueAlone
<1>1. IInv => AnswersTrueAlone
  <2> SUFFICES ASSUME IInv PROVE AnswersTrueAlone
    OBVIOUS
  <2>1. \A i \in DOMAIN requests : executed[i] # "nothing" => IsBook(i)
    BY DEF IInv, Queries
  <2>2. ASSUME Cardinality(setting.workers) = 1 PROVE FeedbackTrue /\ ExecutedBeforeAnswer
    <3>1. IsFiniteSet(setting.workers) /\ setting.workers \subseteq Worker
      BY WorkersAssumption, SettingFacts, FS_Subset DEF IInv
    <3>2. \E w : setting.workers = {w}
      BY <2>2, <3>1, FS_Singleton
    <3> QED BY <3>1, <3>2 DEF IInv, TakesItsOwnReply
  <2> QED BY <2>1, <2>2 DEF AnswersTrueAlone, IsBook
<1> QED BY Invariant, <1>1, PTL

\* A thread that is done with a book request has answered it exactly once, whatever
\* becomes of the connection to MySQL and whoever gets which packet; before, and when
\* the request ends the process, there is no answer.
THEOREM BooksOnce == Spec => []BooksAnsweredOnce
<1>1. IInv => BooksAnsweredOnce
  <2> SUFFICES ASSUME IInv, NEW w \in Worker, job[w] # 0,
                      Handler(requests[job[w]].msgCode) \in BookHandlers
               PROVE  Cardinality({k \in DOMAIN answers : answers[k].request = job[w]}) =
                        IF at[w] = "idle" THEN 1 ELSE 0
    BY DEF BooksAnsweredOnce
  <2>1. CASE at[w] = "idle"
    <3>1. IsBook(job[w])
      BY DEF IInv, Jobs, IsBook
    <3>2. job[w] \in Answered
      BY <2>1, <3>1 DEF IInv, Answering
    <3>3. PICK k \in DOMAIN answers : answers[k].request = job[w]
      BY <3>2 DEF Answered
    <3>4. {l \in DOMAIN answers : answers[l].request = job[w]} = {k}
      BY <3>3 DEF IInv, Answering
    <3> QED BY <2>1, <3>4, FS_Singleton
  <2>2. CASE at[w] # "idle"
    <3>1. job[w] \notin Answered
      BY <2>2 DEF IInv, Answering
    <3>2. {l \in DOMAIN answers : answers[l].request = job[w]} = {}
      BY <3>1 DEF Answered
    <3> QED BY <2>2, <3>2, FS_EmptySet
  <2> QED BY <2>1, <2>2
<1> QED BY Invariant, <1>1, PTL
=============================================================================
