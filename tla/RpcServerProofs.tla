--------------------------- MODULE RpcServerProofs ---------------------------
(***************************************************************************)
(* The sessions of the RPC server, for any number of clients and messages: *)
(* one operation of a session is pending at a time, and each question is   *)
(* answered by one write, in the order of the questions, whatever part of  *)
(* it the write sends.                                                     *)
(***************************************************************************)
EXTENDS RpcServer, FiniteSetTheorems, TLAPS

\* The owner has not begun to destroy the server.
Early == main \in {"starting", "running"}

\* A session that waits for something waits for one thing; one that is gone, or
\* whose delete_me waits for the mutex, waits for nothing.
OpsInv ==
  Early =>
    /\ thread # "undefined" /\ mutex = "free"
    /\ \A s \in Session :
         /\ ops[s] \in {{}, {"size"}, {"data"}, {"hmac"}, {"write"}}
         /\ s \notin m_session_list \/ s = erasing => ops[s] = {}
         /\ thread = "run" /\ s \in m_session_list /\ s # erasing => ops[s] # {}

\* The place of a part in the stream of its client, from 1.
Place(part) ==
  3 * (part[1] - 1) + (IF part[2] = "size" THEN 1 ELSE IF part[2] = "data" THEN 2 ELSE 3)

\* The parts of the message in work that a session has read, from what it waits for.
Begun(op) == IF "size" \in op THEN 0 ELSE IF "data" \in op THEN 1 ELSE IF "hmac" \in op THEN 2 ELSE 3

\* The parts that a session has read.
Taken(s) == 3 * Len(replies[s]) + Begun(ops[s])

\* The stream of a live session goes on where the session has read up to.
StreamOf(s) ==
  /\ \A j \in 1 .. Len(wire[s]) : /\ Place(wire[s][j]) = Taken(s) + j
                                  /\ wire[s][j][1] <= Len(asked[s])
  /\ closed[s] = "no" => Taken(s) + Len(wire[s]) = 3 * Len(asked[s])

\* What a session is writing is the answer to the first question without one.
WritingOf(s) ==
  ops[s] = {"write"} => /\ m_write_data[s] = Len(replies[s]) + 1
                        /\ m_write_data[s] <= Len(asked[s])
                        /\ asked[s][m_write_data[s]] = "known"

AnsweredOf(s) ==
  \A i \in 1 .. Len(replies[s]) :
    replies[s][i].re = i /\ i <= Len(asked[s]) /\ asked[s][i] = "known"

FreshOf(s) ==
  s > m_session_counter =>
    wire[s] = <<>> /\ asked[s] = <<>> /\ replies[s] = <<>> /\ closed[s] = "no"

SessionOK(s) ==
  FreshOf(s) /\ AnsweredOf(s) /\ (ops[s] # {} => StreamOf(s) /\ WritingOf(s))

StreamInv == Early => \A s \in Session : SessionOK(s)

RpcInv == RpcTypeOK /\ OpsInv /\ StreamInv

-----------------------------------------------------------------------------
\* Facts of sequences that the steps on a session's stream use.
LEMMA TailFacts ==
  ASSUME NEW S, NEW q \in Seq(S), q # <<>>
  PROVE  /\ Tail(q) \in Seq(S) /\ Len(Tail(q)) = Len(q) - 1 /\ Len(q) >= 1
         /\ Head(q) = q[1] /\ q[1] \in S
         /\ \A j \in 1 .. Len(q) - 1 : Tail(q)[j] = q[j + 1]
  OBVIOUS

\* A queue that is cut.
LEMMA CutFacts ==
  ASSUME NEW S, NEW q \in Seq(S), NEW n \in 0 .. Len(q)
  PROVE  /\ SubSeq(q, 1, n) \in Seq(S) /\ Len(SubSeq(q, 1, n)) = n
         /\ \A j \in 1 .. n : SubSeq(q, 1, n)[j] = q[j]
  OBVIOUS

\* A message is three parts of the stream.
LEMMA MessageFacts ==
  ASSUME NEW S, NEW q \in Seq(S), NEW x \in S, NEW y \in S, NEW z \in S
  PROVE  /\ q \o <<x, y, z>> \in Seq(S) /\ Len(q \o <<x, y, z>>) = Len(q) + 3
         /\ \A j \in 1 .. Len(q) : (q \o <<x, y, z>>)[j] = q[j]
         /\ (q \o <<x, y, z>>)[Len(q) + 1] = x
         /\ (q \o <<x, y, z>>)[Len(q) + 2] = y
         /\ (q \o <<x, y, z>>)[Len(q) + 3] = z
  OBVIOUS

\* Every step of the server, its clients and its owner keeps the types: no part of a
\* message is lost in the middle and no answer is to a message that was not sent.
LEMMA RpcTypeStep == RpcTypeOK /\ [RpcNext]_rpcVars => RpcTypeOK'
<1> SUFFICES ASSUME RpcTypeOK, [RpcNext]_rpcVars PROVE RpcTypeOK'
  OBVIOUS
<1> USE RpcConstants
<1>0. UNCHANGED rpcVars => RpcTypeOK'
  BY DEF RpcTypeOK, rpcVars
<1>1. ASSUME NEW s \in Session, NEW k \in Kinds, ClientSend(s, k) PROVE RpcTypeOK'
  <2>1. asked' \in [Session -> Seq(Kinds)] /\ Len(asked'[s]) \in 1 .. MaxSent
    BY <1>1 DEF RpcTypeOK, ClientSend
  <2>2. wire' \in [Session -> Seq((1 .. MaxSent) \X Part)]
    BY <1>1, <2>1, MessageFacts, SMTT(60) DEF RpcTypeOK, ClientSend, Part
  <2> QED
    BY <1>1, <2>1, <2>2 DEF RpcTypeOK, ClientSend
<1>2. ASSUME NEW s \in Session, NEW how \in {"eof", "reset"}, ClientClose(s, how) PROVE RpcTypeOK'
  BY <1>2, CutFacts DEF RpcTypeOK, ClientClose
<1>3. CASE accept_handler
  BY <1>3 DEF RpcTypeOK, accept_handler, Session, Op, Part
<1>4. CASE remove_session_from_vector
  BY <1>4 DEF RpcTypeOK, remove_session_from_vector
<1>5. CASE ThreadReturns
  BY <1>5 DEF RpcTypeOK, ThreadReturns
<1>6. ASSUME NEW s \in Session, NEW op, delete_me(s, op),
             wire' \in [Session -> Seq((1 .. MaxSent) \X Part)] PROVE RpcTypeOK'
  BY <1>6 DEF RpcTypeOK, delete_me
<1>7. ASSUME NEW s \in Session, NEW op, ReadFails(s, op) PROVE RpcTypeOK'
  BY <1>6, <1>7 DEF RpcTypeOK, ReadFails
<1>8. ASSUME NEW s \in Session, wire[s] # <<>>, wire' = [wire EXCEPT ![s] = Tail(@)]
      PROVE  wire' \in [Session -> Seq((1 .. MaxSent) \X Part)] /\ Head(wire[s])[1] \in Answer
  <2>1. Head(wire[s]) \in (1 .. MaxSent) \X Part /\ Tail(wire[s]) \in Seq((1 .. MaxSent) \X Part)
    BY <1>8, TailFacts DEF RpcTypeOK
  <2>2. Head(wire[s])[1] \in Answer
    BY <2>1 DEF Answer
  <2> QED
    BY <1>8, <2>1, <2>2 DEF RpcTypeOK
<1>9. ASSUME NEW s \in Session, NEW op, NEW next \in Part, wire[s] # <<>>, ReadNext(s, op, next)
      PROVE  RpcTypeOK'
  BY <1>8, <1>9 DEF RpcTypeOK, ReadNext, Op
<1>10. ASSUME NEW s \in Session, read_handler_size(s) PROVE RpcTypeOK'
  <2>1. CASE wire[s] # <<>> /\ EmptyMessage(s)
    BY <2>1, <1>8 DEF RpcTypeOK, EmptyMessage
  <2> QED
    BY <1>7, <1>9, <1>10, <2>1 DEF read_handler_size, Part
<1>11. ASSUME NEW s \in Session, read_handler_data(s) PROVE RpcTypeOK'
  BY <1>7, <1>9, <1>11 DEF read_handler_data, Part
<1>12. ASSUME NEW s \in Session, read_handler_hmac(s) PROVE RpcTypeOK'
  <2>1. CASE wire[s] # <<>> /\ execute_rpc_command(s)
    <3>0. wire' = [wire EXCEPT ![s] = Tail(@)]
      BY <2>1 DEF execute_rpc_command
    <3>1. wire' \in [Session -> Seq((1 .. MaxSent) \X Part)] /\ Head(wire[s])[1] \in Answer
      BY <2>1, <1>8, <3>0
    <3>2. m_write_data' \in [Session -> Answer]
      BY <2>1, <3>1 DEF RpcTypeOK, execute_rpc_command, send_response
    <3>3. ops' \in [Session -> SUBSET Op]
      BY <2>1 DEF RpcTypeOK, execute_rpc_command, Op
    <3> QED
      BY <2>1, <3>1, <3>2, <3>3 DEF RpcTypeOK, execute_rpc_command
  <2>2. CASE wire[s] # <<>> /\ CommandRefused(s)
    BY <2>2, <1>6, <1>8 DEF CommandRefused
  <2> QED
    BY <1>7, <1>12, <2>1, <2>2 DEF read_handler_hmac
<1>13. ASSUME NEW s \in Session, write_handler(s) PROVE RpcTypeOK'
  <2>1. CASE closed[s] = "reset"
    <3>1. delete_me(s, "write") /\ wire' = wire
      BY <1>13, <2>1 DEF write_handler
    <3> QED
      BY <3>1, <1>6 DEF RpcTypeOK
  <2>2. CASE closed[s] # "reset"
    <3>0. /\ \E came \in Arrivals :
               replies' = [replies EXCEPT ![s] = Append(@, [re |-> m_write_data[s], came |-> came])]
          /\ ops' = [ops EXCEPT ![s] = (@ \ {"write"}) \union {"size"}]
          /\ UNCHANGED <<m_session_counter, m_session_list, wire, asked, m_write_data,
                         closed, thread, main, mutex, todo, erasing>>
      BY <2>2, <1>13 DEF write_handler
    <3>1. ops' \in [Session -> SUBSET Op]
      BY <3>0 DEF RpcTypeOK, Op, Part
    <3>2. replies' \in [Session -> Seq(Written)]
      <4>1. PICK came \in Arrivals :
              replies' = [replies EXCEPT ![s] = Append(@, [re |-> m_write_data[s], came |-> came])]
        BY <3>0
      <4>2. [re |-> m_write_data[s], came |-> came] \in Written
        BY DEF RpcTypeOK, Written
      <4> QED
        BY <4>1, <4>2 DEF RpcTypeOK
    <3> QED
      BY <3>0, <3>1, <3>2 DEF RpcTypeOK
  <2> QED
    BY <1>13, <2>1, <2>2 DEF write_handler
<1>14. ASSUME NEW s \in Session, HandlerOfErased(s) PROVE RpcTypeOK'
  BY <1>14 DEF RpcTypeOK, HandlerOfErased
<1>15. CASE add_rpc_function
  BY <1>15 DEF RpcTypeOK, add_rpc_function
<1>16. ASSUME NEW s \in Session, DtorTell(s) PROVE RpcTypeOK'
  BY <1>16 DEF RpcTypeOK, DtorTell, send_response, Answer, Op
<1>17. CASE DtorLock
  BY <1>17 DEF RpcTypeOK, DtorLock, Session
<1>18. CASE DtorUnlock \/ DtorStop \/ DtorJoin
  BY <1>18 DEF RpcTypeOK, DtorUnlock, DtorStop, DtorJoin
<1> QED
  BY <1>0, <1>1, <1>2, <1>3, <1>4, <1>5, <1>10, <1>11, <1>12, <1>13, <1>14, <1>15, <1>16, <1>17, <1>18
  DEF RpcNext, RpcThreadStep, RpcClients, Destructor

-----------------------------------------------------------------------------
\* While the owner has not begun to destroy the server, it was not before either.
LEMMA EarlyBefore ==
  ASSUME RpcTypeOK, [RpcNext]_rpcVars, Early' PROVE Early
  BY ZenonT(60) DEF RpcTypeOK, Early, RpcNext, rpcVars, RpcThreadStep, RpcClients, Destructor, ClientSend,
     ClientClose, accept_handler, remove_session_from_vector, ThreadReturns, read_handler_size,
     read_handler_data, read_handler_hmac, write_handler, HandlerOfErased, ReadFails, ReadNext,
     EmptyMessage, delete_me, execute_rpc_command, CommandRefused, add_rpc_function, DtorLock,
     DtorUnlock, DtorStop, DtorJoin, DtorTell

\* The steps of the server by what they do to the operations: before the destructor one
\* handler runs, and it takes the one operation of its session or replaces it.
LEMMA OpsStep == RpcTypeOK /\ OpsInv /\ [RpcNext]_rpcVars => OpsInv'
<1> SUFFICES ASSUME RpcTypeOK, OpsInv, [RpcNext]_rpcVars, Early' PROVE OpsInv'
  BY DEF OpsInv
<1>a. Early
  BY EarlyBefore
<1>b. /\ thread # "undefined" /\ mutex = "free"
      /\ \A s \in Session :
           /\ ops[s] \in {{}, {"size"}, {"data"}, {"hmac"}, {"write"}}
           /\ s \notin m_session_list \/ s = erasing => ops[s] = {}
           /\ thread = "run" /\ s \in m_session_list /\ s # erasing => ops[s] # {}
  BY <1>a DEF OpsInv
<1>c. ASSUME thread' = thread, mutex' = mutex, ops' = ops, m_session_list' = m_session_list,
             erasing' = erasing
      PROVE  OpsInv'
  BY <1>b, <1>c DEF OpsInv
<1>d. ASSUME NEW s \in Session, NEW op \in Op, s \in m_session_list, ops[s] = {op}, erasing = 0,
             delete_me(s, op)
      PROVE  OpsInv'
  <2>1. ops' = [ops EXCEPT ![s] = {}]
    BY <1>d DEF delete_me
  <2>2. m_session_list' = m_session_list /\ mutex' = mutex
    BY <1>d DEF delete_me
  <2>3. \/ thread' = "ended" /\ erasing' = erasing
        \/ erasing' = s /\ thread' = thread
    BY <1>d DEF delete_me
  <2>4. ops \in [Session -> SUBSET Op]
    BY DEF RpcTypeOK
  <2>5. ops'[s] = {} /\ \A t \in Session : t # s => ops'[t] = ops[t]
    BY <2>1, <2>4
  <2>6. 0 \notin Session
    BY DEF Session
  <2> QED
    BY <1>b, <1>d, <2>2, <2>3, <2>5, <2>6 DEF OpsInv
<1>e. ASSUME NEW s \in Session, NEW op \in Op, NEW next \in Op, s \in m_session_list,
             ops[s] = {op}, erasing = 0, ops' = [ops EXCEPT ![s] = (@ \ {op}) \union {next}],
             UNCHANGED <<thread, mutex, erasing, m_session_list>>
      PROVE  OpsInv'
  <2>1. ops' = [ops EXCEPT ![s] = {next}]
    BY <1>e
  <2> QED
    BY <1>b, <1>e, <2>1 DEF OpsInv, RpcTypeOK, Op, Part
<1>f. ASSUME NEW s \in Session, NEW op \in Op, op \in ops[s] PROVE ops[s] = {op}
  BY <1>b, <1>f
<1>0. CASE UNCHANGED rpcVars
  BY <1>0, <1>c DEF rpcVars
<1>1. ASSUME NEW s \in Session, NEW k \in Kinds, ClientSend(s, k) PROVE OpsInv'
  BY <1>1, <1>c DEF ClientSend
<1>2. ASSUME NEW s \in Session, NEW how \in {"eof", "reset"}, ClientClose(s, how) PROVE OpsInv'
  BY <1>2, <1>c DEF ClientClose
<1>3. CASE accept_handler
  <2>1. m_session_counter + 1 \in Session /\ m_session_counter + 1 \notin m_session_list
        /\ m_session_counter + 1 # 0
    BY <1>3, RpcConstants DEF RpcTypeOK, accept_handler, Session
  <2> QED
    BY <1>3, <1>b, <2>1 DEF RpcTypeOK, accept_handler, OpsInv, Running
<1>4. CASE remove_session_from_vector
  <2>1. 0 \notin Session
    BY DEF Session
  <2> QED
    BY <1>4, <1>b, <2>1 DEF RpcTypeOK, remove_session_from_vector, OpsInv
<1>5. CASE ThreadReturns
  BY <1>5, <1>b DEF ThreadReturns, OpsInv
<1>6. ASSUME NEW s \in Session, read_handler_size(s) PROVE OpsInv'
  <2>1. ops[s] = {"size"} /\ erasing = 0 /\ s \in m_session_list
    BY <1>6, <1>f DEF read_handler_size, Running, Op, Part
  <2>2. CASE ReadFails(s, "size")
    BY <2>1, <2>2, <1>d DEF ReadFails, Op, Part
  <2>3. CASE ReadNext(s, "size", "data")
    BY <2>1, <2>3, <1>e DEF ReadNext, Op, Part
  <2>4. CASE EmptyMessage(s)
    <3>1. ops' = [ops EXCEPT ![s] = {}]
      BY <2>1, <2>4 DEF EmptyMessage
    <3> QED
      BY <1>b, <2>1, <2>4, <3>1 DEF OpsInv, EmptyMessage, RpcTypeOK
  <2> QED
    BY <1>6, <2>2, <2>3, <2>4 DEF read_handler_size
<1>7. ASSUME NEW s \in Session, read_handler_data(s) PROVE OpsInv'
  <2>1. ops[s] = {"data"} /\ erasing = 0 /\ s \in m_session_list
    BY <1>7, <1>f DEF read_handler_data, Running, Op, Part
  <2>2. CASE ReadFails(s, "data")
    BY <2>1, <2>2, <1>d DEF ReadFails, Op, Part
  <2>3. CASE ReadNext(s, "data", "hmac")
    BY <2>1, <2>3, <1>e DEF ReadNext, Op, Part
  <2> QED
    BY <1>7, <2>2, <2>3 DEF read_handler_data
<1>8. ASSUME NEW s \in Session, read_handler_hmac(s) PROVE OpsInv'
  <2>1. ops[s] = {"hmac"} /\ erasing = 0 /\ s \in m_session_list
    BY <1>8, <1>f DEF read_handler_hmac, Running, Op, Part
  <2>2. CASE ReadFails(s, "hmac")
    BY <2>1, <2>2, <1>d DEF ReadFails, Op, Part
  <2>3. CASE execute_rpc_command(s)
    BY <2>1, <2>3, <1>e DEF execute_rpc_command, Op, Part
  <2>4. CASE CommandRefused(s)
    BY <2>1, <2>4, <1>d DEF CommandRefused, Op, Part
  <2> QED
    BY <1>8, <2>2, <2>3, <2>4 DEF read_handler_hmac
<1>9. ASSUME NEW s \in Session, write_handler(s) PROVE OpsInv'
  <2>1. ops[s] = {"write"} /\ erasing = 0 /\ s \in m_session_list
    BY <1>9, <1>f DEF write_handler, Running, Op
  <2>2. CASE closed[s] = "reset"
    BY <2>1, <2>2, <1>9, <1>d DEF write_handler, Op
  <2>3. CASE closed[s] # "reset"
    BY <2>1, <2>3, <1>9, <1>e DEF write_handler, Op, Part
  <2> QED
    BY <2>2, <2>3
<1>10. ASSUME NEW s \in Session, HandlerOfErased(s) PROVE OpsInv'
  BY <1>10, <1>b DEF HandlerOfErased
<1>11. CASE add_rpc_function
  BY <1>11, <1>c DEF add_rpc_function
<1>12. ~Destructor
  BY <1>a DEF Destructor, DtorLock, DtorUnlock, DtorStop, DtorJoin, DtorTell, Early
<1> QED
  BY <1>0, <1>1, <1>2, <1>3, <1>4, <1>5, <1>6, <1>7, <1>8, <1>9, <1>10, <1>11, <1>12
  DEF RpcNext, RpcThreadStep, RpcClients

-----------------------------------------------------------------------------
\* How many parts of a message each state of a session stands for.
LEMMA BegunFacts == /\ Begun({"size"}) = 0 /\ Begun({"data"}) = 1
                    /\ Begun({"hmac"}) = 2 /\ Begun({"write"}) = 3
                    /\ \A op : Begun(op) \in Nat
  BY DEF Begun

\* The place of a part tells its message.
LEMMA PlaceFacts ==
  ASSUME NEW q \in (1 .. MaxSent) \X Part, NEW n \in Nat
  PROVE  Place(q) = 3 * n + 3 => q[1] = n + 1
<1>1. q[1] \in Int /\ q[2] \in Part
  BY RpcConstants
<1>2. \E c \in 1 .. 3 : Place(q) = 3 * (q[1] - 1) + c
  BY DEF Place
<1> HIDE DEF Place
<1> QED
  BY <1>1, <1>2

\* What a step leaves alone of a session leaves its stream as it was.
LEMMA SameSession ==
  ASSUME NEW s \in Session,
         wire'[s] = wire[s], asked'[s] = asked[s], replies'[s] = replies[s],
         closed'[s] = closed[s], m_write_data'[s] = m_write_data[s],
         ops'[s] = ops[s], AnsweredOf(s), ops[s] # {} => StreamOf(s) /\ WritingOf(s)
  PROVE  AnsweredOf(s)' /\ (ops'[s] # {} => StreamOf(s)' /\ WritingOf(s)')
  BY DEF AnsweredOf, StreamOf, WritingOf, Taken

\* A session that takes one part of its stream goes on with the next one.
LEMMA PartTaken ==
  ASSUME RpcTypeOK, NEW s \in Session, wire[s] # <<>>, StreamOf(s),
         Taken(s)' = Taken(s) + 1, Taken(s) \in Nat,
         wire'[s] = Tail(wire[s]), asked' = asked, closed' = closed
  PROVE  StreamOf(s)'
<1>0. wire[s] \in Seq((1 .. MaxSent) \X Part) /\ asked[s] \in Seq(Kinds)
  BY DEF RpcTypeOK
<1>1. /\ Len(wire'[s]) = Len(wire[s]) - 1 /\ Len(wire[s]) \in Nat
      /\ \A j \in 1 .. Len(wire[s]) - 1 : wire'[s][j] = wire[s][j + 1]
  BY <1>0, TailFacts
<1>2. ASSUME NEW j \in 1 .. Len(wire'[s])
      PROVE  Place(wire'[s][j]) = Taken(s)' + j /\ wire'[s][j][1] <= Len(asked[s])
  <2>1. j + 1 \in 1 .. Len(wire[s]) /\ wire'[s][j] = wire[s][j + 1]
    BY <1>1
  <2>2. Place(wire[s][j + 1]) = Taken(s) + (j + 1) /\ wire[s][j + 1][1] <= Len(asked[s])
    BY <2>1 DEF StreamOf
  <2>3. Taken(s) + (j + 1) = Taken(s)' + j
    BY <1>1
  <2> QED
    BY <2>1, <2>2, <2>3
<1>3. closed[s] = "no" => Taken(s)' + Len(wire'[s]) = 3 * Len(asked[s])
  <2>1. closed[s] = "no" => Taken(s) + Len(wire[s]) = 3 * Len(asked[s])
    BY DEF StreamOf
  <2>2. Taken(s)' + Len(wire'[s]) = Taken(s) + Len(wire[s])
    BY <1>1
  <2> QED
    BY <2>1, <2>2
<1> QED
  BY <1>2, <1>3 DEF StreamOf

\* The first part of the stream of a session that waits for an authenticator ends the
\* first message without an answer.
LEMMA NextAnswer ==
  ASSUME RpcTypeOK, NEW s \in Session, wire[s] # <<>>, StreamOf(s), ops[s] = {"hmac"}
  PROVE  Head(wire[s])[1] = Len(replies[s]) + 1 /\ Head(wire[s])[1] <= Len(asked[s])
<1>0. wire[s] \in Seq((1 .. MaxSent) \X Part) /\ Len(replies[s]) \in Nat
  BY DEF RpcTypeOK
<1>1. Head(wire[s]) = wire[s][1] /\ wire[s][1] \in (1 .. MaxSent) \X Part /\ 1 \in 1 .. Len(wire[s])
  BY <1>0, TailFacts
<1>2. Place(wire[s][1]) = Taken(s) + 1 /\ wire[s][1][1] <= Len(asked[s])
  BY <1>1 DEF StreamOf
<1>3. Taken(s) + 1 = 3 * Len(replies[s]) + 3
  BY <1>0, BegunFacts DEF Taken
<1> QED
  BY <1>0, <1>1, <1>2, <1>3, PlaceFacts

\* The write completes: the client has one answer more, the one it waited for.
LEMMA AnswerWritten ==
  ASSUME RpcTypeOK, NEW s \in Session, StreamOf(s), WritingOf(s), AnsweredOf(s),
         ops[s] = {"write"}, ops'[s] = {"size"},
         NEW came \in Arrivals,
         replies'[s] = Append(replies[s], [re |-> m_write_data[s], came |-> came]),
         asked' = asked, wire' = wire, closed' = closed
  PROVE  StreamOf(s)' /\ AnsweredOf(s)'
<1>0. replies[s] \in Seq(Written) /\ [re |-> m_write_data[s], came |-> came] \in Written
  BY DEF RpcTypeOK, Written
<1>1. /\ Len(replies'[s]) = Len(replies[s]) + 1 /\ Len(replies[s]) \in Nat
      /\ replies'[s][Len(replies[s]) + 1].re = m_write_data[s]
      /\ \A i \in 1 .. Len(replies[s]) : replies'[s][i] = replies[s][i]
  BY <1>0
<1>2. Taken(s)' = Taken(s)
  <2>1. Taken(s) = 3 * Len(replies[s]) + 3
    BY BegunFacts DEF Taken
  <2>2. Taken(s)' = 3 * Len(replies'[s]) + 0
    BY BegunFacts DEF Taken
  <2> QED
    BY <1>1, <2>1, <2>2
<1>3. AnsweredOf(s)'
  BY <1>1 DEF AnsweredOf, WritingOf
<1> QED
  BY <1>2, <1>3 DEF StreamOf

\* A message that is sent goes to the end of the stream: the places of its parts.
LEMMA EndOfStream ==
  ASSUME NEW t \in Nat, NEW w \in Nat, NEW a \in Nat, t + w = 3 * a
  PROVE  /\ \A c \in 1 .. 3 : 3 * ((a + 1) - 1) + c = t + (w + c)
         /\ t + (w + 3) = 3 * (a + 1)
  OBVIOUS

\* A message that is sent goes to the end of the stream.
LEMMA MessageSent ==
  ASSUME RpcTypeOK, NEW s \in Session, NEW n \in Nat, closed[s] = "no",
         ops' = ops, replies' = replies, closed' = closed, m_write_data' = m_write_data,
         n = Len(asked[s]) + 1, Len(asked'[s]) = n,
         \A i \in 1 .. Len(asked[s]) : asked'[s][i] = asked[s][i],
         Len(wire'[s]) = Len(wire[s]) + 3,
         \A j \in 1 .. Len(wire[s]) : wire'[s][j] = wire[s][j],
         wire'[s][Len(wire[s]) + 1] = <<n, "size">>,
         wire'[s][Len(wire[s]) + 2] = <<n, "data">>,
         wire'[s][Len(wire[s]) + 3] = <<n, "hmac">>,
         AnsweredOf(s), ops[s] # {} => StreamOf(s) /\ WritingOf(s)
  PROVE  AnsweredOf(s)' /\ (ops'[s] # {} => StreamOf(s)' /\ WritingOf(s)')
<1>0. /\ wire[s] \in Seq((1 .. MaxSent) \X Part) /\ Len(replies[s]) \in Nat
      /\ Len(asked[s]) \in Nat /\ m_write_data[s] \in Answer
  BY DEF RpcTypeOK
<1>1. Len(wire[s]) \in Nat
  BY <1>0
<1>4. AnsweredOf(s)'
  <2>1. ASSUME NEW i \in 1 .. Len(replies[s])
        PROVE  replies[s][i].re = i /\ i <= n /\ asked'[s][i] = "known"
    <3>1. replies[s][i].re = i /\ i <= Len(asked[s]) /\ asked[s][i] = "known"
      BY DEF AnsweredOf
    <3>2. i \in 1 .. Len(asked[s]) /\ i <= n
      BY <1>0, <3>1
    <3> QED
      BY <3>1, <3>2
  <2> QED
    BY <2>1 DEF AnsweredOf
<1>5. ASSUME ops[s] # {} PROVE StreamOf(s)'
  <2>1. Taken(s)' = Taken(s) /\ Taken(s) \in Nat
    BY <1>0, BegunFacts DEF Taken
  <2>2. Taken(s) + Len(wire[s]) = 3 * Len(asked[s])
    BY <1>5 DEF StreamOf
  <2>3a. /\ \A c \in 1 .. 3 : 3 * ((Len(asked[s]) + 1) - 1) + c = Taken(s) + (Len(wire[s]) + c)
         /\ Taken(s) + (Len(wire[s]) + 3) = 3 * (Len(asked[s]) + 1)
    BY <2>1, <2>2, <1>0, <1>1, EndOfStream, ZenonT(60)
  <2>3. ASSUME NEW j \in 1 .. Len(wire'[s])
        PROVE  Place(wire'[s][j]) = Taken(s) + j /\ wire'[s][j][1] <= n
    <3>1. CASE j <= Len(wire[s])
      <4>1. j \in 1 .. Len(wire[s])
        BY <3>1, <1>1
      <4>2. Place(wire[s][j]) = Taken(s) + j /\ wire[s][j][1] <= Len(asked[s])
        BY <4>1, <1>5 DEF StreamOf
      <4>3. wire[s][j] \in (1 .. MaxSent) \X Part
        BY <4>1, <1>0
      <4>4. wire[s][j][1] \in Int
        BY <4>3, RpcConstants
      <4>5. wire[s][j][1] <= n
        BY <4>2, <4>4, <1>0, SMTT(60)
      <4> QED
        BY <4>1, <4>2, <4>5
    <3>2. ASSUME NEW p \in Part, NEW c \in 1 .. 3, j = Len(wire[s]) + c, wire'[s][j] = <<n, p>>,
                 Place(<<n, p>>) = 3 * (n - 1) + c
          PROVE  Place(wire'[s][j]) = Taken(s) + j /\ wire'[s][j][1] <= n
      <4>1. 3 * (n - 1) + c = Taken(s) + j
        BY <3>2, <2>3a
      <4> QED
        BY <3>2, <4>1
    <3>3. Place(<<n, "size">>) = 3 * (n - 1) + 1 /\ Place(<<n, "data">>) = 3 * (n - 1) + 2
          /\ Place(<<n, "hmac">>) = 3 * (n - 1) + 3
      BY DEF Place
    <3>4. CASE j = Len(wire[s]) + 1
      BY <3>2, <3>3, <3>4 DEF Part
    <3>5. CASE j = Len(wire[s]) + 2
      BY <3>2, <3>3, <3>5 DEF Part
    <3>6. CASE j = Len(wire[s]) + 3
      BY <3>2, <3>3, <3>6 DEF Part
    <3> QED
      BY <3>1, <3>4, <3>5, <3>6, <1>1, SMTT(60)
  <2>4. Taken(s) + Len(wire'[s]) = 3 * n
    BY <2>3a
  <2> QED
    BY <2>1, <2>3, <2>4 DEF StreamOf
<1>6. ASSUME ops[s] # {} PROVE WritingOf(s)'
  <2>1. m_write_data[s] \in Int
    BY <1>0, RpcConstants DEF Answer
  <2> QED
    BY <1>0, <1>6, <2>1, SMTT(60) DEF WritingOf
<1> QED
  BY <1>4, <1>5, <1>6

\* Every step before the destructor keeps every stream in place.
LEMMA StreamStep == RpcTypeOK /\ OpsInv /\ StreamInv /\ [RpcNext]_rpcVars => StreamInv'
<1> SUFFICES ASSUME RpcTypeOK, OpsInv, StreamInv, [RpcNext]_rpcVars, Early',
                    NEW t \in Session
             PROVE  SessionOK(t)'
  BY DEF StreamInv
<1>a. Early /\ \A s \in Session : SessionOK(s)
  BY EarlyBefore DEF StreamInv
<1>b. \A s \in Session : ops[s] \in {{}, {"size"}, {"data"}, {"hmac"}, {"write"}}
  BY <1>a DEF OpsInv
<1>c. ASSUME wire'[t] = wire[t], asked'[t] = asked[t], replies'[t] = replies[t],
             closed'[t] = closed[t], m_write_data'[t] = m_write_data[t], ops'[t] = ops[t],
             t > m_session_counter' => t > m_session_counter
      PROVE  SessionOK(t)'
  <2>1. AnsweredOf(t)' /\ (ops'[t] # {} => StreamOf(t)' /\ WritingOf(t)')
    BY <1>a, <1>c, SameSession DEF SessionOK
  <2>2. FreshOf(t)'
    BY <1>a, <1>c DEF SessionOK, FreshOf
  <2> QED
    BY <2>1, <2>2 DEF SessionOK
<1>d. ASSUME m_session_counter' = m_session_counter, t \in m_session_list,
             AnsweredOf(t)', ops'[t] # {} => StreamOf(t)' /\ WritingOf(t)'
      PROVE  SessionOK(t)'
  <2>1. ~(t > m_session_counter)
    BY <1>d DEF RpcTypeOK, Session
  <2> QED
    BY <1>d, <2>1 DEF SessionOK, FreshOf
<1>e. ASSUME t \in m_session_list, ops'[t] = {}, m_session_counter' = m_session_counter,
             replies' = replies, asked' = asked
      PROVE  SessionOK(t)'
  <2>1. AnsweredOf(t)'
    BY <1>a, <1>e DEF SessionOK, AnsweredOf
  <2> QED
    BY <1>d, <1>e, <2>1
<1>f. ASSUME NEW s \in Session, NEW op \in Op, op \in ops[s] PROVE ops[s] = {op} /\ StreamOf(s) /\ WritingOf(s)
  BY <1>a, <1>b, <1>f DEF SessionOK
<1>g. ASSUME NEW s \in Session, NEW op \in Op, s \in m_session_list, ops[s] = {op},
             delete_me(s, op), wire' = wire \/ wire' = [wire EXCEPT ![s] = Tail(@)]
      PROVE  SessionOK(t)'
  <2>1. /\ ops' = [ops EXCEPT ![s] = {}] /\ replies' = replies /\ asked' = asked
        /\ closed' = closed /\ m_write_data' = m_write_data /\ m_session_counter' = m_session_counter
    BY <1>g DEF delete_me
  <2>2. CASE t = s
    BY <1>e, <1>g, <2>1, <2>2 DEF RpcTypeOK
  <2>3. CASE t # s
    BY <1>c, <1>g, <2>1, <2>3 DEF RpcTypeOK
  <2> QED
    BY <2>2, <2>3
<1>0. CASE UNCHANGED rpcVars
  BY <1>0, <1>c DEF rpcVars
<1>1. ASSUME NEW s \in Session, NEW k \in Kinds, ClientSend(s, k) PROVE SessionOK(t)'
  <2> DEFINE n == Len(asked[s]) + 1
  <2>0. /\ asked' = [asked EXCEPT ![s] = Append(@, k)] /\ Len(asked[s]) < MaxSent
        /\ wire' = [wire EXCEPT ![s] = @ \o <<<<Len(asked'[s]), "size">>, <<Len(asked'[s]), "data">>,
                                              <<Len(asked'[s]), "hmac">>>>]
        /\ ops' = ops /\ replies' = replies /\ closed' = closed /\ m_write_data' = m_write_data
        /\ m_session_counter' = m_session_counter /\ s <= m_session_counter /\ closed[s] = "no"
    BY <1>1 DEF ClientSend
  <2>1. CASE t # s
    BY <2>0, <2>1, <1>c DEF RpcTypeOK
  <2>2. CASE t = s
    <3>1. wire[s] \in Seq((1 .. MaxSent) \X Part) /\ asked[s] \in Seq(Kinds)
      BY DEF RpcTypeOK
    <3>2. /\ n \in 1 .. MaxSent /\ n \in Nat /\ Len(asked'[s]) = n
          /\ \A i \in 1 .. Len(asked[s]) : asked'[s][i] = asked[s][i]
      BY <3>1, <2>0, RpcConstants DEF RpcTypeOK
    <3> DEFINE x == <<n, "size">>
               y == <<n, "data">>
               z == <<n, "hmac">>
    <3>3. x \in (1 .. MaxSent) \X Part /\ y \in (1 .. MaxSent) \X Part /\ z \in (1 .. MaxSent) \X Part
      BY <3>2 DEF Part
    <3>4. wire'[s] = wire[s] \o <<x, y, z>>
      BY <2>0, <3>2 DEF RpcTypeOK
    <3> HIDE DEF x, y, z
    <3>5. /\ Len(wire'[s]) = Len(wire[s]) + 3
          /\ \A j \in 1 .. Len(wire[s]) : wire'[s][j] = wire[s][j]
          /\ wire'[s][Len(wire[s]) + 1] = x
          /\ wire'[s][Len(wire[s]) + 2] = y
          /\ wire'[s][Len(wire[s]) + 3] = z
      BY <3>1, <3>3, <3>4, MessageFacts
    <3>6. AnsweredOf(s) /\ (ops[s] # {} => StreamOf(s) /\ WritingOf(s))
      BY <1>a DEF SessionOK
    <3> HIDE DEF n
    <3>7. AnsweredOf(s)' /\ (ops'[s] # {} => StreamOf(s)' /\ WritingOf(s)')
      <4>1. n = Len(asked[s]) + 1
        BY DEF n
      <4> QED
        BY <2>0, <3>2, <3>5, <3>6, <4>1, MessageSent DEF x, y, z
    <3>8. ~(s > m_session_counter')
      BY <2>0 DEF RpcTypeOK, Session
    <3> QED
      BY <2>2, <3>7, <3>8 DEF SessionOK, FreshOf
  <2> QED
    BY <2>1, <2>2
<1>2. ASSUME NEW s \in Session, NEW how \in {"eof", "reset"}, ClientClose(s, how) PROVE SessionOK(t)'
  <2>0. /\ closed' = [closed EXCEPT ![s] = how] /\ s <= m_session_counter
        /\ ops' = ops /\ replies' = replies /\ asked' = asked /\ m_write_data' = m_write_data
        /\ m_session_counter' = m_session_counter
    BY <1>2 DEF ClientClose
  <2>1. PICK n \in 0 .. Len(wire[s]) : wire' = [wire EXCEPT ![s] = SubSeq(@, 1, n)]
    BY <1>2 DEF ClientClose
  <2>2. CASE t # s
    BY <2>0, <2>1, <2>2, <1>c DEF RpcTypeOK
  <2>3. CASE t = s
    <3>1. wire[s] \in Seq((1 .. MaxSent) \X Part) /\ wire'[s] = SubSeq(wire[s], 1, n)
          /\ closed'[s] # "no"
      BY <2>0, <2>1 DEF RpcTypeOK
    <3>2. Len(wire'[s]) = n /\ \A j \in 1 .. n : wire'[s][j] = wire[s][j]
      BY <3>1, CutFacts
    <3>3. \A j \in 1 .. n : j \in 1 .. Len(wire[s])
      BY <3>1
    <3>4. Taken(s)' = Taken(s)
      BY <2>0 DEF Taken
    <3>5. StreamOf(s) => StreamOf(s)'
      BY <2>0, <3>1, <3>2, <3>3, <3>4 DEF StreamOf
    <3>6. AnsweredOf(s)' /\ (ops'[s] # {} => StreamOf(s)' /\ WritingOf(s)')
      BY <1>a, <2>0, <3>5 DEF SessionOK, AnsweredOf, WritingOf
    <3>7. ~(s > m_session_counter')
      BY <2>0 DEF RpcTypeOK, Session
    <3> QED
      BY <2>3, <3>6, <3>7 DEF SessionOK, FreshOf
  <2> QED
    BY <2>2, <2>3
<1>3. CASE accept_handler
  <2>0. /\ m_session_counter' = m_session_counter + 1 /\ m_session_counter \in Nat
        /\ m_session_counter + 1 \in Session
        /\ ops' = [ops EXCEPT ![m_session_counter + 1] = {"size"}]
        /\ wire' = wire /\ asked' = asked /\ replies' = replies /\ m_write_data' = m_write_data
        /\ closed' = closed
    BY <1>3, RpcConstants DEF accept_handler, RpcTypeOK, Session
  <2>1. CASE t # m_session_counter + 1
    <3>1. t > m_session_counter' => t > m_session_counter
      BY <2>0, <2>1 DEF Session
    <3> QED
      BY <2>0, <2>1, <3>1, <1>c DEF RpcTypeOK
  <2>2. CASE t = m_session_counter + 1
    <3>1. wire[t] = <<>> /\ asked[t] = <<>> /\ replies[t] = <<>> /\ closed[t] = "no"
      BY <1>a, <2>0, <2>2 DEF SessionOK, FreshOf
    <3>2. ops'[t] = {"size"} /\ {"size"} # {"write"}
      BY <2>0, <2>2 DEF RpcTypeOK
    <3>3. Taken(t)' = 0
      <4>1. Taken(t)' = 3 * Len(replies'[t]) + Begun(ops'[t])
        BY DEF Taken
      <4>2. Len(replies'[t]) = 0 /\ Begun(ops'[t]) = 0
        BY <2>0, <3>1, <3>2, BegunFacts
      <4> QED
        BY <4>1, <4>2
    <3>4. StreamOf(t)' /\ WritingOf(t)' /\ AnsweredOf(t)'
      <4>1. Len(wire'[t]) = 0 /\ Len(asked'[t]) = 0 /\ Len(replies'[t]) = 0
        BY <2>0, <3>1
      <4>2. StreamOf(t)'
        BY <3>3, <4>1 DEF StreamOf
      <4>3. WritingOf(t)'
        BY <3>2 DEF WritingOf
      <4>4. AnsweredOf(t)'
        BY <4>1 DEF AnsweredOf
      <4> QED
        BY <4>2, <4>3, <4>4
    <3>5. ~(t > m_session_counter')
      BY <2>0, <2>2
    <3> QED
      BY <3>4, <3>5 DEF SessionOK, FreshOf
  <2> QED
    BY <2>1, <2>2
<1>4. CASE remove_session_from_vector \/ ThreadReturns \/ add_rpc_function
  BY <1>4, <1>c DEF remove_session_from_vector, ThreadReturns, add_rpc_function
<1>5. ASSUME NEW s \in Session, NEW op \in Part, NEW next \in Part,
             Begun({next}) = Begun({op}) + 1, op \in ops[s], s \in m_session_list, wire[s] # <<>>, ReadNext(s, op, next)
      PROVE  SessionOK(t)'
  <2>0. /\ wire' = [wire EXCEPT ![s] = Tail(@)] /\ asked' = asked /\ replies' = replies
        /\ m_write_data' = m_write_data /\ closed' = closed /\ m_session_counter' = m_session_counter
    BY <1>5 DEF ReadNext
  <2>1. ops[s] = {op} /\ StreamOf(s)
    BY <1>5, <1>f DEF Op
  <2>2. ops' = [ops EXCEPT ![s] = {next}]
    BY <1>5, <2>1 DEF ReadNext
  <2>3. CASE t # s
    BY <2>0, <2>2, <2>3, <1>c DEF RpcTypeOK
  <2>4. CASE t = s
    <3>1. ops'[s] = {next} /\ wire'[s] = Tail(wire[s]) /\ {next} # {"write"}
      BY <2>0, <2>2, <1>5 DEF RpcTypeOK, Part
    <3>2. Len(replies[s]) \in Nat
      BY DEF RpcTypeOK
    <3>3. Begun({next}) = Begun({op}) + 1
      BY <1>5, BegunFacts
    <3>4. Taken(s)' = Taken(s) + 1 /\ Taken(s) \in Nat
      <4>1. Taken(s) = 3 * Len(replies[s]) + Begun({op})
        BY <2>1 DEF Taken
      <4>2. Taken(s)' = 3 * Len(replies[s]) + Begun({next})
        BY <2>0, <3>1 DEF Taken
      <4>3. Begun({op}) \in Nat
        BY BegunFacts
      <4> QED
        BY <3>2, <3>3, <4>1, <4>2, <4>3
    <3>5. StreamOf(s)'
      BY <2>0, <2>1, <3>1, <3>4, <1>5, PartTaken
    <3>6. AnsweredOf(s)' /\ WritingOf(s)'
      BY <1>a, <2>0, <3>1 DEF SessionOK, AnsweredOf, WritingOf
    <3> QED
      BY <1>d, <1>5, <2>0, <2>4, <3>5, <3>6
  <2> QED
    BY <2>3, <2>4
<1>6. ASSUME NEW s \in Session, read_handler_size(s) PROVE SessionOK(t)'
  <2>1. ops[s] = {"size"} /\ s \in m_session_list /\ "size" \in ops[s]
    BY <1>6, <1>f DEF read_handler_size, Op, Part
  <2>2. CASE ReadFails(s, "size")
    BY <2>1, <2>2, <1>g DEF ReadFails, Op, Part
  <2>3. CASE wire[s] # <<>> /\ ReadNext(s, "size", "data")
    BY <2>1, <2>3, <1>5, BegunFacts DEF Part
  <2>4. CASE EmptyMessage(s)
    <3>1. /\ ops' = [ops EXCEPT ![s] = {}] /\ replies' = replies /\ asked' = asked
          /\ closed' = closed /\ m_write_data' = m_write_data /\ m_session_counter' = m_session_counter
          /\ wire' = [wire EXCEPT ![s] = Tail(@)]
      BY <2>1, <2>4 DEF EmptyMessage
    <3>2. CASE t = s
      BY <1>e, <2>1, <3>1, <3>2 DEF RpcTypeOK
    <3>3. CASE t # s
      BY <1>c, <3>1, <3>3 DEF RpcTypeOK
    <3> QED
      BY <3>2, <3>3
  <2> QED
    BY <1>6, <2>2, <2>3, <2>4 DEF read_handler_size
<1>7. ASSUME NEW s \in Session, read_handler_data(s) PROVE SessionOK(t)'
  <2>1. ops[s] = {"data"} /\ s \in m_session_list
    BY <1>7, <1>f DEF read_handler_data, Op, Part
  <2>2. CASE ReadFails(s, "data")
    BY <2>1, <2>2, <1>g DEF ReadFails, Op, Part
  <2>3. CASE wire[s] # <<>> /\ ReadNext(s, "data", "hmac")
    BY <2>1, <2>3, <1>5, BegunFacts DEF Part
  <2> QED
    BY <1>7, <2>2, <2>3 DEF read_handler_data
<1>8. ASSUME NEW s \in Session, read_handler_hmac(s) PROVE SessionOK(t)'
  <2>1. ops[s] = {"hmac"} /\ s \in m_session_list /\ StreamOf(s)
    BY <1>8, <1>f DEF read_handler_hmac, Op, Part
  <2>2. CASE ReadFails(s, "hmac")
    BY <2>1, <2>2, <1>g DEF ReadFails, Op, Part
  <2>3. CASE CommandRefused(s)
    BY <2>1, <2>3, <1>g DEF CommandRefused, Op, Part
  <2>4. CASE wire[s] # <<>> /\ execute_rpc_command(s)
    <3>0. /\ wire' = [wire EXCEPT ![s] = Tail(@)] /\ asked' = asked /\ replies' = replies
          /\ m_write_data' = [m_write_data EXCEPT ![s] = Head(wire[s])[1]]
          /\ closed' = closed /\ m_session_counter' = m_session_counter
          /\ asked[s][Head(wire[s])[1]] = "known"
      BY <2>4 DEF execute_rpc_command, send_response, Incoming
    <3>1. ops' = [ops EXCEPT ![s] = {"write"}]
      BY <2>1, <2>4 DEF execute_rpc_command
    <3>2. CASE t # s
      BY <3>0, <3>1, <3>2, <1>c DEF RpcTypeOK
    <3>3. CASE t = s
      <4>1. ops'[s] = {"write"} /\ wire'[s] = Tail(wire[s]) /\ m_write_data'[s] = Head(wire[s])[1]
        BY <3>0, <3>1 DEF RpcTypeOK
      <4>2. Len(replies[s]) \in Nat
        BY DEF RpcTypeOK
      <4>3. Taken(s)' = Taken(s) + 1 /\ Taken(s) \in Nat
        BY <2>1, <3>0, <4>1, <4>2, BegunFacts DEF Taken
      <4>4. StreamOf(s)'
        BY <2>1, <2>4, <3>0, <4>1, <4>3, PartTaken
      <4>5. AnsweredOf(s)'
        BY <1>a, <3>0 DEF SessionOK, AnsweredOf
      <4>6. Head(wire[s])[1] = Len(replies[s]) + 1 /\ Head(wire[s])[1] <= Len(asked[s])
        BY <2>1, <2>4, NextAnswer
      <4>7. WritingOf(s)'
        BY <3>0, <4>1, <4>6 DEF WritingOf
      <4> QED
        BY <1>d, <2>1, <3>0, <3>3, <4>4, <4>5, <4>7
    <3> QED
      BY <3>2, <3>3
  <2> QED
    BY <1>8, <2>2, <2>3, <2>4 DEF read_handler_hmac
<1>9. ASSUME NEW s \in Session, write_handler(s) PROVE SessionOK(t)'
  <2>1. ops[s] = {"write"} /\ s \in m_session_list /\ StreamOf(s) /\ WritingOf(s)
    BY <1>9, <1>f DEF write_handler, Op
  <2>2. CASE closed[s] = "reset"
    BY <2>1, <2>2, <1>9, <1>g DEF write_handler, Op
  <2>3. CASE closed[s] # "reset"
    <3>c. PICK came \in Arrivals :
            replies' = [replies EXCEPT ![s] = Append(@, [re |-> m_write_data[s], came |-> came])]
      BY <1>9, <2>3 DEF write_handler
    <3>0. /\ wire' = wire /\ asked' = asked /\ m_write_data' = m_write_data
          /\ closed' = closed /\ m_session_counter' = m_session_counter
      BY <1>9, <2>3 DEF write_handler
    <3>1. ops' = [ops EXCEPT ![s] = {"size"}]
      BY <2>1, <2>3, <1>9 DEF write_handler
    <3>2. CASE t # s
      BY <3>c, <3>0, <3>1, <3>2, <1>c DEF RpcTypeOK
    <3>3. CASE t = s
      <4>1. ops'[s] = {"size"} /\ {"size"} # {"write"}
            /\ replies'[s] = Append(replies[s], [re |-> m_write_data[s], came |-> came])
        BY <3>c, <3>1 DEF RpcTypeOK
      <4>2. AnsweredOf(s)
        BY <1>a DEF SessionOK
      <4>3. StreamOf(s)' /\ AnsweredOf(s)'
        BY <2>1, <3>0, <4>1, <4>2, AnswerWritten
      <4>4. WritingOf(s)'
        BY <4>1 DEF WritingOf
      <4> QED
        BY <1>d, <2>1, <3>0, <3>3, <4>3, <4>4
    <3> QED
      BY <3>2, <3>3
  <2> QED
    BY <2>2, <2>3
<1>10. ASSUME NEW s \in Session, HandlerOfErased(s) PROVE SessionOK(t)'
  BY <1>10, <1>c DEF HandlerOfErased
<1>11. ~Destructor
  BY <1>a DEF Destructor, DtorLock, DtorUnlock, DtorStop, DtorJoin, DtorTell, Early
<1> QED
  BY <1>0, <1>1, <1>2, <1>3, <1>4, <1>6, <1>7, <1>8, <1>9, <1>10, <1>11
  DEF RpcNext, RpcThreadStep, RpcClients

-----------------------------------------------------------------------------
\* The inductive invariant of the RPC server holds in every reachable state.
THEOREM RpcInvariant == RpcSpec => []RpcInv
<1>1. RpcInit => RpcInv
  <2> SUFFICES ASSUME RpcInit PROVE RpcInv
    OBVIOUS
  <2>1. RpcTypeOK
    BY RpcConstants DEF RpcInit, RpcTypeOK, Answer
  <2>2. OpsInv
    BY DEF RpcInit, OpsInv
  <2>3. StreamInv
    BY DEF RpcInit, StreamInv, SessionOK, FreshOf, AnsweredOf
  <2> QED
    BY <2>1, <2>2, <2>3 DEF RpcInv
<1>2. RpcInv /\ [RpcNext]_rpcVars => RpcInv'
  BY RpcTypeStep, OpsStep, StreamStep DEF RpcInv
<1> QED
  BY <1>1, <1>2, PTL DEF RpcSpec

\* The sessions, streams and buffers of the RPC server keep their shape, whatever clients
\* send and whenever the owner destroys the server (rpc.cpp).
THEOREM RpcTypes == RpcSpec => []RpcTypeOK
<1>1. RpcInv => RpcTypeOK
  BY DEF RpcInv
<1> QED
  BY <1>1, RpcInvariant, PTL

\* Until the destructor starts, a session that is in the list waits for exactly one
\* asynchronous operation and no handler runs on an erased session, for any number of
\* clients that send, close and reset (rpc.cpp:225).
THEOREM OneOperation == RpcSpec => []OneOperationPerSession
<1>1. RpcInv => OneOperationPerSession
  <2> SUFFICES ASSUME RpcInv, Early PROVE OneOperationPerSession
    BY DEF OneOperationPerSession, Early
  <2>1. /\ thread # "undefined"
        /\ \A s \in Session :
             /\ ops[s] \in {{}, {"size"}, {"data"}, {"hmac"}, {"write"}}
             /\ s \notin m_session_list \/ s = erasing => ops[s] = {}
             /\ thread = "run" /\ s \in m_session_list /\ s # erasing => ops[s] # {}
    BY DEF RpcInv, OpsInv
  <2>2. m_session_list \subseteq Session
    BY RpcConstants DEF RpcInv, RpcTypeOK, Session
  <2>3. Cardinality({}) = 0 /\ Cardinality({"size"}) = 1 /\ Cardinality({"data"}) = 1
        /\ Cardinality({"hmac"}) = 1 /\ Cardinality({"write"}) = 1
    BY FS_EmptySet, FS_Singleton, Zenon
  <2>4. \A s \in Session : Cardinality(ops[s]) <= 1 /\ (ops[s] # {} => Cardinality(ops[s]) = 1)
    BY <2>1, <2>3, SMTT(60)
  <2> QED
    BY <2>1, <2>2, <2>4 DEF OneOperationPerSession
<1> QED
  BY <1>1, RpcInvariant, PTL

\* Until the destructor starts, the i-th answer that is written to a client, in whole or
\* in part, is the answer to its i-th message, which was a command: none is left out,
\* repeated or overwritten in the session's buffer, however long the client goes on and
\* whatever the writes before it failed to send (rpc.cpp:193, 234, 272).
THEOREM AnswersStayInOrder == RpcSpec => []AnswersInOrder
<1>1. RpcInv => AnswersInOrder
  BY DEF RpcInv, StreamInv, SessionOK, AnsweredOf, AnswersInOrder, Early
<1> QED
  BY <1>1, RpcInvariant, PTL
=============================================================================
