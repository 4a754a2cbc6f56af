------------------------------ MODULE RpcServer ------------------------------
(***************************************************************************)
(* The RPC server of the node, src/src/rpc/rpc.cpp.  One thread runs the   *)
(* io_service: it accepts clients and runs every read and write handler.   *)
(* A session keeps itself alive only by being in m_session_list, and its   *)
(* handlers hold a bare `this`.  The destructor of the server runs on the  *)
(* main thread, next to the RPC thread.                                    *)
(* A message on the wire is its three parts (size, data, authenticator);   *)
(* of its text only the class matters: a command of the node, a message    *)
(* that is refused (a wrong authenticator, text that is no JSON or no      *)
(* command), or the size zero.                                             *)
(* An answer is written with async_write_some, once: what did not fit into *)
(* the socket is never sent, and the authenticator is read from an array   *)
(* of send_response that is gone when the write is not done at once.       *)
(***************************************************************************)
EXTENDS Integers, Sequences, FiniteSets

CONSTANTS MaxSession,  \* bound: clients that ever connect
          MaxSent,     \* bound: messages one client sends
          Senders      \* bound: clients that send; the others connect and leave

ASSUME RpcConstants == MaxSession \in Nat \ {0} /\ MaxSent \in Nat

VARIABLES m_session_counter,  \* sessions accepted so far
          m_session_list,     \* the sessions alive
          ops,        \* ops[s]: asynchronous operations of s not completed
          wire,       \* wire[s]: parts of messages the server has not read
          asked,      \* asked[s]: messages client s has sent
          replies,    \* replies[s]: answers written to client s, each with what
                      \* arrived of it
          m_write_data,  \* m_write_data[s]: the answer the buffer holds
          closed,     \* closed[s]: how client s ended the connection
          thread,     \* the RPC thread
          main,       \* the owner of the server: construction, destruction
          mutex,      \* holder of m_session_vector_mutex
          todo,       \* sessions the destructor has still to tell
          erasing     \* session whose delete_me waits for the mutex, or 0

rpcVars == <<m_session_counter, m_session_list, ops, wire, asked, replies,
             m_write_data, closed, thread, main, mutex, todo, erasing>>

Session == 1 .. MaxSession
Kinds == {"known", "refused", "empty"}
Part == {"size", "data", "hmac"}
Op == Part \union {"write"}
Answer == 0 .. MaxSent  \* the request answered; 0 is the destructor's notice

\* What one async_write_some sends: the whole answer, or a torn one, which is the
\* beginning of it or has what the dead array holds in place of the authenticator.
Arrivals == {"whole", "torn"}
Written == [re : Answer, came : Arrivals]

RpcTypeOK ==
  /\ m_session_counter \in 0 .. MaxSession
  /\ m_session_list \subseteq 1 .. m_session_counter
  /\ ops \in [Session -> SUBSET Op]
  /\ wire \in [Session -> Seq((1 .. MaxSent) \X Part)]
  /\ asked \in [Session -> Seq(Kinds)]
  /\ replies \in [Session -> Seq(Written)]
  /\ m_write_data \in [Session -> Answer]
  /\ closed \in [Session -> {"no", "eof", "reset"}]
  /\ thread \in {"run", "ended", "undefined"}
  /\ main \in {"starting", "running", "telling", "told", "stopped", "done"}
  /\ mutex \in {"free", "main"}
  /\ todo \subseteq Session
  /\ erasing \in {0} \union Session

RpcInit ==
  /\ m_session_counter = 0
  /\ m_session_list = {}
  /\ ops = [s \in Session |-> {}]
  /\ wire = [s \in Session |-> <<>>]
  /\ asked = [s \in Session |-> <<>>]
  /\ replies = [s \in Session |-> <<>>]
  /\ m_write_data = [s \in Session |-> 0]
  /\ closed = [s \in Session |-> "no"]
  /\ thread = "run"
  /\ main = "starting"
  /\ mutex = "free"
  /\ todo = {}
  /\ erasing = 0

\* The RPC thread runs handlers one at a time until the io_service stops.
Running == thread = "run" /\ erasing = 0 /\ main \notin {"stopped", "done"}

-----------------------------------------------------------------------------
\* The clients.

ClientSend(s, k) ==
  /\ s <= m_session_counter /\ closed[s] = "no"
  /\ s \in Senders /\ Len(asked[s]) < MaxSent
  /\ asked' = [asked EXCEPT ![s] = Append(@, k)]
  /\ LET n == Len(asked'[s])
     IN  wire' = [wire EXCEPT ![s] = @ \o <<<<n, "size">>, <<n, "data">>, <<n, "hmac">>>>]
  /\ UNCHANGED <<m_session_counter, m_session_list, ops, replies, m_write_data,
                 closed, thread, main, mutex, todo, erasing>>

\* The end of the stream may cut the last messages short.
ClientClose(s, how) ==
  /\ s <= m_session_counter /\ closed[s] = "no"
  /\ closed' = [closed EXCEPT ![s] = how]
  /\ \E n \in 0 .. Len(wire[s]) : wire' = [wire EXCEPT ![s] = SubSeq(@, 1, n)]
  /\ UNCHANGED <<m_session_counter, m_session_list, ops, asked, replies,
                 m_write_data, thread, main, mutex, todo, erasing>>

-----------------------------------------------------------------------------
\* The RPC thread.

accept_handler ==
  /\ Running /\ mutex = "free" /\ m_session_counter < MaxSession
  /\ m_session_counter' = m_session_counter + 1
  /\ m_session_list' = m_session_list \union {m_session_counter + 1}
  /\ ops' = [ops EXCEPT ![m_session_counter + 1] = {"size"}]
  /\ UNCHANGED <<wire, asked, replies, m_write_data, closed, thread, main,
                 mutex, todo, erasing>>

\* delete_me in the handler of operation op of s: shutdown() of a connection that was reset
\* throws, and the exception leaves every handler and ends the thread.
delete_me(s, op) ==
  /\ ops' = [ops EXCEPT ![s] = @ \ {op}]
  /\ IF closed[s] = "reset"
     THEN thread' = "ended" /\ UNCHANGED erasing
     ELSE erasing' = s /\ UNCHANGED thread
  /\ UNCHANGED <<m_session_counter, m_session_list, asked, replies,
                 m_write_data, closed, main, mutex, todo>>

remove_session_from_vector ==
  /\ thread = "run" /\ erasing # 0 /\ mutex = "free"
  /\ m_session_list' = m_session_list \ {erasing}
  /\ erasing' = 0
  /\ UNCHANGED <<m_session_counter, ops, wire, asked, replies, m_write_data,
                 closed, thread, main, mutex, todo>>

\* A read of s that fails: the client is gone and nothing is left to read.
ReadFails(s, op) ==
  /\ wire[s] = <<>> /\ closed[s] # "no"
  /\ UNCHANGED wire
  /\ delete_me(s, op)

ReadNext(s, op, next) ==
  /\ wire' = [wire EXCEPT ![s] = Tail(@)]
  /\ ops' = [ops EXCEPT ![s] = (@ \ {op}) \union {next}]
  /\ UNCHANGED <<m_session_counter, m_session_list, asked, replies, m_write_data,
                 closed, thread, main, mutex, todo, erasing>>

\* The message of s that is being read.
Incoming(s) == asked[s][Head(wire[s])[1]]

\* With the size zero, at(0) of the empty string throws out of the handler.
EmptyMessage(s) ==
  /\ thread' = "ended"
  /\ wire' = [wire EXCEPT ![s] = Tail(@)]
  /\ ops' = [ops EXCEPT ![s] = @ \ {"size"}]
  /\ UNCHANGED <<m_session_counter, m_session_list, asked, replies, m_write_data,
                 closed, main, mutex, todo, erasing>>

read_handler_size(s) ==
  /\ Running /\ s \in m_session_list /\ "size" \in ops[s]
  /\ \/ ReadFails(s, "size")
     \/ wire[s] # <<>> /\ Incoming(s) # "empty" /\ ReadNext(s, "size", "data")
     \/ wire[s] # <<>> /\ Incoming(s) = "empty" /\ EmptyMessage(s)

read_handler_data(s) ==
  /\ Running /\ s \in m_session_list /\ "data" \in ops[s]
  /\ \/ ReadFails(s, "data")
     \/ wire[s] # <<>> /\ ReadNext(s, "data", "hmac")

MutAnswerNumber(s, re) == m_write_data' = [m_write_data EXCEPT ![s] = re + 1]

\* The answer is put into the session's buffer and written asynchronously.
send_response(s, re) == m_write_data' = [m_write_data EXCEPT ![s] = re]

MutReadWhileWriting(s) ==
  /\ Incoming(s) = "known" /\ main # "starting"
  /\ send_response(s, Head(wire[s])[1])
  /\ wire' = [wire EXCEPT ![s] = Tail(@)]
  /\ ops' = [ops EXCEPT ![s] = (@ \ {"hmac"}) \union {"write", "size"}]
  /\ UNCHANGED <<m_session_counter, m_session_list, asked, replies, closed,
                 thread, main, mutex, todo, erasing>>

execute_rpc_command(s) ==
  /\ Incoming(s) = "known" /\ main # "starting"
  /\ send_response(s, Head(wire[s])[1])
  /\ wire' = [wire EXCEPT ![s] = Tail(@)]
  /\ ops' = [ops EXCEPT ![s] = (@ \ {"hmac"}) \union {"write"}]
  /\ UNCHANGED <<m_session_counter, m_session_list, asked, replies, closed,
                 thread, main, mutex, todo, erasing>>

\* A wrong authenticator, or an exception of execute_rpc_command: no command, or
\* one that the node has not registered yet.
CommandRefused(s) ==
  /\ Incoming(s) # "known" \/ main = "starting"
  /\ wire' = [wire EXCEPT ![s] = Tail(@)]
  /\ delete_me(s, "hmac")

read_handler_hmac(s) ==
  /\ Running /\ s \in m_session_list /\ "hmac" \in ops[s]
  /\ \/ ReadFails(s, "hmac")
     \/ wire[s] # <<>> /\ execute_rpc_command(s)
     \/ wire[s] # <<>> /\ CommandRefused(s)

\* The write completes: a reset connection is an error; otherwise the client
\* has what was sent of the buffers, and the session reads the next message,
\* however many bytes that was: bytes_transferred is not used.
write_handler(s) ==
  /\ Running /\ s \in m_session_list /\ "write" \in ops[s]
  /\ \/ /\ closed[s] = "reset"
        /\ UNCHANGED wire
        /\ delete_me(s, "write")
     \/ /\ closed[s] # "reset"
        /\ \E came \in Arrivals :
             replies' = [replies EXCEPT ![s] = Append(@, [re |-> m_write_data[s], came |-> came])]
        /\ ops' = [ops EXCEPT ![s] = (@ \ {"write"}) \union {"size"}]
        /\ UNCHANGED <<m_session_counter, m_session_list, wire, asked, m_write_data,
                       closed, thread, main, mutex, todo, erasing>>

\* A handler whose session is erased runs on freed memory.
HandlerOfErased(s) ==
  /\ Running /\ s \notin m_session_list /\ ops[s] # {}
  /\ thread' = "undefined"
  /\ UNCHANGED <<m_session_counter, m_session_list, ops, wire, asked, replies,
                 m_write_data, closed, main, mutex, todo, erasing>>

\* io_service::run returns once the service is stopped.
ThreadReturns ==
  /\ thread = "run" /\ erasing = 0 /\ main = "stopped"
  /\ thread' = "ended"
  /\ UNCHANGED <<m_session_counter, m_session_list, ops, wire, asked, replies,
                 m_write_data, closed, main, mutex, todo, erasing>>

-----------------------------------------------------------------------------
\* The owner of the server.  The commands are added once the thread runs.

add_rpc_function ==
  /\ main = "starting" /\ thread # "undefined"
  /\ main' = "running"
  /\ UNCHANGED <<m_session_counter, m_session_list, ops, wire, asked, replies,
                 m_write_data, closed, thread, mutex, todo, erasing>>

DtorLock ==
  /\ main = "running" /\ mutex = "free" /\ thread # "undefined"
  /\ main' = "telling" /\ mutex' = "main" /\ todo' = m_session_list
  /\ UNCHANGED <<m_session_counter, m_session_list, ops, wire, asked, replies,
                 m_write_data, closed, thread, erasing>>

DtorTell(s) ==
  /\ main = "telling" /\ s \in todo /\ thread # "undefined"
  /\ todo' = todo \ {s}
  /\ send_response(s, 0)
  /\ ops' = [ops EXCEPT ![s] = @ \union {"write"}]
  /\ UNCHANGED <<m_session_counter, m_session_list, wire, asked, replies, closed,
                 thread, main, mutex, erasing>>

MutJoinUnderLock ==
  /\ main = "telling" /\ todo = {} /\ thread # "undefined"
  /\ main' = "told"
  /\ UNCHANGED <<m_session_counter, m_session_list, ops, wire, asked, replies,
                 m_write_data, closed, thread, mutex, todo, erasing>>

\* The lock guard ends before the service is stopped and the thread joined.
DtorUnlock ==
  /\ main = "telling" /\ todo = {} /\ thread # "undefined"
  /\ main' = "told" /\ mutex' = "free"
  /\ UNCHANGED <<m_session_counter, m_session_list, ops, wire, asked, replies,
                 m_write_data, closed, thread, todo, erasing>>

DtorStop ==
  /\ main = "told" /\ thread # "undefined"
  /\ main' = "stopped"
  /\ UNCHANGED <<m_session_counter, m_session_list, ops, wire, asked, replies,
                 m_write_data, closed, thread, mutex, todo, erasing>>

DtorJoin ==
  /\ main = "stopped" /\ thread = "ended"
  /\ main' = "done"
  /\ UNCHANGED <<m_session_counter, m_session_list, ops, wire, asked, replies,
                 m_write_data, closed, thread, mutex, todo, erasing>>

RpcThreadStep ==
  \/ accept_handler
  \/ remove_session_from_vector
  \/ ThreadReturns
  \/ \E s \in Session :
       \/ read_handler_size(s) \/ read_handler_data(s) \/ read_handler_hmac(s)
       \/ write_handler(s) \/ HandlerOfErased(s)

RpcClients ==
  \E s \in Session : \/ \E k \in Kinds : ClientSend(s, k)
                     \/ \E how \in {"eof", "reset"} : ClientClose(s, how)

Destructor == DtorLock \/ DtorUnlock \/ DtorStop \/ DtorJoin \/ \E s \in Session : DtorTell(s)

RpcNext == RpcThreadStep \/ RpcClients \/ add_rpc_function \/ Destructor

\* The threads are scheduled; clients and the end of the node are free.
RpcFairness ==
  /\ WF_rpcVars(RpcThreadStep)
  /\ WF_rpcVars(DtorUnlock \/ DtorStop \/ DtorJoin \/ \E s \in Session : DtorTell(s))

RpcSpec == RpcInit /\ [][RpcNext]_rpcVars /\ RpcFairness

-----------------------------------------------------------------------------
\* Until the destructor starts, a session in the list waits for exactly one
\* operation and a session that is gone for none, so that delete_me may erase
\* the object its handler runs on (rpc.cpp:225) and no later handler of it
\* runs on freed memory.
OneOperationPerSession ==
  main \in {"starting", "running"} =>
    /\ thread # "undefined"
    /\ \A s \in Session : Cardinality(ops[s]) <= 1
    /\ \A s \in Session \ m_session_list : ops[s] = {}
    /\ thread = "run" =>
         \A s \in m_session_list \ {erasing} : Cardinality(ops[s]) = 1

\* Each command of a client is answered by one write of its own, in the order
\* the commands were sent, none left out and none twice, up to the notice of the
\* destructor (rpc.cpp:234, 272): the single write buffer of a session is never
\* overwritten under a pending write, although the session reads on after a write
\* that sent a part only.  So what a write fails to send is the end of its own
\* answer; a client that checks the authenticators takes the answers before the
\* first that did not come whole, and refuses the frame that begins there.
AnswersInOrder ==
  main \in {"starting", "running"} =>
    \A s \in Session : \A i \in 1 .. Len(replies[s]) :
      replies[s][i].re = i /\ asked[s][i] = "known"

\* Every destruction of the server that starts comes to its end: the RPC thread
\* never keeps a mutex, or waits for one, that the destructor needs to join it
\* (rpc.cpp:64) - unless a handler has run on an erased session.
DestructionEnds == main = "telling" ~> (main = "done" \/ thread = "undefined")
=============================================================================
