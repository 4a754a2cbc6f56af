------------------------------- MODULE NetModel -------------------------------
(***************************************************************************)
(* The network model, src/src-tools/netmodel/netmodel.cpp: tuntap threads  *)
(* read packets into welds (buffers that hold several packets), a weld     *)
(* that is almost full is posted to the strand of a wire socket and sent,  *)
(* and the flows of the wire sockets receive, process and receive again.   *)
(* The sockets are shared by the threads of an io_service; the option      *)
(* mt_strand or mt_mutex says how they are kept apart.                     *)
(* A packet is its number and its size.                                    *)
(***************************************************************************)
EXTENDS Integers, Sequences, FiniteSets, SequencesExt

CONSTANTS Weld,      \* cfg_num_weld_tuntap buffers, 1 .. n
          Worker,    \* cfg_num_socket_tuntap threads that read the tuntap
          Thread,    \* threads that run the io_service of the wire sockets
          Sock,      \* wire sockets
          Inbuf,     \* receive buffers, one flow each
          TunBuf,    \* cfg_size_tuntap_buf
          TunRead,   \* cfg_size_tuntap_maxread
          FragMax,   \* fragment_pos_max
          MaxPacket  \* bound: packets the tuntap delivers

ASSUME NetConstants ==
  /\ TunBuf \in Nat /\ TunRead \in 1 .. TunBuf /\ FragMax \in Nat \ {0}
  /\ Weld \subseteq Nat \ {0} /\ MaxPacket \in Nat

VARIABLES option,   \* the command line
          asiotest,     \* where asiotest_udpserv is
          weld,     \* the welds
          worker,   \* the tuntap threads: where they are, the weld they hold
          strand,   \* strand[s]: tasks posted to the strand of socket s
          posted,   \* restarts posted to the io_service (mt_mutex)
          ios_thread,   \* the wire threads: idle, or the task they are in
          sending,  \* welds with an async_send_to that is not completed
          flow,     \* flow[b]: the receive flow of buffer b
          g_atomic_exit,
          stopped,  \* the io_services are stopped
          tun,      \* packets read from the tuntap so far
          wire      \* numbers of the packets that left, in their order

netVars == <<option, asiotest, weld, worker, strand, posted, ios_thread, sending, flow,
             g_atomic_exit, stopped, tun, wire>>

Idle == <<"idle">>
Free == [at |-> "none", weld |-> 0]
c_weld == [frags |-> <<>>, m_pos |-> 0, m_reserved |-> FALSE]

\* A method the program was told to use; an assertion keeps it to one.
cfg_mt_method == CHOOSE m \in {"strand", "mutex"} : m \in option.mt

NetTypeOK ==
  /\ asiotest \in {"parse", "start", "flows", "join", "done", "throw", "abort"}
  /\ weld \in [Weld -> [frags : Seq(1 .. MaxPacket), m_pos : 0 .. TunBuf,
                        m_reserved : BOOLEAN]]
  /\ \A w \in Weld : Len(weld[w].frags) <= FragMax
  /\ worker \in [Worker -> [at : {"none", "pick", "read", "ended", "undefined"},
                            weld : {0} \union Weld]]
  /\ sending \subseteq Weld
  /\ flow \in [Inbuf -> {"none", "posted", "armed", "ended"}]
  /\ g_atomic_exit \in BOOLEAN /\ stopped \in BOOLEAN
  /\ tun \in 0 .. MaxPacket

\* The options that steer the program: whether every option it requires is
\* there, tuntap_block or tuntap_async, the methods, an unknown option, and the
\* values of tuntap_async= and tuntap_use_real=.
NetInit ==
  /\ option \in [required : BOOLEAN, tuntap : BOOLEAN,
                 mt : SUBSET {"strand", "mutex"}, unknown : BOOLEAN,
                 async : BOOLEAN, real : BOOLEAN]
  /\ asiotest = "parse"
  /\ weld = [w \in Weld |-> c_weld]
  /\ worker = [k \in Worker |-> Free]
  /\ strand = [s \in Sock |-> <<>>]
  /\ posted = {}
  /\ ios_thread = [t \in Thread |-> Idle]
  /\ sending = {}
  /\ flow = [b \in Inbuf |-> "none"]
  /\ g_atomic_exit = FALSE
  /\ stopped = FALSE
  /\ tun = 0
  /\ wire = <<>>

-----------------------------------------------------------------------------
\* The command line.

\* A required option that is missing throws when it is read.
set_from_cmdline == option.required

\* Two methods at once fail an assertion; an option with a value that nobody
\* asked for is an error.
ParseOptions ==
  /\ asiotest = "parse"
  /\ asiotest' = IF ~set_from_cmdline \/ ~option.tuntap THEN "throw"
             ELSE IF Cardinality(option.mt) = 2 THEN "abort"
             ELSE IF option.mt = {} \/ option.unknown THEN "throw"
             ELSE "start"
  /\ UNCHANGED <<option, weld, worker, strand, posted, ios_thread, sending, flow,
                 g_atomic_exit, stopped, tun, wire>>

-----------------------------------------------------------------------------
\* The tuntap side.

space_left(x) == IF Len(x.frags) >= FragMax THEN 0 ELSE TunBuf - x.m_pos

Usable == {w \in Weld : ~weld[w].m_reserved /\ space_left(weld[w]) >= TunRead}

\* The first weld that is free and has room, or 0 for the empty buffer.
FirstUsable == IF Usable = {} THEN 0
               ELSE CHOOSE w \in Usable : \A v \in Usable : w <= v

MutNotReserved(k) ==
  /\ worker[k].at = "pick" /\ ~g_atomic_exit
  /\ FirstUsable # 0
  /\ worker' = [worker EXCEPT ![k] = [at |-> "read", weld |-> FirstUsable]]
  /\ UNCHANGED <<option, asiotest, weld, strand, posted, ios_thread, sending, flow,
                 g_atomic_exit, stopped, tun, wire>>

\* get_tun_input_buffer reserves under the exclusive lock of all the welds.
get_tun_input_buffer(k) ==
  /\ worker[k].at = "pick" /\ ~g_atomic_exit
  /\ FirstUsable # 0
  /\ weld' = [weld EXCEPT ![FirstUsable].m_reserved = TRUE]
  /\ worker' = [worker EXCEPT ![k] = [at |-> "read", weld |-> FirstUsable]]
  /\ UNCHANGED <<option, asiotest, strand, posted, ios_thread, sending, flow,
                 g_atomic_exit, stopped, tun, wire>>

\* func_send_weld: any wire socket may be drawn.
func_send_weld(w) ==
  \E s \in Sock : strand' = [strand EXCEPT ![s] = Append(@, <<"send", w>>)]

add_fragment(w, size) ==
  [weld[w] EXCEPT !.frags = Append(@, tun + 1), !.m_pos = @ + size]

\* A read of the tuntap (it fails with the size 0) and what follows it in
\* send_to_global_weld: the fragment is added; a weld without room for the
\* next read is sent and stays reserved, another one is given back.
send_to_global_weld(k, size) ==
  LET w == worker[k].weld
      after == add_fragment(w, size)
      should_send == space_left(after) < TunRead
  IN  /\ worker[k].at = "read" /\ tun < MaxPacket
      /\ size <= space_left(weld[w])
      /\ tun' = tun + 1
      /\ IF should_send
         THEN func_send_weld(w) /\ weld' = [weld EXCEPT ![w] = after]
         ELSE weld' = [weld EXCEPT ![w] = [after EXCEPT !.m_reserved = FALSE]]
              /\ UNCHANGED strand
      /\ UNCHANGED <<option, asiotest, posted, ios_thread, sending, flow, g_atomic_exit,
                     stopped, wire>>

\* The blocking reader loops.  The handler of an asynchronous read goes on
\* with a copy of itself that was taken before it existed.
TuntapRead(k, size) ==
  /\ send_to_global_weld(k, size)
  /\ worker' = [worker EXCEPT ![k] =
                  [at |-> IF option.async THEN "undefined" ELSE "pick", weld |-> 0]]

\* The read of the real tuntap turns an error into the size 0; the read of the
\* fake one throws, and the loop goes on without giving the weld back.
TuntapReadThrows(k) ==
  /\ worker[k].at = "read" /\ ~option.real /\ ~option.async
  /\ worker' = [worker EXCEPT ![k] = [at |-> "pick", weld |-> 0]]
  /\ UNCHANGED <<option, asiotest, weld, strand, posted, ios_thread, sending, flow,
                 g_atomic_exit, stopped, tun, wire>>

WorkerEnds(k) ==
  /\ worker[k].at = "pick" /\ g_atomic_exit
  /\ worker' = [worker EXCEPT ![k].at = "ended"]
  /\ UNCHANGED <<option, asiotest, weld, strand, posted, ios_thread, sending, flow,
                 g_atomic_exit, stopped, tun, wire>>

-----------------------------------------------------------------------------
\* The threads of the wire io_service.

\* A strand runs one task at a time, on any thread of the io_service.
RunStrand(t, s) ==
  /\ ios_thread[t] = Idle /\ ~stopped
  /\ strand[s] # <<>>
  /\ \A u \in Thread : ios_thread[u] = Idle \/ ~(ios_thread[u][1] = "strand" /\ ios_thread[u][2] = s)
  /\ ios_thread' = [ios_thread EXCEPT ![t] = <<"strand", s, Head(strand[s])>>]
  /\ strand' = [strand EXCEPT ![s] = Tail(@)]
  /\ UNCHANGED <<option, asiotest, weld, worker, posted, sending, flow,
                 g_atomic_exit, stopped, tun, wire>>

\* With mt_mutex the restart of a flow runs under mutex_handlerflow_socket.
RunPosted(t, b, s) ==
  /\ ios_thread[t] = Idle /\ ~stopped
  /\ <<b, s>> \in posted
  /\ \A u \in Thread : ios_thread[u] = Idle \/ ios_thread[u][1] # "mutex"
  /\ ios_thread' = [ios_thread EXCEPT ![t] = <<"mutex", s, <<"receive", b>>>>]
  /\ posted' = posted \ {<<b, s>>}
  /\ UNCHANGED <<option, asiotest, weld, worker, strand, sending, flow,
                 g_atomic_exit, stopped, tun, wire>>

\* The task uses the socket: async_send_to of a weld or async_receive_from
\* into a buffer.
UseSocket(t) ==
  /\ ios_thread[t] # Idle /\ ios_thread[t][1] # "ended"
  /\ LET task == ios_thread[t][3]
     IN  IF task[1] = "send"
         THEN sending' = sending \union {task[2]} /\ UNCHANGED flow
         ELSE flow' = [flow EXCEPT ![task[2]] = "armed"] /\ UNCHANGED sending
  /\ ios_thread' = [ios_thread EXCEPT ![t] = Idle]
  /\ UNCHANGED <<option, asiotest, weld, worker, strand, posted, g_atomic_exit,
                 stopped, tun, wire>>

\* The handler of a completed send looks at no error and clears the weld.
SendDone(t, w) ==
  /\ ios_thread[t] = Idle /\ ~stopped /\ w \in sending
  /\ sending' = sending \ {w}
  /\ wire' = wire \o weld[w].frags
  /\ weld' = [weld EXCEPT ![w] = c_weld]
  /\ UNCHANGED <<option, asiotest, worker, strand, posted, ios_thread, flow,
                 g_atomic_exit, stopped, tun>>

\* A buffer is read on the socket its flow was given, inbuf modulo sockets.
FlowSocket(b) == ((b - 1) % Cardinality(Sock)) + 1

MutRestartUnwrapped(t, b, ec, exit) ==
  /\ ios_thread[t] = Idle /\ ~stopped /\ flow[b] = "armed" /\ ~ec
  /\ flow' = [flow EXCEPT ![b] = "posted"]
  /\ posted' = posted \union {<<b, FlowSocket(b)>>}
  /\ g_atomic_exit' = (g_atomic_exit \/ exit)
  /\ UNCHANGED <<option, asiotest, weld, worker, strand, ios_thread, sending, stopped, tun,
                 wire>>

\* handler_receive after a read: an error ends the flow for good, the message
\* "exit" ends the program, and the restart of the read is posted.
handler_receive(t, b, ec, exit) ==
  /\ ios_thread[t] = Idle /\ ~stopped /\ flow[b] = "armed"
  /\ ec => ~exit
  /\ flow' = [flow EXCEPT ![b] = IF ec THEN "ended" ELSE "posted"]
  /\ g_atomic_exit' = (g_atomic_exit \/ exit)
  /\ IF ec THEN UNCHANGED <<strand, posted>>
     ELSE IF cfg_mt_method = "strand"
     THEN strand' = [strand EXCEPT ![FlowSocket(b)] = Append(@, <<"receive", b>>)]
          /\ UNCHANGED posted
     ELSE posted' = posted \union {<<b, FlowSocket(b)>>} /\ UNCHANGED strand
  /\ UNCHANGED <<option, asiotest, weld, worker, ios_thread, sending, stopped, tun, wire>>

ThreadEnds(t) ==
  /\ ios_thread[t] = Idle /\ stopped
  /\ ios_thread' = [ios_thread EXCEPT ![t] = <<"ended">>]
  /\ UNCHANGED <<option, asiotest, weld, worker, strand, posted, sending, flow,
                 g_atomic_exit, stopped, tun, wire>>

-----------------------------------------------------------------------------
\* The main thread, the signal and the stop thread.

\* The workers start; with the asynchronous tuntap the k-th one reserves the
\* k-th weld, the first that is still free, and reads at once.
StartWorkers ==
  /\ asiotest = "start"
  /\ asiotest' = "flows"
  /\ IF option.async
     THEN /\ weld' = [w \in Weld |-> [weld[w] EXCEPT !.m_reserved = w \in Worker]]
          /\ worker' = [k \in Worker |-> IF k \in Weld
                                         THEN [at |-> "read", weld |-> k] ELSE Free]
     ELSE /\ worker' = [k \in Worker |-> [at |-> "pick", weld |-> 0]]
          /\ UNCHANGED weld
  /\ UNCHANGED <<option, strand, posted, ios_thread, sending, flow, g_atomic_exit,
                 stopped, tun, wire>>

\* The first read of a flow is posted to the strand, whatever the method.
func_spawn_flow_wire(b) ==
  /\ asiotest = "flows" /\ flow[b] = "none"
  /\ \A c \in Inbuf : flow[c] = "none" => b <= c
  /\ flow' = [flow EXCEPT ![b] = "posted"]
  /\ strand' = [strand EXCEPT ![FlowSocket(b)] = Append(@, <<"receive", b>>)]
  /\ asiotest' = IF \E c \in Inbuf : flow'[c] = "none" THEN asiotest ELSE "join"
  /\ UNCHANGED <<option, weld, worker, posted, ios_thread, sending, g_atomic_exit,
                 stopped, tun, wire>>

handler_signal_term ==
  /\ asiotest \in {"start", "flows", "join"} /\ ~g_atomic_exit
  /\ g_atomic_exit' = TRUE
  /\ UNCHANGED <<option, asiotest, weld, worker, strand, posted, ios_thread, sending,
                 flow, stopped, tun, wire>>

\* The time limit is compared with a difference that is never positive, so
\* only the flag ends the loop of the stop thread.
thread_stop ==
  /\ asiotest \in {"start", "flows", "join"} /\ g_atomic_exit /\ ~stopped
  /\ stopped' = TRUE
  /\ UNCHANGED <<option, asiotest, weld, worker, strand, posted, ios_thread, sending,
                 flow, g_atomic_exit, tun, wire>>

\* The data that is to wake the workers goes to another port than the one the
\* fake tuntap reads, so a worker ends only when a packet comes.
JoinAll ==
  /\ asiotest = "join" /\ stopped
  /\ \A k \in Worker : worker[k].at \in {"ended", "none", "undefined"}
  /\ \A t \in Thread : ios_thread[t] = <<"ended">>
  /\ asiotest' = "done"
  /\ UNCHANGED <<option, weld, worker, strand, posted, ios_thread, sending, flow,
                 g_atomic_exit, stopped, tun, wire>>

WireThread(t) ==
  \/ \E s \in Sock : RunStrand(t, s)
  \/ \E b \in Inbuf, s \in Sock : RunPosted(t, b, s)
  \/ UseSocket(t)
  \/ \E w \in Weld : SendDone(t, w)
  \/ \E b \in Inbuf, ec, exit \in BOOLEAN : handler_receive(t, b, ec, exit)
  \/ ThreadEnds(t)

NetNext ==
  \/ ParseOptions \/ StartWorkers \/ handler_signal_term \/ thread_stop \/ JoinAll
  \/ \E b \in Inbuf : func_spawn_flow_wire(b)
  \/ \E k \in Worker : \/ get_tun_input_buffer(k)
                       \/ \E size \in 0 .. TunBuf : TuntapRead(k, size)
                       \/ TuntapReadThrows(k)
                       \/ WorkerEnds(k)
  \/ \E t \in Thread : WireThread(t)

\* The threads run; whether packets arrive is up to the network.
NetFairness ==
  /\ WF_netVars(thread_stop)
  /\ \A t \in Thread : WF_netVars(UseSocket(t)) /\ WF_netVars(ThreadEnds(t))

-----------------------------------------------------------------------------
\* Properties.

\* Those who may write into weld w or read it.
Holders(w) ==
  {<<"worker", k>> : k \in {j \in Worker : worker[j] = [at |-> "read", weld |-> w]}}
    \union {<<"strand", s>> : s \in {r \in Sock : Contains(strand[r], <<"send", w>>)}}
    \union {<<"thread", t>> : t \in {u \in Thread : /\ Len(ios_thread[u]) = 3
                                                  /\ ios_thread[u][3] = <<"send", w>>}}
    \union {<<"asio", w>> : v \in sending \intersect {w}}

\* A reserved weld has one holder, the worker that reads into it or the send
\* that is under way, and a weld that is free has none: a packet is never read
\* into bytes that are being encrypted in place or sent, and no reservation
\* is forgotten, but for the reads of the fake tuntap that throw (m_reserved in
\* get_tun_input_buffer, send_to_global_weld, the handlers of func_send_weld).
WeldHasOneHolder ==
  \A w \in Weld :
    /\ Cardinality(Holders(w)) <= 1
    /\ ~weld[w].m_reserved => Holders(w) = {}
    /\ weld[w].m_reserved /\ option.real => Holders(w) # {}

\* A weld that nobody holds has room for a read: otherwise no worker would
\* choose it again and nobody would ever send what it holds (the two
\* comparisons of space_left() with the largest read must agree).
FreeWeldHasRoom ==
  asiotest # "parse" => \A w \in Weld : weld[w].m_reserved \/ space_left(weld[w]) >= TunRead

\* Every packet that was read is in one weld or went out, once: none is lost
\* or sent twice by the hand-over between worker, strand and send handler.
PacketsInOnePlace ==
  LET held == {h \in Weld \X (1 .. FragMax) : h[2] <= Len(weld[h[1]].frags)}
  IN  \A p \in 1 .. tun :
        Cardinality({h \in held : weld[h[1]].frags[h[2]] = p})
          + Cardinality({i \in 1 .. Len(wire) : wire[i] = p}) = 1

\* The threads that are using socket s.
Users(s) == {t \in Thread : Len(ios_thread[t]) = 3 /\ ios_thread[t][2] = s}

\* With mt_strand no two threads use one socket object at the same time: the
\* first read, every restart and every send go through its strand.
StrandGuardsSocket ==
  option.mt = {"strand"} => \A s \in Sock : Cardinality(Users(s)) <= 1

\* Once the program is told to exit, every thread of the wire io_services
\* ends, whatever it was doing (thread_stop, the loops around run()).
WireThreadsEnd ==
  (g_atomic_exit /\ asiotest # "parse")
     ~> (\A t \in Thread : ios_thread[t] = <<"ended">>)
=============================================================================
