------------------------------ MODULE GuiClient ------------------------------
(***************************************************************************)
(* The Qt client, src/src-gui, and its TCP connections to a node's RPC     *)
(* server.  Everything of the client runs on the Qt thread: slots of the   *)
(* user's clicks, of timers and of arriving data.  A command executor has  *)
(* a socket, the reader of the stream (dataeater), the sender with its id  *)
(* counter and the orders that wait for an answer; "settings" makes a new  *)
(* executor while the old one lives on.                                    *)
(* A reply on the stream is two units, a head that holds its size and a    *)
(* tail that holds its authenticator; readyRead brings any number of them. *)
(* The node answers a connection's requests in order (RpcServer), may      *)
(* close it, and may restart, which restarts its session numbers.          *)
(***************************************************************************)
EXTENDS Integers, Sequences, FiniteSets, SequencesExt

CONSTANTS Vips,         \* peers a user names
          MaxExecutor,  \* bound: executors ever made
          MaxConn,      \* bound: connections ever made
          MaxRequest    \* bound: requests ever made

ASSUME GuiConstants == MaxExecutor \in Nat \ {0} /\ MaxConn \in Nat /\ MaxRequest \in Nat

VARIABLES executors,  \* sequence of executors; the last is m_cmd_exec
          node,       \* the node as the client meets it
          peers,      \* m_peers_list: rows of the peer list
          m_is_working,
          selected,   \* the row a message box asks about, or nothing
          exited,     \* the client has crashed
          applied,    \* requests whose answers were applied to a row, in that order
          executed,   \* executed[c]: last reply of connection c that was executed
          misframed   \* a frame that is no reply has been read

guiVars == <<executors, node, peers, m_is_working, selected, exited, applied,
             executed, misframed>>

PeerCommands == {"add_peer", "delete_peer", "ban_peer"}
PlainCommands == {"ping", "delete_all_peers", "ban_all_peers", "get_status"}
Commands == PeerCommands \union PlainCommands \union {"hello"}
NoId == <<>>
NoPeer == "none"

\* status and comm_status of a row (meshpeer.h)
Row == [vip : Vips, status : {"connected", "banned"},
        comm : {"sended", "recived", "acknowled"}]

commandExecutor ==
  [conn |-> 0, m_wait_name_flag |-> TRUE, m_client_name |-> 0, m_counter |-> 0,
   m_orders |-> <<>>, m_internal_buffer |-> <<>>, m_last_command |-> <<>>,
   missing |-> 0, back |-> <<>>, m_timer |-> FALSE, clash |-> FALSE]
   \* m_orders is a function from ids to orders; missing = 0: no frame is begun;
   \* back: the newest frame of m_commands_list; clash: addOrder has thrown

Client == [ex |-> executors, nd |-> node, working |-> m_is_working]

-----------------------------------------------------------------------------
\* The socket.

is_connected(c, e) ==
  c.ex[e].conn # 0 /\ c.nd.conns[c.ex[e].conn].open

\* The status form: the node works once it has given a session id.
onLostConnection(c) == [c EXCEPT !.working = FALSE]
onGetSessionId(c) == [c EXCEPT !.working = TRUE]

\* A new connection gets the next session number of the node, if it is up.
startConnect(c, e) ==
  IF ~c.nd.up THEN [onLostConnection(c) EXCEPT !.ex[e].conn = 0]
  ELSE [ex |-> [c.ex EXCEPT ![e].conn = Len(c.nd.conns) + 1],
        nd |-> [c.nd EXCEPT !.sessions = @ + 1,
                            !.conns = Append(@, [sid |-> c.nd.sessions + 1, open |-> TRUE,
                                                 asks |-> <<>>, stream |-> <<>>, sent |-> 0])],
        working |-> FALSE]

\* A connection that ends: what was asked and not read is lost.
Ended(k) == [k EXCEPT !.open = FALSE, !.asks = <<>>]

closeConnection(c, e) ==
  IF c.ex[e].conn = 0 THEN c
  ELSE [c EXCEPT !.ex[e].conn = 0, !.nd.conns[c.ex[e].conn] = Ended(@)]

\* Without a connection the request is dropped in silence.
send_msg(c, e, req) ==
  IF is_connected(c, e) THEN [c EXCEPT !.nd.conns[c.ex[e].conn].asks = Append(@, req)] ELSE c

\* sendNetRequest connects first when it must.
sendNetRequest(c, e, req) ==
  send_msg([(IF is_connected(c, e) THEN c ELSE startConnect(onLostConnection(c), e))
              EXCEPT !.nd.requests = @ + 1], e, req)

-----------------------------------------------------------------------------
\* The sender: ids, and the orders that wait for an answer.

Serial(c) == c.nd.requests + 1  \* tells the requests apart, whatever their ids

startCommunication(c, e) ==
  LET d == sendNetRequest(c, e, [cmd |-> "hello", id |-> NoId, n |-> Serial(c)])
  IN  [d EXCEPT !.ex[e].m_wait_name_flag = TRUE]

\* The id of the next order; hello has none.
NextId(x, cmd) == IF cmd = "hello" THEN NoId ELSE <<x.m_client_name, x.m_counter>>

\* The order takes an id from the counter.
prepareCommand(c, e, cmd) == IF cmd = "hello" THEN c ELSE [c EXCEPT !.ex[e].m_counter = @ + 1]

\* deletePeerOrder does not send its id.
get_str(cmd, id, n) == [cmd |-> cmd, id |-> IF cmd = "delete_peer" THEN NoId ELSE id, n |-> n]

\* addOrder drops an order without an id, and throws when the id is taken: the older order stays.
addOrder(c, e, id, order) ==
  IF id = NoId THEN c
  ELSE IF id \in DOMAIN c.ex[e].m_orders THEN [c EXCEPT !.ex[e].clash = TRUE]
  ELSE [c EXCEPT !.ex[e].m_orders =
                   [i \in DOMAIN @ \cup {id} |-> IF i = id THEN order ELSE @[i]]]

MutDeleteAnswered(c, e, cmd, peer) ==
  LET id == NextId(c.ex[e], cmd)
      sent == sendNetRequest(prepareCommand(c, e, cmd), e, [cmd |-> cmd, id |-> id, n |-> Serial(c)])
  IN  IF cmd # "hello" /\ c.ex[e].m_client_name = 0 THEN c
      ELSE addOrder(sent, e, id, [cmd |-> cmd, n |-> Serial(c), peer |-> peer])

\* prepareCommand takes an id, the request goes out, then the order is recorded.
\* Orders are kept as the base class sees them: the peer of a delete_peer is
\* hidden in the derived class.
sendCommand(c, e, cmd, peer) ==
  LET id == NextId(c.ex[e], cmd)
      order == [cmd |-> cmd, n |-> Serial(c),
                peer |-> IF cmd = "delete_peer" THEN NoPeer ELSE peer]
      sent == sendNetRequest(prepareCommand(c, e, cmd), e, get_str(cmd, id, Serial(c)))
  IN  IF cmd # "hello" /\ c.ex[e].m_client_name = 0 THEN c
      ELSE addOrder(sent, e, id, order)

MutOrderKept(c, e, id) == c

\* getOrder hands an order out once.
getOrder(c, e, id) ==
  [c EXCEPT !.ex[e].m_orders = [i \in DOMAIN @ \ {id} |-> @[i]]]

setRpcName(x, name) ==
  IF x.m_client_name = name THEN x
  ELSE [x EXCEPT !.m_client_name = name, !.m_counter = 0]

setSenderRpcName(c, e, name) ==
  LET named == [onGetSessionId(c) EXCEPT
                         !.ex[e] = [setRpcName(@, name) EXCEPT !.m_wait_name_flag = FALSE]]
      asked == sendCommand(named, e, "get_status", NoPeer)
  IN  [asked EXCEPT !.ex[e].m_timer = TRUE]

Becomes(c) ==
  /\ executors' = c.ex /\ node' = c.nd /\ m_is_working' = c.working
  /\ c.nd.requests <= MaxRequest /\ Len(c.nd.conns) <= MaxConn

-----------------------------------------------------------------------------
\* The peer list.

RowOf(list, v) == { i \in 1 .. Len(list) : list[i].vip = v }

peerExist(v) == RowOf(peers, v) # {}

addPeer(list, v) ==
  IF RowOf(list, v) # {} THEN list
  ELSE Append(list, [vip |-> v, status |-> "connected", comm |-> "sended"])

MutConfirmAppends(list, v) ==
  Append(list, [vip |-> v, status |-> "connected", comm |-> "acknowled"])

confirmAddPeer(list, v) ==
  LET row == [vip |-> v, status |-> "connected", comm |-> "acknowled"]
  IN  IF RowOf(list, v) = {} THEN Append(list, row)
      ELSE [list EXCEPT ![Min(RowOf(list, v))] = row]

confirmBanPeer(list, v) ==
  IF RowOf(list, v) = {} THEN list
  ELSE [list EXCEPT ![Min(RowOf(list, v))].status = "banned",
                    ![Min(RowOf(list, v))].comm = "recived"]

confirmDeletePeer(list, v) ==
  IF RowOf(list, v) = {} THEN list ELSE RemoveAt(list, Min(RowOf(list, v)))

banAllPeers(list) == [i \in 1 .. Len(list) |-> [list[i] EXCEPT !.status = "banned"]]

deletaAllPeers(list) == <<>>

-----------------------------------------------------------------------------
GuiInit ==
  /\ \E up \in BOOLEAN :
       LET c == startCommunication([ex |-> <<commandExecutor>>, working |-> FALSE,
                  nd |-> [up |-> up, sessions |-> 0, requests |-> 0, conns |-> <<>>]], 1)
       IN  executors = c.ex /\ node = c.nd /\ m_is_working = c.working
  /\ peers = <<>>
  /\ selected = <<>>
  /\ exited = FALSE
  /\ applied = <<>>
  /\ executed = [c \in 1 .. MaxConn |-> 0]
  /\ misframed = FALSE

Cur == Len(executors)
Waiting == executors[Cur].m_wait_name_flag
\* A message box is modal: the other slots of the user wait for it.
Free == ~exited /\ selected = <<>>

Unread == UNCHANGED <<applied, executed, misframed>>

\* onAddPeer, onRemovePeer, onBanPeer catch what sendCommand throws.
Request(cmd, v) ==
  IF Waiting THEN UNCHANGED <<executors, node, m_is_working>>
  ELSE Becomes(sendCommand(Client, Cur, cmd, v))

\* onBanAll, onDeleteAll and on_ping_clicked do not: it ends the program.
PlainRequest(cmd) ==
  IF Waiting THEN exited' = TRUE /\ UNCHANGED <<executors, node, m_is_working>>
  ELSE UNCHANGED exited /\ Becomes(sendCommand(Client, Cur, cmd, NoPeer))

\* Add peer: the row first, then the request, also for a row that is there.
addActionSlot(v) ==
  /\ Free
  /\ peers' = addPeer(peers, v)
  /\ Request("add_peer", v)
  /\ UNCHANGED <<selected, exited>> /\ Unread

connectToNet(v) ==
  /\ Free /\ m_is_working /\ ~peerExist(v)
  /\ Request("add_peer", v)
  /\ UNCHANGED <<peers, selected, exited>> /\ Unread

\* The menu, and the question the ban and remove slots ask: the index and the
\* vip are taken before the box, and replies are executed while it is open.
contextMenuEvent(i, what) ==
  /\ Free /\ m_is_working
  /\ selected' = <<what, i, peers[i].vip>>
  /\ UNCHANGED <<executors, node, peers, m_is_working, exited>> /\ Unread

\* The user says No.
BoxRefused ==
  /\ ~exited /\ selected # <<>>
  /\ selected' = <<>>
  /\ UNCHANGED <<executors, node, peers, m_is_working, exited>> /\ Unread

startActionOnIndex(list, i) == [list EXCEPT ![i].comm = "sended"]

banActionSlot ==
  /\ ~exited /\ selected # <<>> /\ selected[1] = "ban"
  /\ peers' = confirmBanPeer(startActionOnIndex(peers, selected[2]), selected[3])
  /\ Request("ban_peer", selected[3])
  /\ selected' = <<>>
  /\ UNCHANGED exited /\ Unread

\* The vip of the remove slot is read after the box.
removeActionSlot ==
  /\ ~exited /\ selected # <<>> /\ selected[1] = "remove"
  /\ LET v == peers[selected[2]].vip
     IN  /\ Request("delete_peer", v)
         /\ peers' = confirmDeletePeer(startActionOnIndex(peers, selected[2]), v)
  /\ selected' = <<>>
  /\ UNCHANGED exited /\ Unread

banAllSlot ==
  /\ Free /\ m_is_working /\ peers # <<>>
  /\ peers' = banAllPeers(peers)
  /\ PlainRequest("ban_all_peers")
  /\ UNCHANGED selected /\ Unread

deleteAllSlot ==
  /\ Free /\ m_is_working /\ peers # <<>>
  /\ peers' = deletaAllPeers(peers)
  /\ PlainRequest("delete_all_peers")
  /\ UNCHANGED selected /\ Unread

on_ping_clicked ==
  /\ Free
  /\ PlainRequest("ping")
  /\ UNCHANGED <<peers, selected>> /\ Unread

\* The connect button of the status form resets the first executor, the one
\* setExecutor was given, and does not set its flag.
resetConnection ==
  /\ Free
  /\ Becomes([sendCommand([closeConnection(Client, 1) EXCEPT !.working = FALSE],
                          1, "hello", NoPeer) EXCEPT !.working = FALSE])
  /\ UNCHANGED <<peers, selected, exited>> /\ Unread

\* Settings: a new executor says hello, connects again and says hello again.
startNewCrpcConnection ==
  /\ Free /\ Cur < MaxExecutor
  /\ LET e == Cur + 1
         made == startCommunication([Client EXCEPT !.ex = Append(@, commandExecutor)], e)
         reconnected == startConnect(IF is_connected(made, e)
                                     THEN closeConnection(made, e) ELSE made, e)
     IN  Becomes(sendCommand(reconnected, e, "hello", NoPeer))
  /\ UNCHANGED <<peers, selected, exited>> /\ Unread

timer_slot(e) ==
  /\ ~exited /\ executors[e].m_timer /\ is_connected(Client, e)
  /\ ~executors[e].m_wait_name_flag
  /\ Becomes(sendCommand(Client, e, "get_status", NoPeer))
  /\ UNCHANGED <<peers, selected, exited>> /\ Unread

-----------------------------------------------------------------------------
\* Arriving data.

MutEatAll(x, units) ==
  LET all == x.m_last_command \o x.m_internal_buffer \o units
      whole == 2 * (Len(all) \div 2)
  IN  { [x EXCEPT !.back = IF whole = 0 THEN @ ELSE SubSeq(all, whole - 1, whole),
                  !.m_last_command = <<>>,
                  !.m_internal_buffer = SubSeq(all, whole + 1, Len(all))] }

\* eat and continiueProcessing: at most one frame is completed per call, the
\* rest of the data stays in the buffer.  A tail read where a head should be
\* is a size made of other bytes, so a frame of any length.
Fed(x, units) ==
  LET all == x.m_internal_buffer \o units
      head == all[1]
  IN  IF all = <<>> THEN {x}
      ELSE { [y EXCEPT !.back = IF y.missing = 0 THEN y.m_last_command ELSE x.back,
                       !.m_last_command = IF y.missing = 0 THEN <<>> ELSE @] :
             y \in { LET more == IF x.missing > 0 THEN x.missing ELSE len
                         taken == IF more > Len(all) THEN Len(all) ELSE more
                     IN [x EXCEPT !.m_last_command = @ \o SubSeq(all, 1, taken),
                                  !.m_internal_buffer = SubSeq(all, taken + 1, Len(all)),
                                  !.missing = more - taken] :
                     len \in IF head[1] = "head" THEN {2} ELSE 2 .. 3 } }

\* check_auth: the frame is one reply, head and tail.
check_auth(frame) ==
  /\ Len(frame) = 2 /\ frame[1][1] = "head" /\ frame[2] = <<"tail", frame[1][2]>>

\* An answer names no peer: getPeerName asks the order of the request, when there is one.
getPeerName(c, e, m) == c.ex[e].m_orders[m.re].peer
NoOrder(c, e, m) == m.re \notin DOMAIN c.ex[e].m_orders

\* add_peer: only "error" is an error.
ApplyAddPeer(c, e, m) ==
  IF m.state = "error" \/ NoOrder(c, e, m)
  THEN Becomes(c) /\ UNCHANGED <<peers, applied>>
  ELSE /\ Becomes(getOrder(c, e, m.re))
       /\ IF c.ex[e].m_orders[m.re].cmd = "add_peer"
          THEN /\ peers' = confirmAddPeer(peers, getPeerName(c, e, m))
               /\ applied' = Append(applied, m.n)
          ELSE UNCHANGED <<peers, applied>>

\* ban_peer: the request's id is read from an "ok" answer only.
ApplyBanPeer(c, e, m) ==
  IF m.state # "ok" \/ NoOrder(c, e, m)
  THEN Becomes(c) /\ UNCHANGED <<peers, applied>>
  ELSE /\ Becomes(getOrder(c, e, m.re))
       /\ IF c.ex[e].m_orders[m.re].cmd = "ban_peer"
          THEN /\ peers' = confirmBanPeer(peers, getPeerName(c, e, m))
               /\ applied' = Append(applied, m.n)
          ELSE UNCHANGED <<peers, applied>>

\* delete_peer: the request had no id, so the answer finds no order.
ApplyDeletePeer(c, e, m) ==
  IF m.state # "ok" \/ NoOrder(c, e, m)
  THEN Becomes(c) /\ UNCHANGED <<peers, applied>>
  ELSE /\ Becomes(getOrder(c, e, m.re))
       /\ peers' = confirmDeletePeer(peers, getPeerName(c, e, m))
       /\ applied' = Append(applied, m.n)

\* hello: the node sends no account_address, so the constructor throws before
\* it sets m_executor, and execute uses an uninitialized pointer: it may hold
\* the executor all the same, or end the program.
ApplyHello(c, e, m) ==
  /\ UNCHANGED <<peers, applied>>
  /\ \/ exited' = TRUE /\ Becomes(c)
     \/ UNCHANGED exited /\ Becomes(setSenderRpcName(c, e, m.sid))

\* ping, ban_all_peers, delete_all_peers and get_status only show a text; their orders stay.
ApplyPlain(c) == Becomes(c) /\ UNCHANGED <<peers, applied>>

parseAndExecMsg(c, e, m) ==
  \/ m.cmd = "hello" /\ ApplyHello(c, e, m)
  \/ /\ m.cmd # "hello" /\ UNCHANGED exited
     /\ \/ m.cmd = "add_peer" /\ ApplyAddPeer(c, e, m)
        \/ m.cmd = "ban_peer" /\ ApplyBanPeer(c, e, m)
        \/ m.cmd = "delete_peer" /\ ApplyDeletePeer(c, e, m)
        \/ m.cmd \in PlainCommands /\ ApplyPlain(c)

\* readyRead: n units arrive.  The newest frame of the list is looked at, new or
\* not: it is never taken out.  One that is no reply drops the connection.
onTcpReceive(e, n) ==
  /\ ~exited /\ executors[e].conn # 0
  /\ LET k == executors[e].conn
         units == SubSeq(node.conns[k].stream, 1, n)
     IN  /\ n <= Len(node.conns[k].stream)
         /\ \E x \in Fed(executors[e], units) :
              LET c == [Client EXCEPT !.ex[e] = x,
                          !.nd.conns[k].stream = SubSeq(@, n + 1, Len(@))]
                  m == x.back[1][2]
              IN  \/ /\ x.back = <<>>
                     /\ Becomes(c)
                     /\ UNCHANGED <<peers, exited>> /\ Unread
                  \/ /\ x.back # <<>> /\ ~check_auth(x.back)
                     /\ Becomes(closeConnection(c, e))
                     /\ misframed' = TRUE
                     /\ UNCHANGED <<peers, exited, applied, executed>>
                  \/ /\ x.back # <<>> /\ check_auth(x.back)
                     /\ parseAndExecMsg(c, e, m)
                     /\ executed' = [executed EXCEPT ![m.conn] = m.nr]
                     /\ UNCHANGED misframed
  /\ UNCHANGED selected

-----------------------------------------------------------------------------
\* The node.

States(cmd) == CASE cmd = "add_peer" -> {"ok", "blocked", "error"}
                 [] cmd \in {"delete_peer", "ban_peer"} -> {"ok", "nothing_done"}
                 [] OTHER -> {"ok"}

\* The answer carries the node's session number and the id of the request.
NodeAnswer(k) ==
  /\ node.conns[k].open /\ node.conns[k].asks # <<>>
  /\ LET req == Head(node.conns[k].asks)
     IN  \E state \in States(req.cmd) :
           LET m == [cmd |-> req.cmd, state |-> state, re |-> req.id, n |-> req.n,
                     sid |-> node.conns[k].sid, conn |-> k, nr |-> node.conns[k].sent + 1]
           IN  node' = [node EXCEPT !.conns[k].asks = Tail(@),
                                    !.conns[k].sent = @ + 1,
                                    !.conns[k].stream = @ \o <<<<"head", m>>, <<"tail", m>>>>]
  /\ UNCHANGED <<executors, peers, m_is_working, selected, exited>> /\ Unread

\* The session ends, in the middle of a reply or not.
NodeClose(k) ==
  /\ node.conns[k].open
  /\ \E n \in 0 .. Len(node.conns[k].stream) :
       node' = [node EXCEPT !.conns[k] = [Ended(node.conns[k]) EXCEPT !.stream = SubSeq(@, 1, n)]]
  /\ UNCHANGED <<executors, peers, m_is_working, selected, exited>> /\ Unread

\* The node ends, or starts: its sessions are numbered from 1 again.
NodeRestart ==
  /\ \A k \in 1 .. Len(node.conns) : ~node.conns[k].open
  /\ node' = [node EXCEPT !.up = ~@, !.sessions = 0]
  /\ UNCHANGED <<executors, peers, m_is_working, selected, exited>> /\ Unread

User ==
  \/ \E v \in Vips : addActionSlot(v) \/ connectToNet(v)
  \/ \E i \in 1 .. Len(peers), what \in {"ban", "remove"} : contextMenuEvent(i, what)
  \/ banActionSlot \/ removeActionSlot \/ BoxRefused
  \/ banAllSlot \/ deleteAllSlot \/ on_ping_clicked
  \/ resetConnection \/ startNewCrpcConnection

GuiNext ==
  \/ User
  \/ \E e \in 1 .. Len(executors) :
       timer_slot(e) \/ \E n \in 1 .. 3 : onTcpReceive(e, n)
  \/ \E k \in 1 .. Len(node.conns) : NodeAnswer(k) \/ NodeClose(k)
  \/ NodeRestart

GuiSpec == GuiInit /\ [][GuiNext]_guiVars

-----------------------------------------------------------------------------
\* The rows of the peer list are rows, and ids belong to the names given.
GuiTypeOK ==
  /\ peers \in Seq(Row)
  /\ m_is_working \in BOOLEAN /\ exited \in BOOLEAN /\ misframed \in BOOLEAN
  /\ \A e \in 1 .. Len(executors) :
       /\ executors[e].conn \in 0 .. Len(node.conns)
       /\ executors[e].missing \in 0 .. 2
  /\ executed \in [1 .. MaxConn -> Nat]

\* No peer has two rows, whichever way additions by the user, additions the node
\* confirms and removals interleave (peersmodel.cpp:112, 182): the list is
\* searched by vip and only the first row would ever be updated.
OneRowPerPeer == \A i, j \in 1 .. Len(peers) : peers[i].vip = peers[j].vip => i = j

\* While every frame read was a reply, the replies of a connection are executed
\* in the order they were sent and none is skipped, however the stream is cut
\* into chunks (dataeater.cpp:19, netclient.cpp:65).
NoReplySkipped ==
  [][~misframed' => \A c \in DOMAIN executed : executed'[c] \in {executed[c], executed[c] + 1}]_guiVars

\* The row that a ban or remove box asks about is still that peer's when the
\* box is answered, although replies are executed meanwhile (peerlistform.cpp:129).
SelectionHolds ==
  selected # <<>> => /\ selected[2] <= Len(peers)
                     /\ peers[selected[2]].vip = selected[3]

\* "class wich is could be created from RpcCounter- to make sure the RpcIp is
\* uniqe" (rpccounter.h:9): no order is sent under an id that an earlier order
\* of the same sender holds (sendedcommand.h:26 throws on it, too late).
RpcIdsUnique == \A e \in 1 .. Len(executors) : ~executors[e].clash

\* As long as no id was used twice, a reply changes the list at most once although
\* the newest frame is executed again by every readyRead that completes none
\* (dataeater.cpp:49): getOrder hands an order out once (sendedcommand.h:32).  When
\* an id comes back after a restart of the node, the frame finds the new order.
AppliedOnce ==
  RpcIdsUnique => \A i, j \in 1 .. Len(applied) : applied[i] = applied[j] => i = j
=============================================================================
