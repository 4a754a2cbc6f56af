# galaxy42: a TLA+ verification project

galaxy42 is a mesh VPN: every node has a virtual IPv6 address (its *hip*, the
hash of its public key), exchanges UDP packets with a few *peers*, finds routes
to nodes that are no peers by asking around, and carries the packets of a local
TUN device end to end encrypted. The program that runs today is
`c_tunserver` (`src/src/tunserver.cpp`); its successor ("newloop") is mostly
disabled code.

This directory holds models of its core, the TLC runs that check them on small
instances, and proofs checked by TLAPS for all instances. `PROJECT.json` lists
components, runs, mutants, the map from definitions to source lines, findings,
hazards and theorems.

## 1. Inventory

| Part | State | Operations | Hard because |
|---|---|---|---|
| Peer table (`c_tunserver::m_peer`, `m_peer_black_list`, `c_peering`) | peers by hip with physical address, pubkey, last ping; banned hips | add, add with pubkey, delete, delete/ban one, delete/ban all, time-out | used by the main thread and the RPC thread; references outlive the mutex; a ban is two critical sections |
| Tunnels (`m_tunnel`) | one crypto tunnel per hip | created by a "hi" or a route reply, never removed | must exist whenever a route or a keyed peer is used |
| Routing manager (`c_routing_manager`) | running searches `m_search`, known routes `m_route_nexthop` | find, search, store | distributed over nodes that see late, lost and repeated packets; never forgets |
| Event loop and handlers (`event_loop`) | ping timer and counter | ping, TUN packet, `tunneled_data`, `public_hi`, `findhip_query`, `findhip_reply` | exceptions end a handler half-way; one packet per iteration |
| RPC commands (`rpc_...`) | `is_exiting` | add, delete, ban, list, exit, ... | run on the RPC thread, each a sequence of critical sections |
| RPC server (`rpc/rpc.cpp`) | list of sessions, one buffer and one operation of each | accept, read size, data and HMAC, execute, respond | asynchronous callbacks of a session that may delete itself |
| Event manager and UDP wrapper | one receive buffer (asio) | wait, receive | select() or asio re-arming a single buffer |
| Crypto tunnel (`crypto/crypto.cpp`) | keys of both streams, nonce counters | exchange, box, unbox | both ends count nonces in one space |
| Multikeys (`crypto/multikeys*`) | key lists per crypto system, a cached hash | generate, save, load, sign, verify | the hash is the node's address and is cached; a load may throw half-way |
| Serialization (`trivialserialize`) | byte buffers | push/pop of integers, strings, vectors, maps | limits of length prefixes, strings cut short |
| Program start, data store, privileges | key files, user ids, capabilities | create, save and load keys, choose the IDI, drop root | killed between any two writes; every step may fail |
| TUN/TAP devices (`c_tun_device`, `tuntap/`) | registry keys, handles, addresses of the card | find, open, configure, read, write, answer neighbour solicitations | any system call may fail, on three systems |
| HTTP debug server and statistics | windows of counters | count, refresh, draw | counted and refreshed by two threads |
| Cables (`cable/`), `vector_mutexed_obj` | services and threads, shared memory, locked elements | run, stop, resize, send, receive, use what matches | condition variables, locks that are released and taken again |
| Qt GUI (`src-gui`) | connection, stream reader, orders waiting for answers, rows of peers | click, receive, apply an answer, reconnect | the stream is cut anywhere; replies run while a message box is open |
| Network model and tools (`src-tools`) | welds, sockets, strands, counters | read, weld, send, receive, measure | threads that share sockets and buffers |
| Newloop node (`galaxysrv*`) | peers of the command line | parse a reference, add a peer | the format has optional and repeated parts |

How they interact: the main thread runs `event_loop()`. It pings all peers, waits
for TUN or UDP, and calls the handlers, which use the peer table, the tunnels and
the routing manager. The routing manager calls back into the node
(`get_peer_with_hip`, `nodep2p_foreach_cmd`). One thread of the RPC server
executes commands, which touch the peer table and `is_exiting` only; the Qt client is at the
other end of a session. Nodes interact by UDP packets alone. Before the loop runs, the
program has dropped its privileges, loaded its keys and opened its devices. The cables, the
newloop and the tools under `src-tools` are used by programs of their own.

What makes the parts correct:

* peer table: no element is used after it was destroyed; banned nodes do not get
  in; pubkeys and tunnels stay consistent with the peers; silent peers go; exit works;
* routing: the next hops of all nodes never form a loop; a route is usable (its
  tunnel exists); floods of queries end; data loses TTL on every hop; data gets
  through where the network is connected; whoever asked is answered;
* RPC: a session has one operation under way and is erased only when it has none; answers
  come in order; the destructor ends; the client applies each answer once, to the right row;
* keys and tunnels: both ends compute one key and never use a nonce twice; the address is
  the hash of the present keys; a node keeps its identity over kills and restarts;
* start: the loop does not run with privileges;
* devices, formats, statistics: what is read is what was sent, once and in order, and what is lost or torn is only
  what the properties name;
* threads: buffers and sockets have one user at a time, and threads that are told to end do.

## 2. Modules

| Module | Contents |
|---|---|
| `PeerTable` | one node, two threads |
| `Routing` | all nodes, routes and data, with the packets in flight |
| `RouteForest` | abstract specification: next hops form a growing forest |
| `RpcServer`, `GuiClient` | the two ends of the RPC interface |
| `ProgramStart` | from `main()` to the loop, with the key files |
| `CryptoTunnel`, `Multikeys` | tunnels, keys and signatures |
| `TunDevice`, `EventDevices`, `TunFrames`, `DebugStats` | devices, what waits for them, what they carry, what is counted |
| `Serialization`, `SafeNumbers`, `PeerReferences` | formats, checked arithmetic, the peers of a command line |
| `Cables` | shared-memory socket, service manager, locked vector |
| `NetModel`, `CryptoBench`, `NetTools` | the programs under `src-tools` |
| `MCPeerTable`, `MCRouting`, `MCRpcGui`, `MCNode`, `MCTransports` | instances for TLC |
| `PeerTableProofs`, `RoutingProofs`, `RouteForestProofs`, `CodecsProofs`, `RpcServerProofs`, `GuiClientProofs`, `TransportsProofs`, `NodeProofs` | theorems |

The parts that an `MC` module puts together share no state (a GUI meets a node
only through the stream, which `GuiClient` has). A behaviour of `MCRpcGui`, `MCNode` or
`MCTransports` is therefore one of one part, named by the variable `part`: the states of the
parts add up instead of multiplying. A definition whose name begins with `Mut` is a mutant,
a plausible bug, and no action uses it.

### PeerTable

State: `m_peer`, `m_peer_black_list`, `m_tunnel`, the options `enable_remove`
and the log level (`dbg2`), `is_exiting`, and for each thread where it is.
Each critical section of `m_peer_etc_mutex` is one action; a thread that releases
the mutex and goes on later is at a named place (`main.at`, `rpc.at`) in between.
`held` has the references to `c_peering` objects that the main thread keeps after
the release; when the object is erased the reference is marked dead. Using a
dead one is undefined behaviour: the model either crashes (`Crash`) or goes on
with an arbitrary value read.

| Action | Code |
|---|---|
| `LoopExit`, `peering_ping_all_peers`, `LoopNoPing` | top of the loop |
| `RecvHi` | `public_hi`: `add_peer_append_pubkey`, then `add_tunnel_to_pubkey`, each of which may throw |
| `RecvTun`, `Route`, `Lookup`, `UseGoal`, `Send` | routing of a packet, up to recursion level 2 |
| `RecvFromPeer`, `Identify`, `Limit`, `Answer` | the commands that need a known sender |
| `RpcAddPeer`, `delete_peer_from_black_list` | RPC `add_peer` |
| `RpcDeletePeer`, `delete_all_peers` | RPC `delete_peer`, `delete_all_peers`, `ban_all_peers` |
| `RpcBanPeer`, `RpcBanDelete`, `add_peer_to_black_list` | RPC `ban_peer` |
| `exit_tunserver`, `Tick` | RPC `exit`; the clock |

Whether the key agreement with a received key throws depends on the key alone, and the hip is its hash: `Unagreeable` is
the set of the hips for which it does. `add_tunnel_to_pubkey` then leaves `m_tunnel` as it was, and the peer, which got
its pubkey before, keeps it.

Abstractions: keys are "known" or not; what the routing manager knows is a
nondeterministic choice (it is the subject of `Routing`); a malformed packet is
`IdleOrRefused`; the read-only RPC commands are left out. The ping before the
loop changes nothing here because all peers are new at that time.

### Routing

State per node: `m_peer`, the peers with `pubkey`, `m_tunnel`, `m_search`,
`m_route_nexthop`; globally the packets in flight in four sets and what was
`delivered` to a TUN. A node handles one packet at a time, so each branch of a
handler is one action; concurrent RPC commands appear as `DeletePeer`.

| Action | Code |
|---|---|
| `PingAll`, `RecvHi` | greeting, which exchanges pubkeys and makes tunnels |
| `TunPacket` | a packet of a local program; an empty blob if there is no tunnel |
| `RecvDataMine`, `RecvDataNoTunnel`, `RecvDataOther`, `RecvDataRefused` | `tunneled_data` |
| `RecvQueryDirect`, `RecvQueryKnown`, `RecvQuerySearch`, `RecvQueryRefused` | `findhip_query` |
| `RecvReply`, `RecvReplyRefused` | `findhip_reply` |
| `DeletePeer` | RPC delete or time-out |

The operators `c_route_search`, `add_request`, `execute`, `search_route`,
`add_route_info` are the methods of `c_routing_manager`;
`route_tun_data_to_its_destination` is the recursive choice of the next hop,
unrolled to its limit of two stored routes. The packets are sets: delay and
reordering are always possible; a packet may be lost in the sense that `Spec`
does not force its reception; with `Duplicates` it stays in flight and may be
received any number of times. In the runs with fairness no packet is lost.

Abstractions: payloads are "encrypted" or the empty blob; a pubkey is the one of
its hip, and no key agreement throws (that is in `PeerTable`); every node has one physical address of its own; the
search's time stamps are left out
(nothing reads them). Bytes matter in one place: the query format ends the hip with
`;` without escaping it, so the hips that contain this byte (`SemicolonHip`) are told apart.

### RouteForest

`hop[n][g]` is empty or one next hop. The only step is `Learn(n, g, h)`: a node without
a next hop for `g` takes `h`, which is `g` or has a next hop for `g`. `Routing`
refines it under `hop <- NextHops` (`BuildsForest`).

### RpcServer

The thread of the `io_service` runs all handlers; `ops[s]` are the operations of session `s` that
have not completed. A handler holds a bare `this`, so one that runs for a session that is not in
`m_session_list` leaves the thread "undefined". Actions: `accept_handler`, the three reads,
`execute_rpc_command`, `send_response`, `delete_me` (which waits for the mutex), and the
destructor step by step (`DtorLock` to `DtorJoin`). An answer is written by a single `async_write_some`, which may send
a part of it, and its authenticator is in an array that is gone when the write is not done at once (`rpc.cpp:249-270`):
`write_handler` delivers it "whole" or "torn" and reads the next message in both cases. A message is the class of its
text: a command, a
refused message, or the size zero. Clients may send, stop reading or leave at any time.

### GuiClient

Everything runs on the Qt thread. An executor has a connection, the stream reader (`Fed` is
`dataeater`), the id counter and the orders that wait. A reply is two units of the
stream, and `readyRead` brings any number of units. The node answers in order, may close a
connection in the middle of a reply, and may restart. It sends its answers whole otherwise: the torn ones are in
`RpcServer`, and a client that got one refuses the frame that begins there, since its authenticator does not fit.
The user's slots, the timer and the
forms that change rows are actions. `misframed` says that a frame was read which is no reply
(after a connection that was cut within a reply the reader keeps the rest).

### ProgramStart

Each step from `main()` on is an action: options, library, `drop_root`, capabilities, the test
of the key files, `create_keys`, the saves (each truncates, then writes),
`program_action_set_IDI`, `configure_mykey`, the checks before the loop. A process is killed or throws
between any two of them, and the next one starts on the files it left (`Gone`, `StartProcess`). A
file is absent, empty or has the keys of one generation.

### CryptoTunnel, Multikeys

`CryptoTunnel` has Alice's and Bob's `c_crypto_tunnel`: constructors, packetstarts that are
lost, delayed and read again, `create_IDe`, `create_CTf`, and texts in both streams. A key is the
set of the secrets combined; a box is read with the key and nonce it was written with. The
last actions are the tunnels as `c_tunserver` makes them (`add_tunnel_to_pubkey`). `Multikeys` has
key pairs with `generate`, `get_hash`, `datastore_save`, `datastore_load`, a load that throws
half-way, `multi_sign` and `multi_sign_verify`.

### TunDevice, EventDevices, TunFrames, DebugStats

`TunDevice` is the search for a card (registry keys and handles on Windows, units on Mac OS) and its
configuration, where every call may fail. `EventDevices` is the wait of the loop and the
reads, for `select` and for asio with reads that complete when a handler runs ("reactor")
or at any time ("overlapped"). Reads may fail with each of them. The asio devices arm their one buffer again before
the loop has read it, so datagrams are lost; with overlapped reads bytes, sender and length may be of two datagrams;
a failed `recvfrom` is taken for a datagram of the greatest size. `LoopReadsWhole` and `LossesBounded` name all of these and
bound them: nothing else is lost, repeated, reordered or torn. `TunFrames` has the octets of frames by their origin, the
copies that split and join them, and the checksum of neighbour advertisements. `DebugStats` has the
windows that the loop advances without a lock and the http thread refreshes; `raced` has the
directions in which both did so at once. Their windows may hold anything from then on, and no property speaks of them.

### Serialization, SafeNumbers, PeerReferences

Codecs and arithmetic as operators with a small machine around each, compared with a reference:
what was pushed, the mathematical result, the parts a reference is made of. `Serialization` has an octet
of `OctetBase` values, so that all limits (0xFD, 0xFFFF, ...) are near. `SANE_MAX_SIZE_FOR_STRING` is that of the code's
assertion; `SerializationConstants` assumes that no text is longer, as packets and key files are far from 50 MB.
`RoundTrip` compares what a push refuses with what the header promises. `SafeNumbers` has the
five functions of `eint` on types of any sign and width. `PeerReferences` is `parse_peer_reference`
and `add_peer_simplestring` over every text of the separators and one other character.

### Cables, NetModel, CryptoBench, NetTools

`Cables`: `c_turbosocket` with the mutex and conditions of each direction, whose waits stand under an `if` and may end
by themselves (`SpuriousWake`, up to `MaxWake` times on each side), the service manager
with threads that may be stopped before they reach `run()`, and `vector_mutexed_obj` with test
and use under two locks. `NetModel`: welds between tuntap threads and wire sockets, strands, the flows
that receive and restart, and the end of the program. `CryptoBench`: the jobs, the buffer sizes of each
operation, and the two condition variables at which main thread and workers meet.
`NetTools`: the sender with its clock, the receivers, and the statistics.

## 3. Runs

| Run | Instance | Checks |
|---|---|---|
| `peer_table_safety` | 2 hips at 1 physical address, no key agreement with one of them, time-out 0, interval 1; 1.74 million states | `TypeOK`, `KeyedPeerHasTunnel`, `MainAdmitsNoBanned`, `PubkeyNeverLost`, `MainKeepsWhatItHolds` |
| `peer_table_liveness` | 1 hip, time-out 1, interval 2 | `SilentPeerRemoved`, `ExitEndsLoop` |
| `routing_safety` | triangle that closes late, TTL 3, repeated packets, one peer removed, one hip with `;`; 31 thousand states | `TypeOK`, `LoopFree`, `BuildsForest`, `RouteHasTunnel`, `NoSelfQuery`, `FullTtl`, `SemicolonOnlyDirect`, `ForwardLosesTtl` |
| `routing_delivery` | line of 3, TTL 5, fair and lossless | `TwoHopDelivery`, `FloodOnce` |
| `rpc_gui` | 2 sessions, 2 messages of one; 1 vip, 2 executors, 3 connections, 4 requests; 1.24 million states | `TypeOK`, `OneOperationPerSession`, `AnswersInOrder`, `DestructionEnds`; `OneRowPerPeer`, `AppliedOnce`, `SelectionHolds`, `NoReplySkipped` |
| `node` | 2 processes and 2 key generations; up to 2 keys of a system; 2 registry subkeys and 3 handles; 2 datagrams and 3 frames; windows of 2; 2 pushed values; types of 1 to 3 digits; references of 5 pieces; 818 thousand states | `TypeOK`, `LoopIsUnprivileged`, `IdentityKept`, `KeysAgree`, `NonceOnce`, `SignaturesAreSound`, `DevicesReadWhole`, `CodecsAreExact` |
| `transports` | 2 welds, 2 tuntap and 2 wire threads; 3 bench threads; 2 receivers; 3 messages each way and 1 spurious wake-up of each side; 3 services; 2 callers on 3 elements; 471 thousand states | `TypeOK`, `WeldsAreExclusive`, `StrandGuardsSocket`, `ToolsAreExact`, `TurboInOrder`, `SharedObjectsHold`, `ThreadsEnd` |
| `gui_rpc_ids` | 1 executor, 3 connections, 6 requests | `RpcIdsUnique` is violated |
| `node_tunnel_key` | the tunnels of two nodes | `KeyIsExchanged` is violated |
| `erased_peer_use` | as `peer_table_safety`, all keys agree, symmetric hips | `NoUseOfErasedPeer` is violated |
| `ban_race` | as `erased_peer_use` | `BannedIsNotPeer` is violated |
| `requester_informed` | line of 4, fair and lossless | `RequesterInformed` is violated |

Why the bounds are enough: a handler of `PeerTable` works on a sender and a
target, so two hips let them be equal or different; two hips at one address let
the sender be mistaken. Ages and timers are only compared with a limit and stop
one past it, so time is not bounded. In `Routing` a loop of next hops needs two
nodes besides the goal; the triangle has them, and its late third edge makes
direct and indirect routes compete. `MaxDeletes` is one removal: it makes
stale routes, the only new behaviour. Two hops are the longest distance at which
the code delivers (see the findings), and three the shortest at which it fails.

In the other parts: two sessions let one be erased while another waits for the mutex, and
two messages put one behind a pending answer; a clash of ids needs a restart, hence three
connections. Two processes are a kill and the start after it. Two keys against one make the shorter list
wrap around. Two subkeys put a card that fails before one that opens, and three handle values
let one be given out again. A second packet is what overwrites the first, a third frame comes after
a loss. One wake-up of each side loses or repeats a message, and three messages leave one on either side of it.
`OctetBase` 4 has lengths of 1, 2, 4 and 8 octets around 1, 15 and 255, and the numbers
lie at these edges. Two callers and two threads are what a lock excludes.

Deadlock checking is off where the system may stop: the program crashes (`PeerTable`), or ends, or
has used up what a bound lets arrive (`rpc_gui`, `node`, `transports`). It is on for `Routing`.

Fairness. `PeerTable`: the main thread keeps taking steps (select() returns after
three seconds and no handler blocks) and time passes; no RPC command is assumed.
`RpcServer`: the RPC thread and the destructor keep running (`RpcFairness`), clients owe
nothing. `NetModel`: the wire threads end their handlers and the stopping thread runs; packets
need not arrive. `CryptoBench` and `Cables`: each thread runs on when it can. All of these are weak fairness
of a thread that does not wait for a peer or a user. `FairSpec` of `Routing`: nodes keep greeting and programs keep
sending, as the
loop does, and every packet in flight is received at last. The last part is a
property of the network and not of the code; it is the best case for delivery, and
`RequesterInformed` fails even then.

### Findings

1. *Use of erased peers* (`erased_peer_use`). `m_peer` "MUST BE used only protected
   by m_peer_etc_mutex!" (`tunserver.hpp:312`), yet the main thread keeps
   references beyond the lock (`tunserver.cpp:1472`, `996`, `284`). An RPC
   delete or ban in between destroys the object. `MainKeepsWhatItHolds` shows that the main
   thread alone never does it.
2. *Ban race* (`ban_race`). `ban_peer` deletes the peer and then extends the black
   list, with the mutex released in between; a "hi" that arrives then makes the
   node a peer again, banned as it is.
3. *Requester not informed* (`requester_informed`). Those who wait for a route are
   recorded "to be informed about the path" (`tunserver.hpp:145`) but never told
   (`tunserver.cpp:1768`). Nor do they ask again, so routes longer than two hops are not found
   when the intermediate node had to search.

4. *Ids used twice* (`gui_rpc_ids`). `RpcId` exists "to make sure the RpcIp is uniqe"
   (`src-gui/rpccounter.h:9`); `setRpcName` starts the counter again for a new name, and a restarted
   node hands out the old names, so an order gets the id of one that still waits. The attempt to prove that
   an answer is applied at most once showed a consequence that the bounds of `rpc_gui` do not reach: with a backlog of
   frames in the reader, a restart and a new order under the old id, the newest frame, executed again by
   the next `readyRead`, finds the new order and is applied a second time. `AppliedOnce` is therefore stated, and proved,
   as long as no id was used twice (`RpcIdsUnique`).
5. *Keys that no exchange went into* (`node_tunnel_key`). `crypto.hpp:150` describes KCTab as the result of a key
   exchange of the IDs; `add_tunnel_to_pubkey` (`tunserver.cpp:758`) passes our IDC (X25519) and the
   other's IDI (Ed25519), which have no system in common, so `calculate_KCT` combines nothing.
   `KeysAgree` and `NonceOnce` are about IDs that do share a system.

Further behaviour the models make visible: queries are always sent at full
TTL (`FullTtl`), so only the search records end a flood (`FloodOnce`); a query
for a peer that has not greeted yet is dropped and never repeated, hence the
premise of `TwoHopDelivery`; a stored route is never replaced, although
`tunserver.hpp:157` speaks of picking the better one. This last point is what
keeps the routes loop-free: the mutant in which new information wins violates `LoopFree`.
In the other parts: a "hi" whose key allows no agreement leaves a peer with a pubkey and without a tunnel
(`tunserver.cpp:1652-1661`); the notice of the RPC destructor replaces the buffer of a pending answer, and a write
that sends a
part of an answer is followed by the next one all the same (`rpc.cpp:193`, `259`); a spurious wake-up of
`c_turbosocket` lets a message
be overwritten or read twice; a packetstart that
Alice makes again after the first was lost is never accepted, since Bob starts to count at
zero; a multikeys object whose load threw keeps its old hash; the Windows registry wrapper
leaves a key open when its value is that of the last one; asio loses a datagram when a frame is read first, and Linux
takes a failed receive for a datagram; the writer refuses the greatest value of each width, although the header
supports "at most
(2^(8*S)-1) characters" (`trivialserialize.hpp:99` against `273-276`; no run is violated for it, `RoundTrip` states the
value as the one exception to the header); a last group of at most one character in a peer reference is passed over. The
properties state these exceptions in their comments.

## 4. Proofs

For all values of the constants that satisfy the `ASSUME`s of the modules:

* `PeerTableProofs`: `TypeCorrect`, `KeyedPeers`, `NoBannedAdmitted`, `PubkeyKept`,
  `MainKeepsReferences`. The inductive invariant `IInv` adds to `TypeOK` and
  `KeyedPeerHasTunnel` that a next level of recursion is only taken below the limit
  (`RecurseBound`, without which the type of `main` is not preserved), that a hip with a tunnel is not `Unagreeable`
  (`TunnelsAgreed`), and
  that no reference is held between packets (`NothingHeld`, without which
  the time-out could erase a held object).
* `RouteForestProofs`: `ForestLoopFree`. Given a set of nodes without the goal, the node that learned
  last points outside of what was there before it; the invariant is `LoopFree`
  with `Grounded` (a next hop is the goal or has a next hop).
* `RoutingProofs`: `TypeCorrect`, `RoutesHaveTunnels`, `NobodyAskedForHimself`,
  `SemicolonDirect`, `RefinesForest`, and from it and `ForestLoopFree` the
  theorem `RoutesLoopFree`. The invariant is about packets: a reply in
  flight, however old, speaks of a route that its sender still has (routes are never
  dropped); a query never goes to its goal or comes from it. Then a node that takes the sender of a reply as
  next hop makes a `Learn` step.
  `FloodsOnce` needs no invariant: each query that a step adds comes from a search that did not
  exist (`NewQueries`). The same lemma gives `QueriesAtFullTtl`, for `SearchTtl >=
  TtlMaxAccepted` (both are 5 in the code): a neighbour's query of TTL 5 asks for 4, and a search starts at 5 anyway.
  `ForwardingLosesTtl` is proved for `Duplicates`, where the packets that were ever sent stay visible.
* `CodecsProofs`: `EintExactness`, `SerialExact`, `FramesExact`, `ReferencesExact`, the four parts of `CodecsAreExact`, with
  the types of the modules.
  For built-in types of any width the functions of `eint` give the exact result or throw, and throw only when the type
  cannot hold it: the overflow tests are equivalent to "not in the range of the type" (`ExactSums`), and a conversion of a
  value in the range keeps it (`CastKeeps`). For the serialization, the digits of a number below a power of the base sum up
  to it, and the first octet tells which of the four widths follows; an item is read back from wherever it stands in the
  string, or throws when the string ends before it; a push is refused exactly when a field of it does not take its number
  (`Refusals`, from the widths of the four forms and the lengths of the parts); the invariant says that the parser
  stands where the items
  that it has not read begin. For the frames, the parts of a packet are found where the lengths of the parts before
  them say; folding the carries keeps a sum modulo 65535, so that the complement makes it all ones. For the references, the
  groups are read from the last to the first: `GroupsGiven` says of every position what the splitter returns from there,
  and a text is well formed exactly if its first part is fine and the rest is fine from the first group on (`WellFormedIs`).
  Where the model folds a sequence or fills a table by a recursive function, an induction over the numbers of the steps that
  hold is needed. It is stated of sets of naturals (`LeastNatural`, `AllFromZero`), which need no operator as a
  parameter; `FoldExists` and `StepsExist` show that the recursive definitions are functions at all.
* `RpcServerProofs`: `OneOperation`, `AnswersStayInOrder`. The invariant is about the time before the destructor takes
  the lock: a session that is in the list and not about to be erased waits for exactly one operation, one that is
  gone waits for none (`OpsInv`); and what is left on a session's stream, what was read of the message in work,
  the answers written and the one in the buffer are consecutive places of what its client sent (`StreamInv`). The
  second part needs the first: an operation that completes is the only one that can touch the buffer. What arrives of an
  answer is left open, so the theorem is about the writes.
* `GuiClientProofs`: `OneRowAlways`, `SelectionAlwaysHolds`, `AppliedAtMostOnce`, and with `RpcInvariant` the types of both
  ends (`RpcGuiTypes`). A row is found by its vip, so one row per peer follows from the list alone; that a selection
  stays on its
  row while a box is open does not: it needs that no reply removes a row, which holds because a request to delete
  carries no id on any queue, stream or reader (`DeletesHaveNoId`), so that its answer finds no order. For `AppliedOnce` the
  invariant follows every request and reply wherever it is: connections belong to one executor (`OwnConns`),
  requests have numbers of their own (`OwnNumbers`), the first id under a name is that of `get_status`, whose
  order stays, so that a name that comes back is noticed as a clash (`IdsOK`), and until then a reply that was
  applied has no order any more (`AppliedOK`). `RepliesInSequence` states `NoReplySkipped`: the invariant `RepliesInv`
  follows each connection of an executor from the last reply that was executed, through those in the reader, to the units on
  the way: they are consecutive, so that the next one to execute is never past one that was not.
* `TransportsProofs`: `TurboArrivesInOrder`, `CardsServed`, `ElementsMatchOnUse` and from them `SharedObjects`;
  `StrandGuards`, `WeldsStayExclusive`; `BenchmarkSound`, `MeasuresAreExact` and from them `ToolsMeasure`;
  `TransportsTypes`. For the turbosocket the invariant says who has the message at each place of the
  writer and the reader, and by how much the messages lost and repeated so far can have moved the next one, given
  the waits that ended by themselves; two sides that wait would need `message_in` both true and false; for the welds,
  that a reserved one is held at one of four places (a worker reads into it, its send
  is queued at a strand, a thread has begun it, asio has it) and at one only, that a free one has room, and that every
  packet read is in one place. The exclusion follows from the reservation under the mutex and not from the strand,
  which guards the socket.
  In the benchmark the countdown is the cardinality of the workers that are not ready, so the flag is set when there is none.
  A count is in the share of a thread or in the timer: the invariant `CountInv` says so with a function from sets of
  threads to their
  sums, and `SumIsFold` shows the fold of the community modules to be that function. A table has a sorted order
  (`OrderExists`, by a smallest set of indices without one), so that `sort` is what `std::sort` gives, and half of the places
  are on either side of the median (`PlacesBound`). The constants are finite and nonnegative (`ToolConstants`,
  `BenchConstants`).
* `NodeProofs`: `LoopUnprivileged`, `IdentityStays` (what is in the key files is what the process has, and a file that once
  had an identity is written only when the user asked for it), `SignaturesSound` (key lists are lists, and the cached hash
  is none or that of the keys), `NoncesOnce`, `KeysMatch` and `DevicesWhole`. For the tunnels the invariant lists, for
  each place
  of Alice and Bob, the key and the parity of each stream, what a packetstart in flight carries, and
  that everything encrypted has a nonce of one side's parity below its counter. For the devices: the open registry keys are
  the one in the wrapper, the one just opened and those that `set()` passed over; of the packets taken off a queue
  those given to the loop are older than the one that can be read, which is older than the one with which the
  pending read has completed; a datagram that was read in the same round as a frame may be
  overwritten by the next one (`Waiting` counts it, and the frame accounts for it); a window shows the history up to
  the unit to which it was moved, which lags behind
  `m_last` by what is still to be pushed. `NodeTypes` is `TypeOK` of `MCNode`, from the types of each part: bounds that
  the code keeps by its control (the starts, keys, packets, sessions and texts of a counter) are proved with the
  place that guards them. `CodecsExact` carries `CodecsProofs` over.

A behaviour of an `MC` module is one of each of its parts (`PartsOfNode` and its like), so the theorems are about the
specifications that TLC checks.

Only model-checked are the liveness properties (`SilentPeerRemoved`, `ExitEndsLoop`, `TwoHopDelivery`, `DestructionEnds`,
`ThreadsEnd`), which need fairness and ENABLED.

## 5. Plan

Done: 1. `PeerTable` and its proofs; 2. `Routing`, `RouteForest` and their proofs; 3. `RpcServer` and
`GuiClient`; 4. the parts of a node below its routing (`MCNode`); 5. cables and tools
(`MCTransports`); 6. `EintExactness`, and the proofs about the TTLs and floods of `Routing`; 7. the proofs about
`RpcServer` and `GuiClient`; 8. the proofs about welds, cables, tunnels, keys, the start and the devices;
9. `NoReplySkipped` for any number of connections and executors; 10. the proofs about the benchmark and the
measuring tools, and the types of `MCTransports`; 11. the types of the parts of `MCNode`, and the round trips of the
formats.

Next:

12. The answers of nodes that lack a tunnel (`tunserver.cpp:1547`), with the number of packets.

## 6. Not modelled

* Cryptographic primitives: the wrappers of NTRU and SIDH, sodium, locked strings.
* `c_json_load`, `c_json_genconf`: nothing in the program calls them. Code under
  `EXTLEVEL_IS_PREVIEW` is not built.
* The main loop of the newloop, which is `#if 0` for the most part, and the UDP cable, which passes calls on
  to asio. Selectors of cables: their comparison and texts.
* `xint.hpp`, whose number classes are those of boost, and `tab`, an array with a checked index.
* Translations, texts, logging, counters; in the GUI the address book, QR codes, the start of a node process
  and layout.
* Data races on plain variables (`is_exiting`) beyond atomic reads and writes. Spurious wake-ups are modelled where they
  matter, in `c_turbosocket`; all other waits repeat their test (they have a predicate).
* The contents of the read-only RPC answers.
