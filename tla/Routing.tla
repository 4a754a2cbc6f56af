------------------------------- MODULE Routing ------------------------------
(***************************************************************************)
(* Finding routes and forwarding data between the nodes of the mesh:       *)
(* c_routing_manager and the packet handlers of c_tunserver::event_loop(). *)
(*                                                                         *)
(* A node handles one packet at a time, so a handler is one action. UDP    *)
(* packets are in flight in the sets hi, query, reply, data: they may come *)
(* late, out of order or not at all, and with Duplicates also repeatedly.  *)
(*                                                                         *)
(* Every node has a physical address of its own, so a known sender address *)
(* names the sending node. A pubkey is known to belong to its hip, and     *)
(* decryption succeeds on what the tunnel of the other end encrypted.      *)
(***************************************************************************)
EXTENDS Integers

CONSTANTS
  Node,            \* the nodes, named by their hip
  Reference,       \* Reference[n]: the peers of n given on the command line
  Flow,            \* the pairs <<n, d>> such that programs of n send to d
  SemicolonHip,    \* the hips with the byte ';' at one of the positions 2..15
  TtlMaxAccepted,  \* c_protocol::ttl_max_accepted
  DataTtl,         \* data_route_ttl of our own packets
  SearchTtl,       \* the initial m_ttl_should_use of a search
  Duplicates,      \* whether a packet may be received more than once
  MaxDeletes,      \* bound: how many peers are deleted or time out
  NoRoute, NoSearch, Myself

ASSUME RoutingAssumption ==
  /\ Reference \in [Node -> SUBSET Node]
  /\ \A n \in Node : n \notin Reference[n]
  /\ Flow \subseteq Node \X Node
  /\ \A n \in Node : <<n, n>> \notin Flow
  /\ SemicolonHip \subseteq Node
  /\ TtlMaxAccepted \in Nat \ {0}
  /\ DataTtl \in Nat \ {0}
  /\ SearchTtl \in Nat \ {0}
  /\ Duplicates \in BOOLEAN
  /\ MaxDeletes \in Nat

\* c_route_info, c_route_reason, c_route_search
Route  == [nexthop : Node, cost : Nat]
Reason == [addr : Node \cup {Myself}, mode : {"own_packet", "other_packet", "help_find"}]
Search == [request : SUBSET Reason, ttl_should_use : Nat, ttl_used : Nat]

ASSUME NoRouteAssumption  == NoRoute \notin Route
ASSUME NoSearchAssumption == NoSearch \notin Search
ASSUME MyselfAssumption   == Myself \notin Node

VARIABLES
  m_peer,           \* m_peer[n]: the peers of n
  pubkey,           \* pubkey[n]: the peers of n whose pubkey it has
  m_tunnel,         \* m_tunnel[n]: the nodes to which n has an end2end tunnel
  m_search,         \* m_search[n][g]: the search of n for g, or NoSearch
  m_route_nexthop,  \* m_route_nexthop[n][g]: the route of n to g, or NoRoute
  delivered,        \* the pairs <<s, d>> such that data of s got to the TUN of d
  hi, query, reply, data,   \* the packets in flight, by command
  deletes           \* how many peers were removed so far

tables  == <<m_peer, pubkey, deletes>>
packets == <<hi, query, reply, data>>
vars == <<tables, m_tunnel, m_search, m_route_nexthop, delivered, packets>>

HiPacket    == [src : Node, dst : Node]
QueryPacket == [src : Node, dst : Node, goal : Node, ttl : Nat]
ReplyPacket == [src : Node, dst : Node, goal : Node, cost : Nat, ttl : Nat]
DataPacket  == [src : Node, dst : Node, src_hip : Node, dst_hip : Node, ttl : Nat,
                boxed : BOOLEAN]

TypeOK ==
  /\ m_peer \in [Node -> SUBSET Node]
  /\ pubkey \in [Node -> SUBSET Node]
  /\ \A n \in Node : pubkey[n] \subseteq m_peer[n]
  /\ m_tunnel \in [Node -> SUBSET Node]
  /\ m_search \in [Node -> [Node -> Search \cup {NoSearch}]]
  /\ m_route_nexthop \in [Node -> [Node -> Route \cup {NoRoute}]]
  /\ delivered \in SUBSET (Node \X Node)
  /\ hi \in SUBSET HiPacket
  /\ query \in SUBSET QueryPacket
  /\ reply \in SUBSET ReplyPacket
  /\ data \in SUBSET DataPacket
  /\ deletes \in 0..MaxDeletes

Init ==
  /\ m_peer = Reference
  /\ pubkey = [n \in Node |-> {}]
  /\ m_tunnel = [n \in Node |-> {}]
  /\ m_search = [n \in Node |-> [g \in Node |-> NoSearch]]
  /\ m_route_nexthop = [n \in Node |-> [g \in Node |-> NoRoute]]
  /\ delivered = {}
  /\ hi = {} /\ query = {} /\ reply = {} /\ data = {}
  /\ deletes = 0

\* What is in flight after the packet m was received.
Received(inflight, m) == IF Duplicates THEN inflight ELSE inflight \ {m}

Larger(a, b) == IF a >= b THEN a ELSE b
-----------------------------------------------------------------------------
(* c_routing_manager *)

HasRoute(n, g) == m_route_nexthop[n][g] # NoRoute

\* Mutant: the search starts without a TTL of its own, at what it is asked for.
c_route_search_no_ttl == [request |-> {}, ttl_should_use |-> 0, ttl_used |-> 0]

\* c_route_search::c_route_search: the TTL argument is not used.
c_route_search == [request |-> {}, ttl_should_use |-> SearchTtl, ttl_used |-> 0]

\* c_route_search::add_request
add_request(search, reason, ttl) ==
  [search EXCEPT !.request = @ \cup {reason},
                 !.ttl_should_use = Larger(@, ttl)]

\* c_route_search::execute: a query to every peer at ttl_should_use.
execute(n, g, search, queries) ==
  /\ query' = queries \cup
       {[src |-> n, dst |-> p, goal |-> g, ttl |-> search.ttl_should_use] : p \in m_peer[n]}
  /\ m_search' = [m_search EXCEPT ![n][g] =
                    [search EXCEPT !.ttl_used = search.ttl_should_use]]

\* Mutant: an updated search is executed again (created_now is not looked at).
search_route_always(n, g, reason, ttl, queries) ==
  execute(n, g, add_request(IF m_search[n][g] = NoSearch THEN c_route_search
                                                         ELSE m_search[n][g],
                            reason, ttl), queries)

\* The part of get_route_or_maybe_search() for a goal without a route: a new
\* search is executed at once, an existing one only gets one more request.
\* queries are the queries in flight besides the new ones.
search_route(n, g, reason, ttl, queries) ==
  IF m_search[n][g] = NoSearch
    THEN execute(n, g, add_request(c_route_search, reason, ttl), queries)
    ELSE /\ m_search' = [m_search EXCEPT ![n][g] = add_request(@, reason, ttl)]
         /\ query' = queries

\* Mutant: the latest information wins.
add_route_info_overwrites(n, g, info) ==
  m_route_nexthop' = [m_route_nexthop EXCEPT ![n][g] = info]

\* add_route_info_and_return: what is stored already stays.
add_route_info(n, g, info) ==
  m_route_nexthop' = IF HasRoute(n, g) THEN m_route_nexthop
                       ELSE [m_route_nexthop EXCEPT ![n][g] = info]
-----------------------------------------------------------------------------
(* route_tun_data_to_its_destination_top / _detail *)

NextHop(n, g) == m_route_nexthop[n][g].nexthop

\* The addresses tried for dst, by recurse_level: dst, its next hop, and the
\* next hop of that; each only if the ones before are not peers.
Tried(n, dst) ==
  LET one == m_peer[n] # {} /\ dst \notin m_peer[n] /\ HasRoute(n, dst)
      via == NextHop(n, dst)
      two == one /\ via \notin m_peer[n] /\ HasRoute(n, via)
  IN  {dst} \cup (IF one THEN {via} ELSE {}) \cup (IF two THEN {NextHop(n, via)} ELSE {})

\* The peer to send to: the first tried address that is a peer.
SendTo(n, dst) == Tried(n, dst) \cap m_peer[n]

\* Mutant: an address is searched for although it is a peer, as long as it has
\* no route.
SearchFor_peer(n, dst) ==
  IF m_peer[n] # {} /\ ~HasRoute(n, dst) THEN {dst} ELSE {}

\* The address to search for: one that is tried on level 0 or 1, and that is
\* neither a peer nor has a route.
SearchFor(n, dst) ==
  LET lacks(h) == m_peer[n] # {} /\ h \notin m_peer[n] /\ ~HasRoute(n, h)
  IN  IF lacks(dst) THEN {dst}
      ELSE IF m_peer[n] # {} /\ dst \notin m_peer[n] /\ lacks(NextHop(n, dst))
        THEN {NextHop(n, dst)} ELSE {}

\* datas: the data in flight besides what is sent here.
route_tun_data_to_its_destination(n, src_hip, dst_hip, reason, ttl, boxed, datas) ==
  \/ /\ ttl > 0
     /\ \E p \in SendTo(n, dst_hip) :
          data' = datas \cup {[src |-> n, dst |-> p, src_hip |-> src_hip,
                               dst_hip |-> dst_hip, ttl |-> ttl, boxed |-> boxed]}
     /\ UNCHANGED <<m_search, query>>
  \/ /\ ttl > 0
     /\ \E h \in SearchFor(n, dst_hip) : search_route(n, h, reason, TtlMaxAccepted, query)
     /\ data' = datas
  \/ /\ ~(ttl > 0) \/ (SendTo(n, dst_hip) = {} /\ SearchFor(n, dst_hip) = {})
     /\ data' = datas
     /\ UNCHANGED <<m_search, query>>

own_packet == [addr |-> Myself, mode |-> "own_packet"]
-----------------------------------------------------------------------------
(* The event loop of node n *)

\* peering_ping_all_peers: say "hi" to all peers.
PingAll(n) ==
  /\ hi' = hi \cup {[src |-> n, dst |-> p] : p \in m_peer[n]}
  /\ UNCHANGED <<tables, m_tunnel, m_search, m_route_nexthop, delivered, query,
                 reply, data>>

\* Mutant: the key outlives its peer.
DeletePeer_keeps_key(n, p) ==
  /\ p \in m_peer[n] /\ deletes < MaxDeletes
  /\ m_peer' = [m_peer EXCEPT ![n] = @ \ {p}]
  /\ deletes' = deletes + 1
  /\ UNCHANGED <<pubkey, m_tunnel, m_search, m_route_nexthop, delivered, packets>>

\* A peer is removed: RPC "delete_peer", or it timed out.
DeletePeer(n, p) ==
  /\ p \in m_peer[n] /\ deletes < MaxDeletes
  /\ m_peer' = [m_peer EXCEPT ![n] = @ \ {p}]
  /\ pubkey' = [pubkey EXCEPT ![n] = @ \ {p}]
  /\ deletes' = deletes + 1
  /\ UNCHANGED <<m_tunnel, m_search, m_route_nexthop, delivered, packets>>

\* e_proto_cmd_public_hi: add_peer_append_pubkey and add_tunnel_to_pubkey. The
\* nodes here hold keys that this program made, so their key agreement does not
\* throw (PeerTable has the other senders).
RecvHi(m) ==
  /\ m_peer' = [m_peer EXCEPT ![m.dst] = @ \cup {m.src}]
  /\ pubkey' = [pubkey EXCEPT ![m.dst] = @ \cup {m.src}]
  /\ m_tunnel' = [m_tunnel EXCEPT ![m.dst] = @ \cup {m.src}]
  /\ hi' = Received(hi, m)
  /\ UNCHANGED <<deletes, m_search, m_route_nexthop, delivered, query, reply, data>>

\* A packet of a program of node n for node dst is read from TUN; without a
\* tunnel an empty blob is routed, "just to trigger a search".
TunPacket(n, dst) ==
  /\ route_tun_data_to_its_destination(n, n, dst, own_packet, DataTtl,
                                       dst \in m_tunnel[n], data)
  /\ UNCHANGED <<tables, m_tunnel, m_route_nexthop, delivered, hi, reply>>

\* find_peer_by_sender_peering_addr throws unless the sender is a peer.
FromPeer(m) == m.src \in m_peer[m.dst]

\* e_proto_cmd_tunneled_data for us, without a tunnel to its source: an empty
\* blob goes back at the TTL that came in.
RecvDataNoTunnel(m) ==
  /\ FromPeer(m) /\ m.dst_hip = m.dst /\ m.src_hip \notin m_tunnel[m.dst]
  /\ route_tun_data_to_its_destination(m.dst, m.dst, m.src_hip, own_packet, m.ttl,
                                       FALSE, Received(data, m))
  /\ UNCHANGED <<tables, m_tunnel, m_route_nexthop, delivered, hi, reply>>

\* ... with a tunnel: decrypted and written to TUN.
RecvDataMine(m) ==
  /\ FromPeer(m) /\ m.dst_hip = m.dst /\ m.src_hip \in m_tunnel[m.dst]
  /\ m.boxed
  /\ delivered' = delivered \cup {<<m.src_hip, m.dst>>}
  /\ data' = Received(data, m)
  /\ UNCHANGED <<tables, m_tunnel, m_search, m_route_nexthop, hi, query, reply>>

\* Mutant: the TTL is only limited.
ForwardTtl_kept(ttl) == IF ttl > TtlMaxAccepted THEN TtlMaxAccepted ELSE ttl

\* The TTL at which a packet is passed on.
ForwardTtl(ttl) == IF ttl - 1 > TtlMaxAccepted THEN TtlMaxAccepted ELSE ttl - 1

\* ... for someone else: passed on.
RecvDataOther(m) ==
  /\ FromPeer(m) /\ m.dst_hip # m.dst
  /\ route_tun_data_to_its_destination(m.dst, m.src_hip, m.dst_hip,
       [addr |-> m.src_hip, mode |-> "other_packet"], ForwardTtl(m.ttl), m.boxed,
       Received(data, m))
  /\ UNCHANGED <<tables, m_tunnel, m_route_nexthop, delivered, hi, reply>>

\* ... from an unknown sender, or the empty blob, which fails to decrypt.
RecvDataRefused(m) ==
  /\ ~FromPeer(m) \/ (m.dst_hip = m.dst /\ m.src_hip \in m_tunnel[m.dst] /\ ~m.boxed)
  /\ data' = Received(data, m)
  /\ UNCHANGED <<tables, m_tunnel, m_search, m_route_nexthop, delivered, hi, query,
                 reply>>

\* Mutant: the format of the hip field is no problem.
QueryAccepted_any_hip(m) == FromPeer(m) /\ m.ttl >= 1

\* e_proto_cmd_findhip_query arrives in the right format: the search for ';'
\* that ends the hip finds one inside of it for the hips of SemicolonHip.
QueryAccepted(m) == FromPeer(m) /\ m.goal \notin SemicolonHip /\ m.ttl >= 1

\* The reply, sent with the route that is stored after this step.
SendReply(m) ==
  reply' = reply \cup {[src |-> m.dst, dst |-> m.src, goal |-> m.goal,
                        cost |-> m_route_nexthop'[m.dst][m.goal].cost, ttl |-> m.ttl]}

\* The goal is a peer whose pubkey we have.
RecvQueryDirect(m) ==
  /\ QueryAccepted(m) /\ m.goal \in m_peer[m.dst] /\ m.goal \in pubkey[m.dst]
  /\ add_route_info(m.dst, m.goal, [nexthop |-> m.goal, cost |-> 1])
  /\ SendReply(m)
  /\ query' = Received(query, m)
  /\ UNCHANGED <<tables, m_tunnel, m_search, delivered, hi, data>>

\* The goal is no peer, a route is known.
RecvQueryKnown(m) ==
  /\ QueryAccepted(m) /\ m.goal \notin m_peer[m.dst] /\ HasRoute(m.dst, m.goal)
  /\ UNCHANGED m_route_nexthop
  /\ SendReply(m)
  /\ query' = Received(query, m)
  /\ UNCHANGED <<tables, m_tunnel, m_search, delivered, hi, data>>

\* No route: search on behalf of the sender.
RecvQuerySearch(m) ==
  /\ QueryAccepted(m) /\ m.goal \notin m_peer[m.dst] /\ ~HasRoute(m.dst, m.goal)
  /\ search_route(m.dst, m.goal, [addr |-> m.src, mode |-> "help_find"], m.ttl - 1,
                  Received(query, m))
  /\ UNCHANGED <<tables, m_tunnel, m_route_nexthop, delivered, hi, reply, data>>

\* A query that is not accepted, or for a peer whose pubkey is not known yet: an
\* exception ends the handler, and nothing is searched for.
RecvQueryRefused(m) ==
  /\ ~QueryAccepted(m) \/ (m.goal \in m_peer[m.dst] /\ m.goal \notin pubkey[m.dst])
  /\ query' = Received(query, m)
  /\ UNCHANGED <<tables, m_tunnel, m_search, m_route_nexthop, delivered, hi, reply,
                 data>>

\* Mutant: the pubkey in the reply is not used.
RecvReply_no_tunnel(m) ==
  /\ FromPeer(m) /\ m.ttl >= 1
  /\ UNCHANGED m_tunnel
  /\ add_route_info(m.dst, m.goal, [nexthop |-> m.src, cost |-> m.cost])
  /\ reply' = Received(reply, m)
  /\ UNCHANGED <<tables, m_search, delivered, hi, query, data>>

\* e_proto_cmd_findhip_reply: the pubkey makes a tunnel, the sender becomes the
\* next hop. Those who asked us are not told.
RecvReply(m) ==
  /\ FromPeer(m) /\ m.ttl >= 1
  /\ m_tunnel' = [m_tunnel EXCEPT ![m.dst] = @ \cup {m.goal}]
  /\ add_route_info(m.dst, m.goal, [nexthop |-> m.src, cost |-> m.cost])
  /\ reply' = Received(reply, m)
  /\ UNCHANGED <<tables, m_search, delivered, hi, query, data>>

\* The sender was deleted since we asked.
RecvReplyRefused(m) ==
  /\ ~FromPeer(m) \/ m.ttl < 1
  /\ reply' = Received(reply, m)
  /\ UNCHANGED <<tables, m_tunnel, m_search, m_route_nexthop, delivered, hi, query,
                 data>>

RecvData(m) ==
  RecvDataNoTunnel(m) \/ RecvDataMine(m) \/ RecvDataOther(m) \/ RecvDataRefused(m)
RecvQuery(m) ==
  RecvQueryDirect(m) \/ RecvQueryKnown(m) \/ RecvQuerySearch(m) \/ RecvQueryRefused(m)

\* Node n receives a packet that was sent by node p.
Receive(n, p) ==
  \/ \E m \in hi : m.dst = n /\ m.src = p /\ RecvHi(m)
  \/ \E m \in data : m.dst = n /\ m.src = p /\ RecvData(m)
  \/ \E m \in query : m.dst = n /\ m.src = p /\ RecvQuery(m)
  \/ \E m \in reply : m.dst = n /\ m.src = p /\ (RecvReply(m) \/ RecvReplyRefused(m))

Next ==
  \/ \E n, p \in Node : Receive(n, p)
  \/ \E n \in Node : PingAll(n)
  \/ \E f \in Flow : TunPacket(f[1], f[2])
  \/ \E n, p \in Node : DeletePeer(n, p)

Spec == Init /\ [][Next]_vars

\* For the runs about delivery: nodes keep saying "hi", programs keep sending,
\* and what is sent arrives.
Fairness ==
  /\ \A n \in Node : WF_vars(PingAll(n))
  /\ \A f \in Flow : WF_vars(TunPacket(f[1], f[2]))
  /\ \A n, p \in Node :
       /\ WF_vars(\E m \in hi : m.dst = n /\ m.src = p /\ RecvHi(m))
       /\ WF_vars(\E m \in data : m.dst = n /\ m.src = p /\ RecvData(m))
       /\ WF_vars(\E m \in query : m.dst = n /\ m.src = p /\ RecvQuery(m))
       /\ WF_vars(\E m \in reply : m.dst = n /\ m.src = p /\
                                   (RecvReply(m) \/ RecvReplyRefused(m)))

FairSpec == Spec /\ Fairness
-----------------------------------------------------------------------------
(* Properties *)

\* The routing tables of all nodes as a growing forest of next hops.
NextHops ==
  [n \in Node |-> [g \in Node |-> IF HasRoute(n, g) THEN {NextHop(n, g)} ELSE {}]]

Forest == INSTANCE RouteForest WITH hop <- NextHops

\* The nodes, which only ever see late and repeated packets of each other,
\* build the forest of RouteForest together.
BuildsForest == Forest!Spec

\* No packet that follows stored next hops can run in a circle, although nodes
\* keep what they learned for ever and peers come and go.
LoopFree == Forest!LoopFree

\* Whoever has a route can encrypt for its goal: a route is stored only with
\* the goal's pubkey, and a tunnel is never dropped.
RouteHasTunnel ==
  \A n, g \in Node : HasRoute(n, g) => g \in m_tunnel[n]

\* Nobody is asked for the way to himself, and nobody asks for his own address:
\* a search is for an address that none of the asked peers has.
NoSelfQuery == \A q \in query : q.goal # q.dst /\ q.goal # q.src

\* A search is flooded once per node and goal; further requests, however many
\* neighbours repeat them, are only noted. Since queries always start at full
\* TTL (FullTtl), this alone ends a flood.
FloodOnce ==
  [][\A n, g \in Node :
       (\E q \in query' \ query : q.src = n /\ q.goal = g) => m_search[n][g] = NoSearch]_vars

\* The TTL of queries does not shrink from hop to hop: every node asks at the
\* highest TTL again.
FullTtl == \A q \in query : q.ttl = Larger(SearchTtl, TtlMaxAccepted)

\* The address of a goal with the byte ';' breaks the query for it, so such a
\* node is only ever reached directly.
SemicolonOnlyDirect ==
  \A n \in Node, g \in SemicolonHip : HasRoute(n, g) => NextHop(n, g) = g

\* Data that a node passes on came in at a higher TTL: no packet travels more
\* than DataTtl hops, even where a stale route sends it back.
ForwardLosesTtl ==
  \A d \in data :
    d.src # d.src_hip =>
      \E e \in data : /\ e.dst = d.src /\ e.ttl > d.ttl
                      /\ e.src_hip = d.src_hip /\ e.dst_hip = d.dst_hip

\* Each of a, b has greeted the other.
Introduced(a, b) == a \in pubkey[b] /\ b \in pubkey[a]

\* When all nodes on the path s - r - d have greeted each other before anybody
\* started a search, data that s keeps sending to d gets through.
TwoHopDelivery ==
  \A f \in Flow, r \in Node :
    ( /\ r # f[1] /\ r # f[2]
      /\ Introduced(f[1], r) /\ Introduced(r, f[2])
      /\ \A n, g \in Node : m_search[n][g] = NoSearch )
    ~> f \in delivered

\* "add info that this guy also wants to be informed about the path": the
\* source of a flow that is noted as asking for its goal gets a route once the
\* node that noted it has one.
RequesterInformed ==
  \A f \in Flow, n \in Node :
    ( /\ m_search[n][f[2]] # NoSearch /\ HasRoute(n, f[2])
      /\ [addr |-> f[1], mode |-> "help_find"] \in m_search[n][f[2]].request )
    ~> HasRoute(f[1], f[2])
=============================================================================
