---------------------------- MODULE RoutingProofs ---------------------------
(***************************************************************************)
(* Proofs about Routing, for any nodes, peers, flows and TTLs, and with    *)
(* packets that are lost, delayed and duplicated at will.                  *)
(*                                                                         *)
(* What a node learns depends on what packets in flight say, so the        *)
(* inductive invariant is mostly about packets (PacketsOK): a reply, as    *)
(* late as it may come, tells of a route that its sender still has.        *)
(***************************************************************************)
EXTENDS Routing, TLAPS

\* No node is its own peer or next hop; who is known by pubkey has a tunnel.
TablesOK ==
  \A n \in Node :
    /\ n \notin m_peer[n]
    /\ pubkey[n] \subseteq m_tunnel[n]
    /\ \A g \in Node : HasRoute(n, g) => NextHop(n, g) # n

\* What the packets in flight say.
QueriesOK == \A m \in query : m.src # m.dst /\ m.goal # m.dst /\ m.goal # m.src
RepliesOK ==
  \A m \in reply : /\ m.src # m.dst /\ m.goal # m.dst
                   /\ HasRoute(m.src, m.goal)
                   /\ m.goal \notin SemicolonHip
OthersOK ==
  /\ \A m \in hi : m.src # m.dst
  /\ \A m \in data : m.src_hip # m.dst_hip
PacketsOK == QueriesOK /\ RepliesOK /\ OthersOK

IInv == TypeOK /\ TablesOK /\ PacketsOK /\ RouteHasTunnel /\ SemicolonOnlyDirect

USE RoutingAssumption, NoRouteAssumption, NoSearchAssumption, MyselfAssumption

\* Nothing is known and nothing in flight at first.
LEMMA InitIInv == Init => IInv
<1> SUFFICES ASSUME Init PROVE IInv OBVIOUS
<1>1. TypeOK
  BY DEF Init, TypeOK
<1>2. \A n, g \in Node : ~HasRoute(n, g)
  BY DEF Init, HasRoute
<1>3. TablesOK /\ RouteHasTunnel /\ SemicolonOnlyDirect
  BY <1>2 DEF Init, TablesOK, RouteHasTunnel, SemicolonOnlyDirect
<1>4. PacketsOK
  BY DEF Init, PacketsOK, QueriesOK, RepliesOK, OthersOK
<1> QED BY <1>1, <1>3, <1>4 DEF IInv

-----------------------------------------------------------------------------
\* The operations of the routing manager.

\* A search, new or updated, is well typed, and the queries that it sends go to
\* peers about an address that is none of them.
LEMMA SearchRoute ==
  ASSUME IInv, NEW n \in Node, NEW g \in Node, g # n, g \notin m_peer[n],
         NEW reason \in Reason, NEW ttl \in Nat, NEW queries \in SUBSET query,
         search_route(n, g, reason, ttl, queries)
  PROVE  /\ m_search' \in [Node -> [Node -> Search \cup {NoSearch}]]
         /\ query' \in SUBSET QueryPacket
         /\ QueriesOK'
<1> DEFINE asked(search) == add_request(search, reason, ttl)
<1>1. ASSUME NEW search \in Search PROVE asked(search) \in Search
  <2>1. Larger(search.ttl_should_use, ttl) \in Nat
    BY DEF Larger, Search
  <2> QED BY <2>1 DEF add_request, Search
<1>2. c_route_search \in Search
  BY DEF c_route_search, Search
<1>3. CASE m_search[n][g] = NoSearch
  <2> DEFINE s == asked(c_route_search)
  <2>1. s \in Search
    BY <1>1, <1>2
  <2>2. execute(n, g, s, queries)
    BY <1>3 DEF search_route
  <2> HIDE DEF s
  <2>3. [s EXCEPT !.ttl_used = s.ttl_should_use] \in Search
    BY <2>1 DEF Search
  <2>4. m_search' \in [Node -> [Node -> Search \cup {NoSearch}]]
    BY <2>2, <2>3 DEF execute, IInv, TypeOK
  <2>5. ASSUME NEW q \in query' PROVE
          q \in query \/ (q \in QueryPacket /\ q.src = n /\ q.goal = g /\ q.dst \in m_peer[n])
    BY <2>1, <2>2, <2>5 DEF execute, QueryPacket, Search, IInv, TypeOK
  <2> QED BY <2>4, <2>5 DEF IInv, TypeOK, TablesOK, PacketsOK, QueriesOK
<1>4. CASE m_search[n][g] # NoSearch
  <2>1. m_search[n][g] \in Search
    BY <1>4 DEF IInv, TypeOK
  <2>2. m_search' = [m_search EXCEPT ![n][g] = asked(m_search[n][g])]
    BY <1>4 DEF search_route
  <2>3. asked(m_search[n][g]) \in Search
    BY <1>1, <2>1
  <2> HIDE DEF asked
  <2>4. m_search' \in [Node -> [Node -> Search \cup {NoSearch}]]
    BY <2>2, <2>3 DEF IInv, TypeOK
  <2>5. query' \in SUBSET query
    BY <1>4 DEF search_route
  <2> QED BY <2>4, <2>5 DEF IInv, TypeOK, PacketsOK, QueriesOK
<1> QED BY <1>3, <1>4

\* Routing a data packet.
LEMMA RouteData ==
  ASSUME IInv, NEW n \in Node, NEW src_hip \in Node, NEW dst_hip \in Node,
         dst_hip # n, src_hip # dst_hip, NEW reason \in Reason, NEW ttl \in Int,
         NEW boxed \in BOOLEAN, NEW datas \in SUBSET data,
         route_tun_data_to_its_destination(n, src_hip, dst_hip, reason, ttl, boxed, datas)
  PROVE  /\ m_search' \in [Node -> [Node -> Search \cup {NoSearch}]]
         /\ query' \in SUBSET QueryPacket
         /\ QueriesOK'
         /\ data' \in SUBSET DataPacket
         /\ \A m \in data' : m.src_hip # m.dst_hip
<1>1. datas \in SUBSET DataPacket /\ \A m \in datas : m.src_hip # m.dst_hip
  BY DEF IInv, TypeOK, PacketsOK, OthersOK
<1>2. CASE /\ ttl > 0
           /\ \E p \in SendTo(n, dst_hip) :
                data' = datas \cup {[src |-> n, dst |-> p, src_hip |-> src_hip,
                                     dst_hip |-> dst_hip, ttl |-> ttl, boxed |-> boxed]}
           /\ UNCHANGED <<m_search, query>>
  <2>1. PICK p \in SendTo(n, dst_hip) :
          data' = datas \cup {[src |-> n, dst |-> p, src_hip |-> src_hip,
                               dst_hip |-> dst_hip, ttl |-> ttl, boxed |-> boxed]}
    BY <1>2
  <2>2. p \in Node
    BY DEF SendTo, IInv, TypeOK
  <2>3. [src |-> n, dst |-> p, src_hip |-> src_hip, dst_hip |-> dst_hip,
         ttl |-> ttl, boxed |-> boxed] \in DataPacket
    BY <1>2, <2>2 DEF DataPacket
  <2>4. data' \in SUBSET DataPacket /\ \A m \in data' : m.src_hip # m.dst_hip
    BY <1>1, <2>1, <2>3
  <2> QED BY <1>2, <2>4 DEF IInv, TypeOK, PacketsOK, QueriesOK
<1>3. CASE /\ \E h \in SearchFor(n, dst_hip) :
                search_route(n, h, reason, TtlMaxAccepted, query)
           /\ data' = datas
  <2>1. PICK h \in SearchFor(n, dst_hip) :
          search_route(n, h, reason, TtlMaxAccepted, query)
    BY <1>3
  <2>2. h \in Node /\ h # n /\ h \notin m_peer[n]
    BY DEF SearchFor, NextHop, HasRoute, IInv, TypeOK, TablesOK, Route
  <2> QED BY <1>1, <1>3, <2>1, <2>2, SearchRoute
<1>4. CASE data' = datas /\ UNCHANGED <<m_search, query>>
  BY <1>1, <1>4 DEF IInv, TypeOK, PacketsOK, QueriesOK
<1> QED BY <1>2, <1>3, <1>4 DEF route_tun_data_to_its_destination

\* Storing a route adds at most the one for its goal.
LEMMA AddRoute ==
  ASSUME IInv, NEW n \in Node, NEW g \in Node, NEW info \in Route,
         add_route_info(n, g, info)
  PROVE  /\ m_route_nexthop' \in [Node -> [Node -> Route \cup {NoRoute}]]
         /\ \A k, x \in Node : HasRoute(k, x) =>
              m_route_nexthop'[k][x] = m_route_nexthop[k][x]
         /\ \A k, x \in Node : ~HasRoute(k, x) =>
              m_route_nexthop'[k][x] = IF k = n /\ x = g THEN info ELSE NoRoute
BY DEF add_route_info, HasRoute, IInv, TypeOK

\* A stored route leaves the tables, the tunnels and the replies consistent
\* when its next hop is another node, its goal has a tunnel, and only a
\* neighbour is the goal of a hip with ';'.
LEMMA StoredRoute ==
  ASSUME IInv, NEW n \in Node, NEW g \in Node, NEW info \in Route,
         add_route_info(n, g, info),
         info.nexthop # n, g \in m_tunnel'[n], g \in SemicolonHip => info.nexthop = g,
         m_peer' = m_peer, pubkey' = pubkey,
         \A k \in Node : m_tunnel[k] \subseteq m_tunnel'[k]
  PROVE  /\ TablesOK' /\ RouteHasTunnel' /\ SemicolonOnlyDirect'
         /\ \A k, x \in Node : HasRoute(k, x) => HasRoute(k, x)'
         /\ HasRoute(n, g)'
<1>1. \A k, x \in Node : HasRoute(k, x)' =>
        \/ HasRoute(k, x) /\ m_route_nexthop'[k][x] = m_route_nexthop[k][x]
        \/ k = n /\ x = g /\ m_route_nexthop'[k][x] = info
  BY AddRoute DEF HasRoute
<1>2. TablesOK' /\ RouteHasTunnel' /\ SemicolonOnlyDirect'
  BY <1>1 DEF TablesOK, RouteHasTunnel, SemicolonOnlyDirect, NextHop, IInv
<1>3. \A k, x \in Node : HasRoute(k, x) => HasRoute(k, x)'
  BY AddRoute DEF HasRoute
<1>4. HasRoute(n, g)'
  BY <1>3, AddRoute DEF HasRoute
<1> QED BY <1>2, <1>3, <1>4

\* Steps that store no route and move no peer.
LEMMA SameTables ==
  ASSUME IInv, UNCHANGED <<m_peer, pubkey, m_tunnel, m_route_nexthop>>
  PROVE  TablesOK' /\ RouteHasTunnel' /\ SemicolonOnlyDirect'
BY DEF IInv, TablesOK, RouteHasTunnel, SemicolonOnlyDirect, HasRoute, NextHop

\* A reply stays true when routes are kept.
LEMMA SameReplies ==
  ASSUME IInv, reply' \in SUBSET reply,
         \A k, x \in Node : HasRoute(k, x) => HasRoute(k, x)'
  PROVE  reply' \in SUBSET ReplyPacket /\ RepliesOK'
BY DEF IInv, TypeOK, PacketsOK, RepliesOK, ReplyPacket

\* The answer to a query.
LEMMA Replied ==
  ASSUME IInv, NEW m \in query, QueryAccepted(m), SendReply(m),
         m_route_nexthop' \in [Node -> [Node -> Route \cup {NoRoute}]],
         HasRoute(m.dst, m.goal)',
         \A k, x \in Node : HasRoute(k, x) => HasRoute(k, x)'
  PROVE  reply' \in SUBSET ReplyPacket /\ RepliesOK'
<1>1. m \in QueryPacket /\ m.src # m.dst /\ m.goal # m.src /\ m.goal \notin SemicolonHip
  BY DEF IInv, TypeOK, PacketsOK, QueriesOK, QueryAccepted
<1> DEFINE r == [src |-> m.dst, dst |-> m.src, goal |-> m.goal,
                 cost |-> m_route_nexthop'[m.dst][m.goal].cost, ttl |-> m.ttl]
<1>2. m_route_nexthop'[m.dst][m.goal] \in Route
  BY <1>1 DEF HasRoute, QueryPacket
<1>3. r \in ReplyPacket
  BY <1>1, <1>2 DEF ReplyPacket, QueryPacket, Route
<1>4. reply' = reply \cup {r}
  BY DEF SendReply
<1>5. /\ r.src = m.dst /\ r.dst = m.src /\ r.goal = m.goal
  OBVIOUS
<1> HIDE DEF r
<1>6. ASSUME NEW x \in reply'
      PROVE  /\ x.src # x.dst /\ x.goal # x.dst
             /\ HasRoute(x.src, x.goal)' /\ x.goal \notin SemicolonHip
  <2>1. CASE x \in reply
    BY <2>1 DEF IInv, TypeOK, PacketsOK, RepliesOK, ReplyPacket
  <2>2. CASE x = r
    BY <1>1, <1>5, <2>2
  <2> QED BY <1>4, <1>6, <2>1, <2>2
<1> QED BY <1>3, <1>4, <1>6 DEF RepliesOK, IInv, TypeOK

\* What is left in flight was in flight.
LEMMA ReceivedSubset ==
  ASSUME NEW inflight, NEW m
  PROVE  Received(inflight, m) \in SUBSET inflight
BY DEF Received

-----------------------------------------------------------------------------
\* Every step keeps IInv: one lemma step per action.
LEMMA NextIInv == IInv /\ [Next]_vars => IInv'
<1> SUFFICES ASSUME IInv, [Next]_vars PROVE IInv' OBVIOUS
<1> USE DEF tables, packets
<1>1. ASSUME NEW n \in Node, PingAll(n) PROVE IInv'
  <2>1. \A m \in hi' : m \in hi \/ (m \in HiPacket /\ m.src = n /\ m.dst \in m_peer[n])
    BY <1>1 DEF PingAll, HiPacket, IInv, TypeOK
  <2>2. hi' \in SUBSET HiPacket /\ \A m \in hi' : m.src # m.dst
    BY <2>1 DEF IInv, TypeOK, PacketsOK, OthersOK, TablesOK
  <2>3. TypeOK'
    BY <1>1, <2>2 DEF PingAll, IInv, TypeOK
  <2>4. PacketsOK'
    BY <1>1, <2>2 DEF PingAll, IInv, PacketsOK, QueriesOK, RepliesOK, OthersOK, HasRoute
  <2> QED BY <1>1, <2>3, <2>4, SameTables DEF PingAll, IInv
<1>2. ASSUME NEW n \in Node, NEW p \in Node, DeletePeer(n, p) PROVE IInv'
  <2>1. TypeOK'
    BY <1>2 DEF DeletePeer, IInv, TypeOK
  <2>2. PacketsOK'
    BY <1>2 DEF DeletePeer, IInv, PacketsOK, QueriesOK, RepliesOK, OthersOK, HasRoute
  <2>3. TablesOK' /\ RouteHasTunnel' /\ SemicolonOnlyDirect'
    BY <1>2 DEF DeletePeer, IInv, TypeOK, TablesOK, RouteHasTunnel,
       SemicolonOnlyDirect, HasRoute, NextHop
  <2> QED BY <2>1, <2>2, <2>3 DEF IInv
<1>3. ASSUME NEW m \in hi, RecvHi(m) PROVE IInv'
  <2>1. m.src \in Node /\ m.dst \in Node /\ m.src # m.dst
    BY DEF IInv, TypeOK, HiPacket, PacketsOK, OthersOK
  <2>2. hi' \in SUBSET hi
    BY <1>3, ReceivedSubset DEF RecvHi
  <2>3. TypeOK'
    BY <1>3, <2>1, <2>2 DEF RecvHi, IInv, TypeOK
  <2>4. PacketsOK'
    BY <1>3, <2>2 DEF RecvHi, IInv, PacketsOK, QueriesOK, RepliesOK, OthersOK, HasRoute
  <2>5. TablesOK' /\ RouteHasTunnel' /\ SemicolonOnlyDirect'
    BY <1>3, <2>1 DEF RecvHi, IInv, TypeOK, TablesOK, RouteHasTunnel,
       SemicolonOnlyDirect, HasRoute, NextHop
  <2> QED BY <2>3, <2>4, <2>5 DEF IInv
<1>d. ASSUME NEW n \in Node, NEW src_hip \in Node, NEW dst_hip \in Node,
             dst_hip # n, src_hip # dst_hip, NEW reason \in Reason, NEW ttl \in Int,
             NEW boxed \in BOOLEAN, NEW datas \in SUBSET data,
             route_tun_data_to_its_destination(n, src_hip, dst_hip, reason, ttl, boxed, datas),
             UNCHANGED <<tables, m_tunnel, m_route_nexthop, delivered, hi, reply>>
      PROVE  IInv'
  <2>1. /\ m_search' \in [Node -> [Node -> Search \cup {NoSearch}]]
        /\ query' \in SUBSET QueryPacket
        /\ QueriesOK'
        /\ data' \in SUBSET DataPacket
        /\ \A m \in data' : m.src_hip # m.dst_hip
    BY <1>d, RouteData
  <2>2. TypeOK'
    BY <1>d, <2>1 DEF IInv, TypeOK
  <2>3. PacketsOK'
    BY <1>d, <2>1 DEF IInv, PacketsOK, RepliesOK, OthersOK, HasRoute
  <2> QED BY <1>d, <2>2, <2>3, SameTables DEF IInv
<1>o. own_packet \in Reason
  BY DEF own_packet, Reason
<1>4. ASSUME NEW f \in Flow, TunPacket(f[1], f[2]) PROVE IInv'
  <2>1. f[1] \in Node /\ f[2] \in Node /\ f[2] # f[1] /\ DataTtl \in Int
    OBVIOUS
  <2> DEFINE boxed == f[2] \in m_tunnel[f[1]]
  <2>2. boxed \in BOOLEAN
    OBVIOUS
  <2>3. /\ route_tun_data_to_its_destination(f[1], f[1], f[2], own_packet, DataTtl,
                                             boxed, data)
        /\ UNCHANGED <<tables, m_tunnel, m_route_nexthop, delivered, hi, reply>>
    BY <1>4, Zenon DEF TunPacket
  <2> HIDE DEF boxed
  <2> QED BY <1>d, <1>o, <2>1, <2>2, <2>3
<1>5. ASSUME NEW m \in data, RecvData(m) PROVE IInv'
  <2>1. /\ m.dst \in Node /\ m.src_hip \in Node /\ m.dst_hip \in Node
        /\ m.ttl \in Int /\ ForwardTtl(m.ttl) \in Int /\ m.boxed \in BOOLEAN
        /\ m.src_hip # m.dst_hip
    BY DEF IInv, TypeOK, DataPacket, PacketsOK, OthersOK, ForwardTtl
  <2>2. Received(data, m) \in SUBSET data
    BY ReceivedSubset
  <2>3. CASE RecvDataNoTunnel(m)
    BY <1>d, <1>o, <2>1, <2>2, <2>3 DEF RecvDataNoTunnel
  <2>4. CASE RecvDataOther(m)
    <3>1. [addr |-> m.src_hip, mode |-> "other_packet"] \in Reason
      BY <2>1 DEF Reason
    <3> QED BY <1>d, <2>1, <2>2, <2>4, <3>1 DEF RecvDataOther
  <2>5. CASE RecvDataMine(m) \/ RecvDataRefused(m)
    <3>1. delivered' \in SUBSET (Node \X Node) /\ data' \in SUBSET data
      BY <2>1, <2>2, <2>5 DEF RecvDataMine, RecvDataRefused, IInv, TypeOK
    <3>2. TypeOK'
      BY <2>5, <3>1 DEF RecvDataMine, RecvDataRefused, IInv, TypeOK
    <3>3. PacketsOK'
      BY <2>5, <3>1 DEF RecvDataMine, RecvDataRefused, IInv, PacketsOK, QueriesOK,
         RepliesOK, OthersOK, HasRoute
    <3> QED BY <2>5, <3>2, <3>3, SameTables DEF RecvDataMine, RecvDataRefused, IInv
  <2> QED BY <1>5, <2>3, <2>4, <2>5 DEF RecvData
<1>6. ASSUME NEW m \in query, RecvQuery(m) PROVE IInv'
  <2>1. /\ m.src \in Node /\ m.dst \in Node /\ m.goal \in Node /\ m.ttl \in Nat
        /\ m.src # m.dst /\ m.goal # m.dst
    BY DEF IInv, TypeOK, QueryPacket, PacketsOK, QueriesOK
  <2>2. Received(query, m) \in SUBSET query
    BY ReceivedSubset
  <2>3. CASE RecvQueryDirect(m)
    <3> DEFINE info == [nexthop |-> m.goal, cost |-> 1]
    <3>1. info \in Route /\ info.nexthop = m.goal /\ add_route_info(m.dst, m.goal, info)
      BY <2>1, <2>3 DEF RecvQueryDirect, Route
    <3> HIDE DEF info
    <3>2. m.goal \in m_tunnel'[m.dst]
      BY <2>1, <2>3 DEF RecvQueryDirect, IInv, TablesOK
    <3>3. /\ TablesOK' /\ RouteHasTunnel' /\ SemicolonOnlyDirect'
          /\ \A k, x \in Node : HasRoute(k, x) => HasRoute(k, x)'
          /\ HasRoute(m.dst, m.goal)'
      BY <2>1, <2>3, <3>1, <3>2, StoredRoute DEF RecvQueryDirect
    <3>4. m_route_nexthop' \in [Node -> [Node -> Route \cup {NoRoute}]]
      BY <2>1, <3>1, AddRoute
    <3>5. reply' \in SUBSET ReplyPacket /\ RepliesOK'
      BY <2>3, <3>3, <3>4, Replied DEF RecvQueryDirect
    <3>6. TypeOK'
      BY <2>2, <2>3, <3>4, <3>5 DEF RecvQueryDirect, IInv, TypeOK
    <3>7. PacketsOK'
      BY <2>2, <2>3, <3>5 DEF RecvQueryDirect, IInv, PacketsOK, QueriesOK, OthersOK
    <3> QED BY <3>3, <3>6, <3>7 DEF IInv
  <2>4. CASE RecvQueryKnown(m)
    <3>1. \A k, x \in Node : HasRoute(k, x)' = HasRoute(k, x)
      BY <2>4 DEF RecvQueryKnown, HasRoute
    <3>2. m_route_nexthop' \in [Node -> [Node -> Route \cup {NoRoute}]]
      BY <2>4 DEF RecvQueryKnown, IInv, TypeOK
    <3>3. reply' \in SUBSET ReplyPacket /\ RepliesOK'
      BY <2>1, <2>4, <3>1, <3>2, Replied DEF RecvQueryKnown
    <3>4. TypeOK'
      BY <2>2, <2>4, <3>3 DEF RecvQueryKnown, IInv, TypeOK
    <3>5. PacketsOK'
      BY <2>2, <2>4, <3>3 DEF RecvQueryKnown, IInv, PacketsOK, QueriesOK, OthersOK
    <3> QED BY <2>4, <3>4, <3>5, SameTables DEF RecvQueryKnown, IInv
  <2>5. CASE RecvQuerySearch(m)
    <3>1. [addr |-> m.src, mode |-> "help_find"] \in Reason /\ m.ttl - 1 \in Nat
      BY <2>1, <2>5 DEF Reason, RecvQuerySearch, QueryAccepted
    <3>2. /\ m_search' \in [Node -> [Node -> Search \cup {NoSearch}]]
          /\ query' \in SUBSET QueryPacket
          /\ QueriesOK'
      BY <2>1, <2>2, <2>5, <3>1, SearchRoute DEF RecvQuerySearch
    <3>3. TypeOK'
      BY <2>5, <3>2 DEF RecvQuerySearch, IInv, TypeOK
    <3>4. PacketsOK'
      BY <2>5, <3>2 DEF RecvQuerySearch, IInv, PacketsOK, RepliesOK, OthersOK, HasRoute
    <3> QED BY <2>5, <3>3, <3>4, SameTables DEF RecvQuerySearch, IInv
  <2>6. CASE RecvQueryRefused(m)
    <3>1. TypeOK'
      BY <2>2, <2>6 DEF RecvQueryRefused, IInv, TypeOK
    <3>2. PacketsOK'
      BY <2>2, <2>6 DEF RecvQueryRefused, IInv, PacketsOK, QueriesOK, RepliesOK,
         OthersOK, HasRoute
    <3> QED BY <2>6, <3>1, <3>2, SameTables DEF RecvQueryRefused, IInv
  <2> QED BY <1>6, <2>3, <2>4, <2>5, <2>6 DEF RecvQuery
<1>7. ASSUME NEW m \in reply, RecvReply(m) PROVE IInv'
  <2>1. /\ m.src \in Node /\ m.dst \in Node /\ m.goal \in Node /\ m.cost \in Nat
        /\ m.src # m.dst /\ m.goal \notin SemicolonHip
    BY DEF IInv, TypeOK, ReplyPacket, PacketsOK, RepliesOK
  <2> DEFINE info == [nexthop |-> m.src, cost |-> m.cost]
  <2>2. info \in Route /\ info.nexthop = m.src /\ add_route_info(m.dst, m.goal, info)
    BY <1>7, <2>1 DEF RecvReply, Route
  <2> HIDE DEF info
  <2>3. /\ m_tunnel' \in [Node -> SUBSET Node]
        /\ m.goal \in m_tunnel'[m.dst]
        /\ \A k \in Node : m_tunnel[k] \subseteq m_tunnel'[k]
    BY <1>7, <2>1 DEF RecvReply, IInv, TypeOK
  <2>4. /\ TablesOK' /\ RouteHasTunnel' /\ SemicolonOnlyDirect'
        /\ \A k, x \in Node : HasRoute(k, x) => HasRoute(k, x)'
    BY <1>7, <2>1, <2>2, <2>3, StoredRoute DEF RecvReply
  <2>5. m_route_nexthop' \in [Node -> [Node -> Route \cup {NoRoute}]]
    BY <2>1, <2>2, AddRoute
  <2>6. reply' \in SUBSET reply
    BY <1>7, ReceivedSubset DEF RecvReply
  <2>7. reply' \in SUBSET ReplyPacket /\ RepliesOK'
    BY <2>4, <2>6, SameReplies
  <2>8. TypeOK'
    BY <1>7, <2>3, <2>5, <2>7 DEF RecvReply, IInv, TypeOK
  <2>9. PacketsOK'
    BY <1>7, <2>7 DEF RecvReply, IInv, PacketsOK, QueriesOK, OthersOK
  <2> QED BY <2>4, <2>8, <2>9 DEF IInv
<1>8. ASSUME NEW m \in reply, RecvReplyRefused(m) PROVE IInv'
  <2>1. reply' \in SUBSET reply
    BY <1>8, ReceivedSubset DEF RecvReplyRefused
  <2>2. TypeOK'
    BY <1>8, <2>1 DEF RecvReplyRefused, IInv, TypeOK
  <2>3. PacketsOK'
    BY <1>8, <2>1 DEF RecvReplyRefused, IInv, PacketsOK, QueriesOK, RepliesOK,
       OthersOK, HasRoute
  <2> QED BY <1>8, <2>2, <2>3, SameTables DEF RecvReplyRefused, IInv
<1>9. CASE UNCHANGED vars
  <2>1. TypeOK'
    BY <1>9 DEF vars, IInv, TypeOK
  <2>2. PacketsOK'
    BY <1>9 DEF vars, IInv, PacketsOK, QueriesOK, RepliesOK, OthersOK, HasRoute
  <2> QED BY <1>9, <2>1, <2>2, SameTables DEF vars, IInv
<1> QED BY <1>1, <1>2, <1>3, <1>4, <1>5, <1>6, <1>7, <1>8, <1>9 DEF Next, Receive

\* IInv is an invariant of the specification.
THEOREM Invariance == Spec => []IInv
BY InitIInv, NextIInv, PTL DEF Spec

\* Type correctness of all tables and packets.
THEOREM TypeCorrect == Spec => []TypeOK
<1>1. IInv => TypeOK
  BY DEF IInv
<1> QED BY Invariance, <1>1, PTL

\* Who has a route has a tunnel to its goal, in a mesh of any shape and size.
THEOREM RoutesHaveTunnels == Spec => []RouteHasTunnel
<1>1. IInv => RouteHasTunnel
  BY DEF IInv
<1> QED BY Invariance, <1>1, PTL

\* No query reaches the node that it asks for, or comes from it.
THEOREM NobodyAskedForHimself == Spec => []NoSelfQuery
<1>1. IInv => NoSelfQuery
  BY DEF IInv, PacketsOK, QueriesOK, NoSelfQuery
<1> QED BY Invariance, <1>1, PTL

\* A node whose address contains ';' is reached by its neighbours only.
THEOREM SemicolonDirect == Spec => []SemicolonOnlyDirect
<1>1. IInv => SemicolonOnlyDirect
  BY DEF IInv
<1> QED BY Invariance, <1>1, PTL

-----------------------------------------------------------------------------
\* Queries: when they are sent, and at which TTL.

\* Query q was sent by this step: by a node that did not search for its goal, at the
\* TTL of a packet (of its own or to be passed on) or of the query that it answers.
Fresh(q) ==
  /\ m_search[q.src][q.goal] = NoSearch
  /\ \/ q.ttl = Larger(SearchTtl, TtlMaxAccepted)
     \/ \E m \in query : q.ttl = Larger(SearchTtl, m.ttl - 1)

\* A search sends queries only when it is new, at the larger of the two TTLs.
LEMMA Asked ==
  ASSUME NEW n, NEW g, NEW reason, NEW ttl, NEW queries \in SUBSET query,
         search_route(n, g, reason, ttl, queries), NEW q \in query', q \notin query
  PROVE  /\ q.src = n /\ q.goal = g /\ m_search[n][g] = NoSearch
         /\ q.ttl = Larger(SearchTtl, ttl)
<1> DEFINE s == add_request(c_route_search, reason, ttl)
<1>1. m_search[n][g] = NoSearch /\ execute(n, g, s, queries)
  BY DEF search_route
<1>2. s.ttl_should_use = Larger(SearchTtl, ttl)
  BY DEF add_request, c_route_search
<1> HIDE DEF s
<1>3. PICK p \in m_peer[n] : q = [src |-> n, dst |-> p, goal |-> g, ttl |-> s.ttl_should_use]
  BY <1>1 DEF execute
<1> QED BY <1>1, <1>2, <1>3

\* A data packet that is routed sends no other queries than those of its search.
LEMMA AskedForData ==
  ASSUME NEW n, NEW src_hip, NEW dst_hip, NEW reason, NEW ttl, NEW boxed, NEW datas,
         route_tun_data_to_its_destination(n, src_hip, dst_hip, reason, ttl, boxed, datas),
         NEW q \in query', q \notin query
  PROVE  Fresh(q)
<1>1. \E h \in SearchFor(n, dst_hip) : search_route(n, h, reason, TtlMaxAccepted, query)
  BY DEF route_tun_data_to_its_destination
<1>2. PICK h \in SearchFor(n, dst_hip) : search_route(n, h, reason, TtlMaxAccepted, query)
  BY <1>1
<1>3. /\ q.src = n /\ q.goal = h /\ m_search[n][h] = NoSearch
      /\ q.ttl = Larger(SearchTtl, TtlMaxAccepted)
  BY <1>2, Asked
<1> QED BY <1>3 DEF Fresh

\* Every query that a step adds is fresh.
LEMMA NewQueries == ASSUME [Next]_vars, NEW q \in query', q \notin query PROVE Fresh(q)
<1> USE DEF tables, packets
<1>1. ASSUME NEW n \in Node, PingAll(n) PROVE Fresh(q)
  BY <1>1 DEF PingAll
<1>2. ASSUME NEW n \in Node, NEW p \in Node, DeletePeer(n, p) PROVE Fresh(q)
  BY <1>2 DEF DeletePeer
<1>3. ASSUME NEW m \in hi, RecvHi(m) PROVE Fresh(q)
  BY <1>3 DEF RecvHi
<1>4. ASSUME NEW f \in Flow, TunPacket(f[1], f[2]) PROVE Fresh(q)
  BY <1>4, AskedForData, Zenon DEF TunPacket
<1>5. ASSUME NEW m \in data, RecvData(m) PROVE Fresh(q)
  <2>1. CASE RecvDataNoTunnel(m)
    BY <2>1, AskedForData, Zenon DEF RecvDataNoTunnel
  <2>2. CASE RecvDataOther(m)
    BY <2>2, AskedForData, Zenon DEF RecvDataOther
  <2>3. CASE RecvDataMine(m) \/ RecvDataRefused(m)
    BY <2>3 DEF RecvDataMine, RecvDataRefused
  <2> QED BY <1>5, <2>1, <2>2, <2>3 DEF RecvData
<1>6. ASSUME NEW m \in query, RecvQuery(m) PROVE Fresh(q)
  <2>1. CASE RecvQuerySearch(m)
    <3> DEFINE reason == [addr |-> m.src, mode |-> "help_find"]
    <3>1. search_route(m.dst, m.goal, reason, m.ttl - 1, Received(query, m))
      BY <2>1 DEF RecvQuerySearch
    <3>2. Received(query, m) \in SUBSET query
      BY ReceivedSubset
    <3> HIDE DEF reason
    <3>3. /\ q.src = m.dst /\ q.goal = m.goal /\ m_search[m.dst][m.goal] = NoSearch
          /\ q.ttl = Larger(SearchTtl, m.ttl - 1)
      BY <3>1, <3>2, Asked
    <3> QED BY <3>3 DEF Fresh
  <2>2. CASE RecvQueryDirect(m) \/ RecvQueryKnown(m) \/ RecvQueryRefused(m)
    <3>1. query' \in SUBSET query
      BY <2>2, ReceivedSubset DEF RecvQueryDirect, RecvQueryKnown, RecvQueryRefused
    <3> QED BY <3>1
  <2> QED BY <1>6, <2>1, <2>2 DEF RecvQuery
<1>7. ASSUME NEW m \in reply, RecvReply(m) \/ RecvReplyRefused(m) PROVE Fresh(q)
  BY <1>7 DEF RecvReply, RecvReplyRefused
<1>8. CASE UNCHANGED vars
  BY <1>8 DEF vars
<1> QED BY <1>1, <1>2, <1>3, <1>4, <1>5, <1>6, <1>7, <1>8 DEF Next, Receive

\* In a mesh of any shape every node floods the query for a goal once.
THEOREM FloodsOnce == Spec => FloodOnce
<1> DEFINE Once == \A n, g \in Node :
       (\E q \in query' \ query : q.src = n /\ q.goal = g) => m_search[n][g] = NoSearch
<1>1. [Next]_vars => Once
  BY NewQueries DEF Fresh
<1>2. [Next]_vars => [Once]_vars
  BY <1>1
<1> QED BY <1>2, PTL DEF Spec, FloodOnce

\* Where a search starts at no less than the TTL that is accepted (both are 5 in the code),
\* every query in flight, over however many nodes it came, has that TTL.
THEOREM QueriesAtFullTtl ==
  ASSUME SearchTtl >= TtlMaxAccepted
  PROVE  Spec => []FullTtl
<1>1. Init => FullTtl
  BY DEF Init, FullTtl
<1>2. FullTtl /\ [Next]_vars => FullTtl'
  <2> SUFFICES ASSUME FullTtl, [Next]_vars, NEW q \in query', q \notin query
               PROVE  q.ttl = Larger(SearchTtl, TtlMaxAccepted)
    BY DEF FullTtl
  <2>1. Larger(SearchTtl, TtlMaxAccepted) = SearchTtl
    BY DEF Larger
  <2>2. \A m \in query : Larger(SearchTtl, m.ttl - 1) = SearchTtl
    BY <2>1 DEF FullTtl, Larger
  <2> QED BY <2>1, <2>2, NewQueries DEF Fresh
<1> QED BY <1>1, <1>2, PTL DEF Spec

-----------------------------------------------------------------------------
\* Data: the TTL at which it is passed on.

\* What d was made from: a packet of its sender's own, or one that its sender has received.
Forwards(d) ==
  d.src # d.src_hip =>
    \E e \in data : /\ e.dst = d.src /\ e.ttl > d.ttl
                    /\ e.src_hip = d.src_hip /\ e.dst_hip = d.dst_hip

\* Routing a packet puts at most this packet in flight.
LEMMA Routed ==
  ASSUME NEW n, NEW src_hip, NEW dst_hip, NEW reason, NEW ttl, NEW boxed,
         NEW datas \in SUBSET data,
         route_tun_data_to_its_destination(n, src_hip, dst_hip, reason, ttl, boxed, datas),
         NEW d \in data', d \notin data
  PROVE  d.src = n /\ d.src_hip = src_hip /\ d.dst_hip = dst_hip /\ d.ttl = ttl
<1>1. \E p \in SendTo(n, dst_hip) :
        d = [src |-> n, dst |-> p, src_hip |-> src_hip, dst_hip |-> dst_hip,
             ttl |-> ttl, boxed |-> boxed]
  BY DEF route_tun_data_to_its_destination
<1> QED BY <1>1

\* Every packet that a step adds is the sender's own or passes on another at a lower TTL.
LEMMA NewData == ASSUME IInv, [Next]_vars, NEW d \in data', d \notin data PROVE Forwards(d)
<1> USE DEF tables, packets
<1>1. ASSUME NEW n \in Node, PingAll(n) PROVE Forwards(d)
  BY <1>1 DEF PingAll
<1>2. ASSUME NEW n \in Node, NEW p \in Node, DeletePeer(n, p) PROVE Forwards(d)
  BY <1>2 DEF DeletePeer
<1>3. ASSUME NEW m \in hi, RecvHi(m) PROVE Forwards(d)
  BY <1>3 DEF RecvHi
<1>4. ASSUME NEW f \in Flow, TunPacket(f[1], f[2]) PROVE Forwards(d)
  <2> DEFINE boxed == f[2] \in m_tunnel[f[1]]
  <2>1. /\ route_tun_data_to_its_destination(f[1], f[1], f[2], own_packet, DataTtl, boxed, data)
        /\ data \in SUBSET data
    BY <1>4, Zenon DEF TunPacket
  <2> HIDE DEF boxed
  <2>2. d.src = f[1] /\ d.src_hip = f[1]
    BY <2>1, Routed
  <2> QED BY <2>2 DEF Forwards
<1>5. ASSUME NEW m \in data, RecvData(m) PROVE Forwards(d)
  <2>1. Received(data, m) \in SUBSET data
    BY ReceivedSubset
  <2>2. CASE RecvDataNoTunnel(m)
    <3> DEFINE empty == FALSE
    <3>0. route_tun_data_to_its_destination(m.dst, m.dst, m.src_hip, own_packet, m.ttl, empty,
                                            Received(data, m))
      BY <2>2 DEF RecvDataNoTunnel
    <3> HIDE DEF empty
    <3>1. d.src = m.dst /\ d.src_hip = m.dst
      BY <2>1, <3>0, Routed
    <3> QED BY <3>1 DEF Forwards
  <2>3. CASE RecvDataOther(m)
    <3>1. /\ d.src = m.dst /\ d.src_hip = m.src_hip /\ d.dst_hip = m.dst_hip
          /\ d.ttl = ForwardTtl(m.ttl)
      BY <2>1, <2>3, Routed DEF RecvDataOther
    <3>2. m.ttl \in Int
      BY DEF IInv, TypeOK, DataPacket
    <3>3. m.ttl > ForwardTtl(m.ttl)
      BY <3>2 DEF ForwardTtl
    <3> QED BY <3>1, <3>3 DEF Forwards
  <2>4. CASE RecvDataMine(m) \/ RecvDataRefused(m)
    BY <2>1, <2>4 DEF RecvDataMine, RecvDataRefused
  <2> QED BY <1>5, <2>2, <2>3, <2>4 DEF RecvData
<1>6. ASSUME NEW m \in query, RecvQuery(m) PROVE Forwards(d)
  <2>1. CASE RecvQuerySearch(m)
    BY <2>1 DEF RecvQuerySearch
  <2>2. CASE RecvQueryDirect(m) \/ RecvQueryKnown(m) \/ RecvQueryRefused(m)
    BY <2>2 DEF RecvQueryDirect, RecvQueryKnown, RecvQueryRefused
  <2> QED BY <1>6, <2>1, <2>2 DEF RecvQuery
<1>7. ASSUME NEW m \in reply, RecvReply(m) \/ RecvReplyRefused(m) PROVE Forwards(d)
  BY <1>7 DEF RecvReply, RecvReplyRefused
<1>8. CASE UNCHANGED vars
  BY <1>8 DEF vars
<1> QED BY <1>1, <1>2, <1>3, <1>4, <1>5, <1>6, <1>7, <1>8 DEF Next, Receive

\* With Duplicates no packet leaves the network.
LEMMA DataStays == ASSUME IInv, [Next]_vars, Duplicates PROVE data \in SUBSET data'
<1> USE DEF tables, packets
<1>1. \A m : Received(data, m) = data
  BY DEF Received
<1>2. ASSUME NEW n, NEW src_hip, NEW dst_hip, NEW reason, NEW ttl, NEW boxed,
             route_tun_data_to_its_destination(n, src_hip, dst_hip, reason, ttl, boxed, data)
      PROVE  data \in SUBSET data'
  BY <1>2 DEF route_tun_data_to_its_destination
<1>3. ASSUME NEW f \in Flow, TunPacket(f[1], f[2]) PROVE data \in SUBSET data'
  <2> DEFINE boxed == f[2] \in m_tunnel[f[1]]
  <2>1. route_tun_data_to_its_destination(f[1], f[1], f[2], own_packet, DataTtl, boxed, data)
    BY <1>3, Zenon DEF TunPacket
  <2> HIDE DEF boxed
  <2> QED BY <1>2, <2>1
<1>4. ASSUME NEW m \in data, RecvData(m) PROVE data \in SUBSET data'
  <2>1. CASE RecvDataNoTunnel(m)
    <3> DEFINE empty == FALSE
    <3>1. route_tun_data_to_its_destination(m.dst, m.dst, m.src_hip, own_packet, m.ttl, empty, data)
      BY <1>1, <2>1 DEF RecvDataNoTunnel
    <3> HIDE DEF empty
    <3> QED BY <1>2, <3>1
  <2>2. CASE RecvDataOther(m)
    BY <1>1, <1>2, <2>2 DEF RecvDataOther
  <2>3. CASE RecvDataMine(m) \/ RecvDataRefused(m)
    BY <1>1, <2>3 DEF RecvDataMine, RecvDataRefused
  <2> QED BY <1>4, <2>1, <2>2, <2>3 DEF RecvData
<1>5. ASSUME NEW m \in query, RecvQuery(m) PROVE data \in SUBSET data'
  BY <1>5 DEF RecvQuery, RecvQuerySearch, RecvQueryDirect, RecvQueryKnown, RecvQueryRefused
<1>6. ASSUME NEW m \in reply, RecvReply(m) \/ RecvReplyRefused(m) PROVE data \in SUBSET data'
  BY <1>6 DEF RecvReply, RecvReplyRefused
<1>7. ASSUME NEW m \in hi, RecvHi(m) PROVE data \in SUBSET data'
  BY <1>7 DEF RecvHi
<1>8. ASSUME NEW n \in Node, NEW p \in Node, PingAll(n) \/ DeletePeer(n, p)
      PROVE  data \in SUBSET data'
  BY <1>8 DEF PingAll, DeletePeer
<1>9. CASE UNCHANGED vars
  BY <1>9 DEF vars
<1> QED BY <1>3, <1>4, <1>5, <1>6, <1>7, <1>8, <1>9 DEF Next, Receive

\* Where repeated packets make every packet stay in flight, the packets that were ever sent show
\* that whatever was passed on came in at a higher TTL.
THEOREM ForwardingLosesTtl ==
  ASSUME Duplicates
  PROVE  Spec => []ForwardLosesTtl
<1>1. Init => ForwardLosesTtl
  BY DEF Init, ForwardLosesTtl
<1>2. IInv /\ ForwardLosesTtl /\ [Next]_vars => ForwardLosesTtl'
  <2> SUFFICES ASSUME IInv, ForwardLosesTtl, [Next]_vars PROVE ForwardLosesTtl'
    OBVIOUS
  <2>1. data \in SUBSET data'
    BY DataStays
  <2>2. ASSUME NEW d \in data' PROVE Forwards(d)
    <3>1. CASE d \in data
      BY <3>1 DEF ForwardLosesTtl, Forwards
    <3>2. CASE d \notin data
      BY <3>2, NewData
    <3> QED BY <3>1, <3>2
  <2> QED BY <2>1, <2>2 DEF ForwardLosesTtl, Forwards
<1> QED BY <1>1, <1>2, Invariance, PTL DEF Spec

-----------------------------------------------------------------------------
\* The refinement of RouteForest.

\* What the mapping says of a node and a goal.
LEMMA MappedHops ==
  ASSUME NEW n \in Node, NEW g \in Node
  PROVE  /\ NextHops[n][g] = IF HasRoute(n, g) THEN {NextHop(n, g)} ELSE {}
         /\ NextHops'[n][g] = IF HasRoute(n, g)' THEN {NextHop(n, g)'} ELSE {}
BY DEF NextHops

\* Storing a route whose next hop is the goal, or has a route, is a Learn step
\* or changes nothing.
LEMMA StoreIsLearn ==
  ASSUME IInv, NEW n \in Node, NEW g \in Node, n # g, NEW info \in Route,
         add_route_info(n, g, info),
         info.nexthop = g \/ HasRoute(info.nexthop, g)
  PROVE  [Forest!Next]_NextHops
<1>1. CASE HasRoute(n, g)
  BY <1>1 DEF add_route_info, NextHops, HasRoute, NextHop
<1>2. CASE ~HasRoute(n, g)
  <2>1. m_route_nexthop' = [m_route_nexthop EXCEPT ![n][g] = info]
    BY <1>2 DEF add_route_info
  <2>2. info.nexthop \in Node /\ info # NoRoute
    BY DEF Route
  <2>3. \A k, x \in Node :
          m_route_nexthop'[k][x] = IF k = n /\ x = g THEN info ELSE m_route_nexthop[k][x]
    BY <2>1 DEF IInv, TypeOK
  <2>4. ASSUME NEW k \in Node, NEW x \in Node PROVE
          NextHops'[k][x] = IF k = n /\ x = g THEN {info.nexthop} ELSE NextHops[k][x]
    <3>1. NextHops[k][x] = IF m_route_nexthop[k][x] # NoRoute
                             THEN {m_route_nexthop[k][x].nexthop} ELSE {}
      BY MappedHops DEF HasRoute, NextHop
    <3>2. NextHops'[k][x] = IF m_route_nexthop'[k][x] # NoRoute
                              THEN {m_route_nexthop'[k][x].nexthop} ELSE {}
      BY DEF NextHops, HasRoute, NextHop
    <3>3. CASE k = n /\ x = g
      <4>1. m_route_nexthop'[k][x] = info
        BY <2>3, <3>3
      <4> QED BY <2>2, <3>2, <3>3, <4>1
    <3>4. CASE ~(k = n /\ x = g)
      <4>1. m_route_nexthop'[k][x] = m_route_nexthop[k][x]
        BY <2>3, <3>4
      <4> QED BY <3>1, <3>2, <3>4, <4>1
    <3> QED BY <3>3, <3>4
  <2>5. NextHops' = [NextHops EXCEPT ![n][g] = {info.nexthop}]
    <3>1. NextHops' = [k \in Node |-> [x \in Node |-> NextHops'[k][x]]]
      BY DEF NextHops
    <3>2. NextHops = [k \in Node |-> [x \in Node |-> NextHops[k][x]]]
      BY DEF NextHops
    <3> QED BY <2>4, <3>1, <3>2
  <2>6. NextHops[n][g] = {}
    BY <1>2, MappedHops
  <2>7. info.nexthop = g \/ NextHops[info.nexthop][g] # {}
    BY <2>2, MappedHops
  <2>8. Forest!Learn(n, g, info.nexthop)
    BY <2>5, <2>6, <2>7 DEF Forest!Learn
  <2> QED BY <2>2, <2>8 DEF Forest!Next
<1> QED BY <1>1, <1>2

\* Every step of the nodes is a step of the forest or none.
LEMMA StepIsForestStep == IInv /\ [Next]_vars => [Forest!Next]_NextHops
<1> SUFFICES ASSUME IInv, [Next]_vars PROVE [Forest!Next]_NextHops OBVIOUS
<1>1. CASE UNCHANGED m_route_nexthop
  BY <1>1 DEF NextHops, HasRoute, NextHop
<1>2. ASSUME NEW m \in query, RecvQueryDirect(m) PROVE [Forest!Next]_NextHops
  <2>1. m.dst \in Node /\ m.goal \in Node /\ m.goal # m.dst
    BY DEF IInv, TypeOK, QueryPacket, PacketsOK, QueriesOK
  <2> DEFINE info == [nexthop |-> m.goal, cost |-> 1]
  <2>2. info \in Route /\ info.nexthop = m.goal /\ add_route_info(m.dst, m.goal, info)
    BY <1>2, <2>1 DEF RecvQueryDirect, Route
  <2> HIDE DEF info
  <2> QED BY <2>1, <2>2, StoreIsLearn
<1>3. ASSUME NEW m \in reply, RecvReply(m) PROVE [Forest!Next]_NextHops
  <2>1. /\ m.src \in Node /\ m.dst \in Node /\ m.goal \in Node /\ m.cost \in Nat
        /\ m.goal # m.dst /\ HasRoute(m.src, m.goal)
    BY DEF IInv, TypeOK, ReplyPacket, PacketsOK, RepliesOK
  <2> DEFINE info == [nexthop |-> m.src, cost |-> m.cost]
  <2>2. info \in Route /\ info.nexthop = m.src /\ add_route_info(m.dst, m.goal, info)
    BY <1>3, <2>1 DEF RecvReply, Route
  <2> HIDE DEF info
  <2> QED BY <2>1, <2>2, StoreIsLearn
<1>4. \/ UNCHANGED m_route_nexthop
      \/ \E m \in query : RecvQueryDirect(m)
      \/ \E m \in reply : RecvReply(m)
  <2>1. ASSUME NEW m, RecvData(m) PROVE UNCHANGED m_route_nexthop
    BY <2>1 DEF RecvData, RecvDataNoTunnel, RecvDataMine, RecvDataOther, RecvDataRefused
  <2>2. ASSUME NEW m, RecvQuery(m)
        PROVE  UNCHANGED m_route_nexthop \/ RecvQueryDirect(m)
    BY <2>2 DEF RecvQuery, RecvQueryKnown, RecvQuerySearch, RecvQueryRefused
  <2> QED BY <2>1, <2>2 DEF Next, Receive, RecvHi, RecvReplyRefused, PingAll, TunPacket,
             DeletePeer, vars
<1> QED BY <1>1, <1>2, <1>3, <1>4

\* The nodes build a forest of next hops: what each stores on a late, repeated
\* or reordered packet is always a growth step of RouteForest.
THEOREM RefinesForest == Spec => BuildsForest
<1>1. Init => Forest!Init
  BY DEF Init, Forest!Init, NextHops, HasRoute
<1> QED BY <1>1, Invariance, StepIsForestStep, PTL DEF Spec, BuildsForest, Forest!Spec

ForestProofs == INSTANCE RouteForestProofs WITH hop <- NextHops

\* Packets that follow the stored next hops never run in a circle, in a mesh
\* of any size: the loop-freedom of RouteForest, carried over.
THEOREM RoutesLoopFree == Spec => []LoopFree
<1>1. ForestProofs!Spec => []ForestProofs!LoopFree
  BY ForestProofs!ForestLoopFree
<1>2. Forest!Spec <=> ForestProofs!Spec
  BY PTL DEF Forest!Spec, Forest!Init, Forest!Next, Forest!Learn,
     ForestProofs!Spec, ForestProofs!Init, ForestProofs!Next, ForestProofs!Learn
<1>3. LoopFree <=> ForestProofs!LoopFree
  BY DEF LoopFree, Forest!LoopFree, ForestProofs!LoopFree
<1> QED BY RefinesForest, <1>1, <1>2, <1>3, PTL DEF BuildsForest
=============================================================================
