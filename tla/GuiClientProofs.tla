--------------------------- MODULE GuiClientProofs ---------------------------
(***************************************************************************)
(* The Qt client, for any number of peers, connections and requests: a     *)
(* peer has one row, the row a box asks about stays that peer's, a reply   *)
(* is applied at most once while no id is used twice, and no reply is      *)
(* skipped while every frame that is read is one.                          *)
(* The client's operations are functions of what it holds, so that most    *)
(* facts here are about what such a function makes of a client.            *)
(***************************************************************************)
EXTENDS MCRpcGui, RpcServerProofs, SequenceTheorems

Id == Nat \X Nat
NamesPeer == {"add_peer", "ban_peer"}
RowOrder == [cmd : NamesPeer, n : Nat, peer : Vips]
OtherOrder == [cmd : Commands \ NamesPeer, n : Nat, peer : Vips \cup {NoPeer}]
Order == RowOrder \cup OtherOrder
Orders == UNION { [D -> Order] : D \in SUBSET Id }

Ask == [cmd : Commands, id : {NoId} \cup Id, n : Nat]
Reply == [cmd : Commands, state : {"ok", "blocked", "error", "nothing_done"}, re : {NoId} \cup Id,
          n : Nat, sid : Nat, conn : Nat, nr : Nat]
Unit == {"head", "tail"} \X Reply

Conn == [sid : Nat, open : BOOLEAN, asks : Seq(Ask), stream : Seq(Unit), sent : Nat]
Node == [up : BOOLEAN, sessions : Nat, requests : Nat, conns : Seq(Conn)]
Executor ==
  [conn : Nat, m_wait_name_flag : BOOLEAN, m_client_name : Nat, m_counter : Nat, m_orders : Orders,
   m_internal_buffer : Seq(Unit), m_last_command : Seq(Unit), missing : 0 .. 2, back : Seq(Unit),
   m_timer : BOOLEAN, clash : BOOLEAN]
Clients == [ex : Seq(Executor), nd : Node, working : BOOLEAN]

\* The request that a unit of the stream answers.
Asked(u) == [cmd |-> u[2].cmd, id |-> u[2].re, n |-> u[2].n]

\* The requests that are on the way to the node, or whose answers are on the way to
\* executor e or the last that it has read.
OnConn(k) == Range(k.asks) \cup { Asked(u) : u \in Range(k.stream) }
InReader(x) == { Asked(u) : u \in Range(x.m_internal_buffer) \cup Range(x.m_last_command) \cup Range(x.back) }
Carried(c, e) ==
  InReader(c.ex[e]) \cup (IF c.ex[e].conn = 0 THEN {} ELSE OnConn(c.nd.conns[c.ex[e].conn]))

\* Every executor has a connection of its own.
OwnConns(c) ==
  \A e \in DOMAIN c.ex :
    /\ c.ex[e].conn <= Len(c.nd.conns)
    /\ \A f \in DOMAIN c.ex : c.ex[e].conn = c.ex[f].conn /\ c.ex[e].conn # 0 => e = f

\* A number belongs to one request, of one executor.
OwnNumbers(c) ==
  \A e \in DOMAIN c.ex : \A r \in Carried(c, e) :
    /\ r.n <= c.nd.requests
    /\ \A f \in DOMAIN c.ex : \A s \in Carried(c, f) : r.n = s.n => e = f /\ r.id = s.id

\* deletePeerOrder sends no id.
DeletesHaveNoId(c) ==
  \A e \in DOMAIN c.ex : \A r \in Carried(c, e) : r.cmd = "delete_peer" => r.id = NoId

\* The ids of an executor x that has not used one twice: the first one under a name
\* was that of get_status, whose order stays, so that a name that comes back is noticed.
IdOK(x, r) ==
  r.id # NoId =>
    /\ r.id[1] # 0
    /\ <<r.id[1], 0>> \in DOMAIN x.m_orders
    /\ r.id[2] = 0 => r.cmd = "get_status"
    /\ r.id[1] = x.m_client_name /\ x.m_counter > 0 => r.id[2] < x.m_counter
FirstOK(x) ==
  x.m_client_name # 0 /\ x.m_counter > 0 => <<x.m_client_name, 0>> \in DOMAIN x.m_orders
IdsOK(c) ==
  \A e \in DOMAIN c.ex : ~c.ex[e].clash =>
    FirstOK(c.ex[e]) /\ \A r \in Carried(c, e) : IdOK(c.ex[e], r)

\* A request whose answer was applied has no order any more.
AppliedOK(c, done) ==
  /\ \A i \in DOMAIN done : done[i] <= c.nd.requests
  /\ \A e \in DOMAIN c.ex : ~c.ex[e].clash =>
       \A r \in Carried(c, e) : r.n \in Range(done) => r.id \notin DOMAIN c.ex[e].m_orders

ClientOK(c, done) ==
  /\ OwnConns(c) /\ OwnNumbers(c) /\ DeletesHaveNoId(c) /\ IdsOK(c) /\ AppliedOK(c, done)

\* Once there is a name, its first id is taken.
CounterOK(c) == \A e \in DOMAIN c.ex : c.ex[e].m_client_name # 0 => c.ex[e].m_counter > 0

\* What a box asks about.
SelectedOK == selected = <<>> \/ selected \in {"ban", "remove"} \X (Nat \ {0}) \X Vips

ClientInv ==
  /\ Client \in Clients /\ executors # <<>> /\ ClientOK(Client, applied) /\ CounterOK(Client)
  /\ applied \in Seq(Nat) /\ AppliedOnce
ListInv == peers \in Seq(Row) /\ OneRowPerPeer /\ SelectedOK /\ SelectionHolds
FlagsInv == exited \in BOOLEAN /\ misframed \in BOOLEAN /\ executed \in [1 .. MaxConn -> Nat]

GuiInv == ClientInv /\ ListInv /\ FlagsInv

-----------------------------------------------------------------------------
\* Sequences and the tables of orders.

\* The range of a sequence.
LEMMA UnitsOfSeq ==
  ASSUME NEW S, NEW s \in Seq(S)
  PROVE  Range(s) \subseteq S /\ \A i \in 1 .. Len(s) : s[i] \in Range(s)
<1>1. \A i \in DOMAIN s : s[i] \in S
  OBVIOUS
<1>2. Range(s) \subseteq S
  BY <1>1 DEF Range
<1>3. \A i \in 1 .. Len(s) : s[i] \in Range(s)
  BY DEF Range
<1> QED
  BY <1>2, <1>3

\* What is left of a sequence when its head is taken.
LEMMA RangeOfTail ==
  ASSUME NEW S, NEW s \in Seq(S), s # <<>>
  PROVE  Head(s) \in Range(s) /\ Tail(s) \in Seq(S) /\ Range(Tail(s)) \subseteq Range(s)
<1>1. Len(s) >= 1 /\ Head(s) = s[1] /\ Tail(s) \in Seq(S) /\ Len(Tail(s)) = Len(s) - 1
  OBVIOUS
<1>2. \A i \in 1 .. Len(Tail(s)) : Tail(s)[i] = s[i + 1] /\ i + 1 \in 1 .. Len(s)
  BY <1>1
<1> QED
  BY <1>1, <1>2 DEF Range

\* The empty sequence holds nothing.
LEMMA RangeOfEmpty == Range(<<>>) = {}
  BY DEF Range

\* What one more element adds.
LEMMA RangeOfAppend ==
  ASSUME NEW S, NEW s \in Seq(S), NEW x \in S
  PROVE  Append(s, x) \in Seq(S) /\ Range(Append(s, x)) \subseteq Range(s) \cup {x}
  BY DEF Range

\* What two sequences hold together.
LEMMA RangeOfConcat ==
  ASSUME NEW S, NEW s \in Seq(S), NEW t \in Seq(S)
  PROVE  s \o t \in Seq(S) /\ Range(s \o t) \subseteq Range(s) \cup Range(t)
<1>1. s \o t \in Seq(S)
  OBVIOUS
<1>2. ASSUME NEW i \in DOMAIN (s \o t) PROVE (s \o t)[i] \in Range(s) \cup Range(t)
  <2>1. CASE i <= Len(s)
    BY <2>1, <1>2 DEF Range
  <2>2. CASE i > Len(s)
    <3>1. i - Len(s) \in 1 .. Len(t) /\ (s \o t)[i] = t[i - Len(s)]
      BY <2>2, <1>2
    <3> QED
      BY <3>1 DEF Range
  <2>3. i \in Int /\ Len(s) \in Int
    BY <1>2
  <2> QED
    BY <2>1, <2>2, <2>3
<1> QED
  BY <1>1, <1>2 DEF Range

\* A part of a sequence holds no more than the sequence.
LEMMA RangeOfSubSeq ==
  ASSUME NEW S, NEW s \in Seq(S), NEW m \in Nat \ {0}, NEW n \in Nat, n <= Len(s)
  PROVE  /\ SubSeq(s, m, n) \in Seq(S) /\ Range(SubSeq(s, m, n)) \subseteq Range(s)
<1>1. SubSeq(s, m, n) \in Seq(S)
  OBVIOUS
<1>2. ASSUME NEW i \in DOMAIN SubSeq(s, m, n) PROVE SubSeq(s, m, n)[i] \in Range(s)
  <2>1. i + m - 1 \in 1 .. Len(s) /\ SubSeq(s, m, n)[i] = s[i + m - 1]
    BY <1>2
  <2> QED
    BY <2>1 DEF Range
<1> QED
  BY <1>1, <1>2 DEF Range

\* A table of orders is a function from ids.
LEMMA OrdersForm ==
  ASSUME NEW f
  PROVE  f \in Orders <=> DOMAIN f \subseteq Id /\ f \in [DOMAIN f -> Order]
  BY DEF Orders

\* An id is a pair of numbers, and never the missing id.
LEMMA IdForm ==
  ASSUME NEW id \in Id
  PROVE  id # NoId /\ id = <<id[1], id[2]>> /\ id[1] \in Nat /\ id[2] \in Nat
<1>1. id = <<id[1], id[2]>> /\ id[1] \in Nat /\ id[2] \in Nat
  BY DEF Id
<1>2. <<id[1], id[2]>> # <<>>
  OBVIOUS
<1> QED
  BY <1>1, <1>2 DEF NoId

\* A table with one more order (addOrder).
LEMMA OrdersAdd ==
  ASSUME NEW f \in Orders, NEW id \in Id, NEW o \in Order
  PROVE  /\ [i \in DOMAIN f \cup {id} |-> IF i = id THEN o ELSE f[i]] \in Orders
         /\ DOMAIN [i \in DOMAIN f \cup {id} |-> IF i = id THEN o ELSE f[i]] = DOMAIN f \cup {id}
<1>1. DOMAIN f \subseteq Id /\ f \in [DOMAIN f -> Order]
  BY OrdersForm
<1> DEFINE g == [i \in DOMAIN f \cup {id} |-> IF i = id THEN o ELSE f[i]]
<1>3. DOMAIN g = DOMAIN f \cup {id} /\ g \in [DOMAIN g -> Order]
  BY <1>1
<1> QED
  BY <1>1, <1>3, OrdersForm

\* A table without one order (getOrder).
LEMMA OrdersTake ==
  ASSUME NEW f \in Orders, NEW id
  PROVE  /\ [i \in DOMAIN f \ {id} |-> f[i]] \in Orders
         /\ DOMAIN [i \in DOMAIN f \ {id} |-> f[i]] = DOMAIN f \ {id}
<1>1. DOMAIN f \subseteq Id /\ f \in [DOMAIN f -> Order]
  BY OrdersForm
<1> DEFINE g == [i \in DOMAIN f \ {id} |-> f[i]]
<1>3. DOMAIN g = DOMAIN f \ {id} /\ g \in [DOMAIN g -> Order]
  BY <1>1
<1> QED
  BY <1>1, <1>3, OrdersForm

-----------------------------------------------------------------------------
\* What a step leaves of an executor's ids.
Same(x, y) ==
  /\ y.m_client_name = x.m_client_name /\ y.m_counter = x.m_counter
  /\ y.m_orders = x.m_orders /\ y.clash = x.clash

\* The connections change, nothing is asked.
Shrinks(c, d) ==
  /\ d \in Clients /\ DOMAIN d.ex = DOMAIN c.ex /\ OwnConns(d)
  /\ d.nd.requests >= c.nd.requests
  /\ \A f \in DOMAIN c.ex : Same(c.ex[f], d.ex[f]) /\ Carried(d, f) \subseteq Carried(c, f)

\* Executor e asks req, the next request.
Asks(c, d, e, req) ==
  /\ d \in Clients /\ DOMAIN d.ex = DOMAIN c.ex /\ OwnConns(d)
  /\ d.nd.requests = c.nd.requests + 1
  /\ \A f \in DOMAIN c.ex :
       /\ Same(c.ex[f], d.ex[f])
       /\ Carried(d, f) \subseteq Carried(c, f) \cup (IF f = e THEN {req} ELSE {})

\* The fields of a client.
LEMMA ClientForm ==
  ASSUME NEW c \in Clients
  PROVE  /\ c.ex \in Seq(Executor) /\ c.nd \in Node /\ c.working \in BOOLEAN
         /\ c.nd.conns \in Seq(Conn) /\ c.nd.requests \in Nat /\ c.nd.sessions \in Nat
         /\ c = [ex |-> c.ex, nd |-> c.nd, working |-> c.working]
         /\ c.nd = [up |-> c.nd.up, sessions |-> c.nd.sessions, requests |-> c.nd.requests,
                    conns |-> c.nd.conns]
         /\ \A e \in DOMAIN c.ex : c.ex[e] \in Executor
         /\ \A k \in 1 .. Len(c.nd.conns) : c.nd.conns[k] \in Conn
  BY DEF Clients, Node

\* The fields of an executor.
LEMMA ExecutorForm ==
  ASSUME NEW x \in Executor
  PROVE  /\ x.conn \in Nat /\ x.m_client_name \in Nat /\ x.m_counter \in Nat /\ x.m_orders \in Orders
         /\ x.m_internal_buffer \in Seq(Unit) /\ x.m_last_command \in Seq(Unit) /\ x.back \in Seq(Unit)
         /\ x.missing \in 0 .. 2 /\ x.clash \in BOOLEAN
  BY DEF Executor

\* What an executor carries are requests.
LEMMA CarriedAreAsks ==
  ASSUME NEW c \in Clients, OwnConns(c), NEW e \in DOMAIN c.ex
  PROVE  Carried(c, e) \subseteq Ask
<1> DEFINE x == c.ex[e]
<1>1. x \in Executor
  BY ClientForm
<1>2. \A u \in Unit : Asked(u) \in Ask
  BY DEF Unit, Reply, Ask, Asked
<1>3. InReader(x) \subseteq Ask
  <2>1. x.m_internal_buffer \in Seq(Unit) /\ x.m_last_command \in Seq(Unit) /\ x.back \in Seq(Unit)
    BY <1>1 DEF Executor
  <2>2. Range(x.m_internal_buffer) \cup Range(x.m_last_command) \cup Range(x.back) \subseteq Unit
    BY <2>1, UnitsOfSeq
  <2> QED
    BY <1>2, <2>2 DEF InReader
<1>4. ASSUME x.conn # 0 PROVE OnConn(c.nd.conns[x.conn]) \subseteq Ask
  <2> DEFINE k == c.nd.conns[x.conn]
  <2>1. x.conn \in 1 .. Len(c.nd.conns)
    BY <1>1, <1>4 DEF OwnConns, Executor
  <2>2. k.asks \in Seq(Ask) /\ k.stream \in Seq(Unit)
    BY <2>1, ClientForm DEF Conn
  <2>3. Range(k.asks) \subseteq Ask /\ Range(k.stream) \subseteq Unit
    BY <2>2, UnitsOfSeq
  <2> QED
    BY <1>2, <2>3 DEF OnConn
<1> QED
  BY <1>3, <1>4 DEF Carried

\* A client that asks nothing new stays well.
LEMMA ShrinksKeeps ==
  ASSUME NEW c \in Clients, NEW done \in Seq(Nat), NEW d, ClientOK(c, done), CounterOK(c), Shrinks(c, d)
  PROVE  ClientOK(d, done) /\ CounterOK(d)
<1>1. /\ d \in Clients /\ DOMAIN d.ex = DOMAIN c.ex /\ OwnConns(d)
      /\ d.nd.requests >= c.nd.requests
      /\ \A f \in DOMAIN c.ex : Same(c.ex[f], d.ex[f]) /\ Carried(d, f) \subseteq Carried(c, f)
  BY DEF Shrinks
<1>2. c.nd.requests \in Nat /\ d.nd.requests \in Nat
  BY <1>1, ClientForm
<1>3. OwnConns(c) /\ OwnNumbers(c) /\ DeletesHaveNoId(c) /\ IdsOK(c) /\ AppliedOK(c, done)
  BY DEF ClientOK
<1>4. \A f \in DOMAIN c.ex : \A r \in Carried(d, f) : r \in Carried(c, f) /\ r.n \in Nat
  BY <1>1, <1>3, CarriedAreAsks DEF Ask
<1>5. OwnNumbers(d)
  <2>1. \A e \in DOMAIN c.ex : \A r \in Carried(d, e) : r.n <= d.nd.requests
    BY <1>1, <1>2, <1>3, <1>4 DEF OwnNumbers
  <2> QED
    BY <1>1, <1>3, <1>4, <2>1 DEF OwnNumbers
<1>6. DeletesHaveNoId(d)
  BY <1>1, <1>3, <1>4 DEF DeletesHaveNoId
<1>7. IdsOK(d)
  BY <1>1, <1>3, <1>4 DEF IdsOK, IdOK, FirstOK, Same
<1>8. AppliedOK(d, done)
  <2>1. \A i \in DOMAIN done : done[i] \in Nat
    OBVIOUS
  <2>2. \A i \in DOMAIN done : done[i] <= d.nd.requests
    BY <1>1, <1>2, <1>3, <2>1 DEF AppliedOK
  <2>3. \A e \in DOMAIN c.ex : ~c.ex[e].clash =>
          \A r \in Carried(c, e) : r.n \in Range(done) => r.id \notin DOMAIN c.ex[e].m_orders
    BY <1>3 DEF AppliedOK
  <2> QED
    BY <1>1, <1>4, <2>2, <2>3 DEF AppliedOK, Same
<1>9. CounterOK(d)
  BY <1>1 DEF CounterOK, Same
<1> QED
  BY <1>1, <1>5, <1>6, <1>7, <1>8, <1>9 DEF ClientOK

\* An executor whose connection is untouched carries what it carried.
LEMMA SameConn ==
  ASSUME NEW c \in Clients, NEW d \in Clients, NEW f \in DOMAIN c.ex, OwnConns(c), DOMAIN d.ex = DOMAIN c.ex,
         d.ex[f] = c.ex[f],
         c.ex[f].conn # 0 => d.nd.conns[c.ex[f].conn] = c.nd.conns[c.ex[f].conn]
  PROVE  Same(c.ex[f], d.ex[f]) /\ Carried(d, f) = Carried(c, f)
  BY DEF Same, Carried

\* One executor is replaced.
LEMMA PutExecutor ==
  ASSUME NEW c \in Clients, NEW e \in DOMAIN c.ex, NEW x \in Executor, NEW d,
         d.ex = [c.ex EXCEPT ![e] = x], d.nd \in Node, d.working \in BOOLEAN,
         d = [ex |-> d.ex, nd |-> d.nd, working |-> d.working]
  PROVE  /\ d \in Clients /\ DOMAIN d.ex = DOMAIN c.ex /\ d.ex[e] = x
         /\ \A f \in DOMAIN c.ex : f # e => d.ex[f] = c.ex[f]
<1>1. c.ex \in Seq(Executor)
  BY ClientForm
<1>2. d.ex \in Seq(Executor) /\ DOMAIN d.ex = DOMAIN c.ex /\ d.ex[e] = x
      /\ \A f \in DOMAIN c.ex : f # e => d.ex[f] = c.ex[f]
  BY <1>1
<1>3. d \in Clients
  BY <1>2 DEF Clients
<1> QED
  BY <1>2, <1>3

\* One connection is replaced.
LEMMA PutConn ==
  ASSUME NEW n \in Node, NEW k \in 1 .. Len(n.conns), NEW h \in Conn, NEW m,
         m = [n EXCEPT !.conns = [n.conns EXCEPT ![k] = h]]
  PROVE  /\ m \in Node /\ m.requests = n.requests /\ Len(m.conns) = Len(n.conns) /\ m.conns[k] = h
         /\ \A j \in 1 .. Len(n.conns) : j # k => m.conns[j] = n.conns[j]
<1>1. n.conns \in Seq(Conn)
  BY DEF Node
<1> DEFINE cs == [n.conns EXCEPT ![k] = h]
<1>2. cs \in Seq(Conn) /\ Len(cs) = Len(n.conns) /\ cs[k] = h
      /\ \A j \in 1 .. Len(n.conns) : j # k => cs[j] = n.conns[j]
  BY <1>1
<1> HIDE DEF cs
<1>3. m \in Node /\ m.requests = n.requests /\ m.conns = cs
  BY <1>2 DEF Node, cs
<1> QED
  BY <1>2, <1>3

\* A connection that has ended.
LEMMA EndedForm ==
  ASSUME NEW g \in Conn
  PROVE  Ended(g) \in Conn /\ Ended(g).asks = <<>> /\ Ended(g).stream = g.stream
<1>1. <<>> \in Seq(Ask) /\ FALSE \in BOOLEAN
  OBVIOUS
<1>2. Ended(g) \in Conn
  BY <1>1, Zenon DEF Conn, Ended
<1>3. Ended(g).asks = <<>> /\ Ended(g).stream = g.stream
  BY DEF Conn, Ended
<1> QED
  BY <1>2, <1>3

\* closeConnection loses requests and makes none.
LEMMA CloseEffect ==
  ASSUME NEW c \in Clients, NEW e \in DOMAIN c.ex, OwnConns(c)
  PROVE  Shrinks(c, closeConnection(c, e)) /\ closeConnection(c, e).ex[e].missing = c.ex[e].missing
<1> DEFINE k == c.ex[e].conn
           y == c.ex[e]
           g == c.nd.conns[k]
           d == closeConnection(c, e)
           x == [y EXCEPT !.conn = 0]
           h == Ended(g)
<1>0. /\ y \in Executor /\ k \in Nat /\ c.nd.requests \in Nat /\ c.ex \in Seq(Executor) /\ c.nd \in Node
      /\ c.nd.conns \in Seq(Conn)
  BY ClientForm DEF Executor
<1>1. CASE k = 0
  <2>1. d = c
    BY <1>1 DEF closeConnection
  <2> QED
    BY <2>1, <1>0 DEF Shrinks, Same
<1>2. CASE k # 0
  <2>0. k <= Len(c.nd.conns)
    BY DEF OwnConns
  <2>1. k \in 1 .. Len(c.nd.conns) /\ g \in Conn
    BY <1>0, <1>2, <2>0
  <2>2. d = [c EXCEPT !.ex[e].conn = 0, !.nd.conns[k] = Ended(@)]
    BY <1>2 DEF closeConnection
  <2> HIDE DEF d
  <2>21. d.working = c.working /\ d.ex = [c.ex EXCEPT ![e] = x]
    BY <2>2 DEF Clients
  <2>22. d.nd = [c.nd EXCEPT !.conns = [c.nd.conns EXCEPT ![k] = h]]
    BY <2>2, <1>0, <2>1 DEF Clients, Node
  <2>23. d = [ex |-> d.ex, nd |-> d.nd, working |-> d.working]
    BY <2>2 DEF Clients
  <2>3. x \in Executor /\ x.conn = 0 /\ Same(c.ex[e], x) /\ InReader(x) = InReader(c.ex[e]) /\ x.missing = c.ex[e].missing
    BY <1>0 DEF Executor, Same, InReader
  <2> HIDE DEF g
  <2>4. h \in Conn
    BY <2>1, EndedForm
  <2> HIDE DEF x, h
  <2>5. d \in Clients /\ DOMAIN d.ex = DOMAIN c.ex /\ d.nd.requests = c.nd.requests
        /\ Len(d.nd.conns) = Len(c.nd.conns) /\ d.ex[e] = x
        /\ (\A f \in DOMAIN c.ex : f # e => d.ex[f] = c.ex[f])
        /\ (\A j \in 1 .. Len(c.nd.conns) : j # k => d.nd.conns[j] = c.nd.conns[j])
    <3>1. d.nd \in Node /\ d.nd.requests = c.nd.requests /\ Len(d.nd.conns) = Len(c.nd.conns)
          /\ \A j \in 1 .. Len(c.nd.conns) : j # k => d.nd.conns[j] = c.nd.conns[j]
      BY <1>0, <2>1, <2>22, <2>4, PutConn
    <3>2. d.working \in BOOLEAN
      BY <2>21, ClientForm
    <3> QED
      BY <2>21, <2>23, <2>3, <3>1, <3>2, PutExecutor
  <2>6. OwnConns(d)
    BY <2>3, <2>5 DEF OwnConns
  <2>7. ASSUME NEW f \in DOMAIN c.ex PROVE Same(c.ex[f], d.ex[f]) /\ Carried(d, f) \subseteq Carried(c, f)
    <3>1. CASE f = e
      BY <3>1, <2>3, <2>5 DEF Carried
    <3>2. CASE f # e
      <4>1. c.ex[f].conn \in Nat /\ c.ex[f].conn <= Len(c.nd.conns) /\ c.ex[f].conn # k
        BY <3>2, <1>2, ClientForm DEF OwnConns, Executor
      <4> QED
        BY <3>2, <4>1, <2>5, SameConn, SMTT(60)
    <3> QED
      BY <3>1, <3>2
  <2>8. d.nd.requests >= c.nd.requests
    BY <1>0, <2>5
  <2> QED
    BY <2>3, <2>5, <2>6, <2>7, <2>8 DEF Shrinks, d
<1> QED
  BY <1>1, <1>2

\* Two such steps are one.
LEMMA ShrinksTwice ==
  ASSUME NEW c \in Clients, NEW d, NEW f, Shrinks(c, d), Shrinks(d, f)
  PROVE  Shrinks(c, f)
<1>1. c.nd.requests \in Nat /\ d.nd.requests \in Nat /\ f.nd.requests \in Nat
  BY ClientForm DEF Shrinks
<1>2. f.nd.requests >= c.nd.requests
  BY <1>1 DEF Shrinks
<1>3. \A g \in DOMAIN c.ex : Same(c.ex[g], f.ex[g])
  BY DEF Shrinks, Same
<1> QED
  BY <1>2, <1>3 DEF Shrinks

\* The form of the status window and the flags of an executor carry no request.
LEMMA SetWorking ==
  ASSUME NEW c \in Clients, OwnConns(c), NEW w \in BOOLEAN
  PROVE  Shrinks(c, [c EXCEPT !.working = w]) /\ [c EXCEPT !.working = w].ex = c.ex
         /\ [c EXCEPT !.working = w].nd = c.nd /\ [c EXCEPT !.working = w].working = w
<1> DEFINE d == [c EXCEPT !.working = w]
<1>1. d.ex = c.ex /\ d.nd = c.nd /\ d.working = w
  BY DEF Clients
<1>2. d \in Clients
  BY DEF Clients
<1>3. c.nd.requests \in Nat
  BY ClientForm
<1> HIDE DEF d
<1>4. d.nd.requests >= c.nd.requests /\ OwnConns(d) /\ \A f \in DOMAIN c.ex : Carried(d, f) = Carried(c, f)
  BY <1>1, <1>3 DEF OwnConns, Carried
<1>5. Shrinks(c, d)
  BY <1>1, <1>2, <1>4 DEF Shrinks, Same
<1> QED
  BY <1>1, <1>5 DEF d

\* startConnect gives the executor a connection that carries nothing.
LEMMA NewConn ==
  ASSUME NEW c \in Clients, NEW e \in DOMAIN c.ex, OwnConns(c)
  PROVE  LET d == startConnect(c, e)
         IN  /\ Shrinks(c, d) /\ d.nd.requests = c.nd.requests /\ d.ex[e].missing = c.ex[e].missing
<1> DEFINE y == c.ex[e]
           d == startConnect(c, e)
           N == Len(c.nd.conns) + 1
<1>00. /\ y \in Executor /\ c.nd.requests \in Nat /\ c.nd.sessions \in Nat /\ c.ex \in Seq(Executor)
       /\ c.nd \in Node /\ c.nd.conns \in Seq(Conn)
  BY ClientForm
<1>0. /\ y \in Executor /\ c.nd.requests \in Nat /\ c.nd.sessions \in Nat /\ c.ex \in Seq(Executor)
      /\ c.nd \in Node /\ c.nd.conns \in Seq(Conn) /\ N \in Nat \ {0}
  BY <1>00
<1>01. \A f \in DOMAIN c.ex : c.ex[f].conn \in Nat
  <2>1. \A f \in DOMAIN c.ex : c.ex[f] \in Executor
    BY <1>00
  <2> QED
    BY <2>1, ExecutorForm
<1>02. \A f \in DOMAIN c.ex : c.ex[f].conn <= Len(c.nd.conns)
  BY DEF OwnConns
<1>1. CASE ~c.nd.up
  <2> DEFINE x == [y EXCEPT !.conn = 0]
  <2>1. d = [[c EXCEPT !.working = FALSE] EXCEPT !.ex[e].conn = 0]
    BY <1>1 DEF startConnect, onLostConnection
  <2>2. d.ex = [c.ex EXCEPT ![e] = x] /\ d.nd = c.nd /\ d.working = FALSE
        /\ d = [ex |-> d.ex, nd |-> d.nd, working |-> d.working]
    BY <2>1 DEF Clients
  <2>3. x \in Executor /\ x.conn = 0 /\ Same(c.ex[e], x) /\ InReader(x) = InReader(c.ex[e]) /\ x.missing = y.missing
    BY <1>0 DEF Executor, Same, InReader
  <2> HIDE DEF d, x
  <2>40. d.working \in BOOLEAN /\ d.nd \in Node
    BY <1>0, <2>2
  <2>4. d \in Clients /\ DOMAIN d.ex = DOMAIN c.ex /\ d.ex[e] = x
        /\ \A f \in DOMAIN c.ex : f # e => d.ex[f] = c.ex[f]
    BY <2>2, <2>3, <2>40, PutExecutor
  <2>5. OwnConns(d) /\ d.nd.requests >= c.nd.requests
    BY <1>0, <2>2, <2>3, <2>4 DEF OwnConns
  <2>6. \A f \in DOMAIN c.ex : Same(c.ex[f], d.ex[f]) /\ Carried(d, f) \subseteq Carried(c, f)
    BY <2>2, <2>3, <2>4 DEF Carried, Same
  <2> QED
    BY <2>2, <2>3, <2>4, <2>5, <2>6 DEF Shrinks, d
<1>2. CASE c.nd.up
  <2> DEFINE x == [y EXCEPT !.conn = N]
             g == [sid |-> c.nd.sessions + 1, open |-> TRUE, asks |-> <<>>, stream |-> <<>>, sent |-> 0]
             cs == Append(c.nd.conns, g)
             n == [c.nd EXCEPT !.sessions = @ + 1, !.conns = cs]
  <2>1. d = [ex |-> [c.ex EXCEPT ![e].conn = N],
             nd |-> [c.nd EXCEPT !.sessions = @ + 1, !.conns = Append(@, g)], working |-> FALSE]
    BY <1>2, Zenon DEF startConnect
  <2>2. d.ex = [c.ex EXCEPT ![e] = x] /\ d.nd = n /\ d.working = FALSE
        /\ d = [ex |-> d.ex, nd |-> d.nd, working |-> d.working]
    BY <2>1
  <2>3. x \in Executor /\ x.conn = N /\ Same(c.ex[e], x) /\ InReader(x) = InReader(c.ex[e]) /\ x.missing = y.missing
    BY <1>0 DEF Executor, Same, InReader
  <2>4. g \in Conn /\ g.asks = <<>> /\ g.stream = <<>>
    BY <1>0 DEF Conn
  <2>5. OnConn(g) = {}
    BY <2>4, RangeOfEmpty DEF OnConn
  <2> HIDE DEF g
  <2>6. cs \in Seq(Conn) /\ Len(cs) = N /\ cs[N] = g /\ \A j \in 1 .. Len(c.nd.conns) : cs[j] = c.nd.conns[j]
    BY <1>0, <2>4
  <2> HIDE DEF cs
  <2>7. n \in Node /\ n.requests = c.nd.requests /\ n.conns = cs
    <3>1. [c.nd EXCEPT !.sessions = @ + 1] \in Node
      BY <1>0 DEF Node
    <3>2. n = [[c.nd EXCEPT !.sessions = @ + 1] EXCEPT !.conns = cs]
      BY <1>0 DEF Node
    <3> QED
      BY <1>0, <2>6, <3>1, <3>2 DEF Node
  <2> HIDE DEF d, x, n
  <2>80. d.working \in BOOLEAN /\ d.nd \in Node
    BY <2>2, <2>7
  <2>8. d \in Clients /\ DOMAIN d.ex = DOMAIN c.ex /\ d.ex[e] = x
        /\ \A f \in DOMAIN c.ex : f # e => d.ex[f] = c.ex[f]
    BY <2>2, <2>3, <2>80, PutExecutor
  <2>9. OwnConns(d) /\ d.nd.requests >= c.nd.requests
    <3>1. \A f \in DOMAIN c.ex : c.ex[f].conn \in Nat /\ c.ex[f].conn <= Len(c.nd.conns) /\ c.ex[f].conn # N
      BY <1>0, <1>01, <1>02
    <3>2. \A f, h \in DOMAIN c.ex : c.ex[f].conn = c.ex[h].conn /\ c.ex[f].conn # 0 => f = h
      BY DEF OwnConns
    <3> QED
      BY <1>0, <2>2, <2>3, <2>6, <2>7, <2>8, <3>1, <3>2, SMTT(60) DEF OwnConns
  <2>10. ASSUME NEW f \in DOMAIN c.ex PROVE Same(c.ex[f], d.ex[f]) /\ Carried(d, f) \subseteq Carried(c, f)
    <3>1. CASE f = e
      BY <1>0, <3>1, <2>2, <2>3, <2>5, <2>6, <2>7, <2>8 DEF Carried
    <3>2. CASE f # e
      <4>1. c.ex[f].conn \in Nat /\ c.ex[f].conn <= Len(c.nd.conns)
        BY <1>01, <1>02
      <4>2. c.ex[f].conn # 0 => d.nd.conns[c.ex[f].conn] = c.nd.conns[c.ex[f].conn]
        BY <4>1, <2>2, <2>6, <2>7, SMTT(60)
      <4> QED
        BY <3>2, <4>2, <2>8, SameConn
    <3> QED
      BY <3>1, <3>2
  <2> QED
    BY <2>2, <2>3, <2>7, <2>8, <2>9, <2>10 DEF Shrinks, d
<1> QED
  BY <1>1, <1>2

\* The next request goes out, or is dropped when there is no connection.
LEMMA NetRequest ==
  ASSUME NEW c \in Clients, NEW e \in DOMAIN c.ex, OwnConns(c), NEW req \in Ask
  PROVE  Asks(c, sendNetRequest(c, e, req), e, req)
<1> DEFINE lost == onLostConnection(c)
           conn == startConnect(lost, e)
           b == IF is_connected(c, e) THEN c ELSE conn
           q == [b EXCEPT !.nd.requests = @ + 1]
           d == send_msg(q, e, req)
<1>1. sendNetRequest(c, e, req) = d
  BY Zenon DEF sendNetRequest
<1>2. c.nd.requests \in Nat
  BY ClientForm
<1>3. Shrinks(c, b) /\ b.nd.requests = c.nd.requests
  <2>1. FALSE \in BOOLEAN
    OBVIOUS
  <2>2. Shrinks(c, lost) /\ lost.nd = c.nd
    BY <2>1, SetWorking DEF onLostConnection
  <2>3. lost \in Clients /\ e \in DOMAIN lost.ex /\ OwnConns(lost)
    BY <2>2 DEF Shrinks
  <2>4. Shrinks(lost, conn) /\ conn.nd.requests = lost.nd.requests
    BY <2>3, NewConn
  <2>5. Shrinks(c, conn)
    BY <2>2, <2>4, ShrinksTwice
  <2>6. Shrinks(c, c)
    BY <1>2 DEF Shrinks, Same
  <2> HIDE DEF conn, lost
  <2> QED
    BY <2>2, <2>4, <2>5, <2>6
<1> HIDE DEF b
<1>4. b \in Clients /\ DOMAIN b.ex = DOMAIN c.ex /\ OwnConns(b)
      /\ \A f \in DOMAIN c.ex : Same(c.ex[f], b.ex[f]) /\ Carried(b, f) \subseteq Carried(c, f)
  BY <1>3 DEF Shrinks
<1>5. b.nd \in Node /\ b.nd.conns \in Seq(Conn)
  BY <1>4, ClientForm
<1>6. q.ex = b.ex /\ q.nd = [b.nd EXCEPT !.requests = @ + 1] /\ q.working = b.working
      /\ q = [ex |-> q.ex, nd |-> q.nd, working |-> q.working]
  BY <1>4, SMTT(60) DEF Clients
<1>7. q.nd \in Node /\ q.nd.conns = b.nd.conns /\ q.nd.requests = c.nd.requests + 1
  BY <1>2, <1>3, <1>5, <1>6 DEF Node
<1>8. q \in Clients
  BY <1>4, <1>6, <1>7 DEF Clients
<1> HIDE DEF q
<1>9. OwnConns(q) /\ \A f \in DOMAIN c.ex : Carried(q, f) = Carried(b, f)
  BY <1>4, <1>6, <1>7 DEF OwnConns, Carried
<1>10. CASE ~is_connected(q, e)
  <2>1. d = q
    BY <1>10 DEF send_msg
  <2> QED
    BY <1>1, <1>4, <1>6, <1>7, <1>8, <1>9, <2>1 DEF Asks
<1>11. CASE is_connected(q, e)
  <2> DEFINE k == q.ex[e].conn
             g == q.nd.conns[k]
             h == [g EXCEPT !.asks = Append(@, req)]
  <2>1. k \in Nat /\ k # 0 /\ k <= Len(q.nd.conns)
    BY <1>4, <1>8, <1>9, <1>11, <1>6, ClientForm, ExecutorForm DEF is_connected, OwnConns
  <2>2. k \in 1 .. Len(q.nd.conns) /\ g \in Conn
    BY <2>1, <1>5, <1>7
  <2>3. d = [q EXCEPT !.nd.conns[k].asks = Append(@, req)]
    BY <1>11 DEF send_msg
  <2> HIDE DEF d
  <2>4. d.ex = q.ex /\ d.nd = [q.nd EXCEPT !.conns = [q.nd.conns EXCEPT ![k] = h]] /\ d.working = q.working
        /\ d = [ex |-> d.ex, nd |-> d.nd, working |-> d.working]
    BY <1>8, <2>3 DEF Clients, Node
  <2> HIDE DEF g
  <2>5. g.asks \in Seq(Ask)
    BY <2>2 DEF Conn
  <2>6. Append(g.asks, req) \in Seq(Ask) /\ Range(Append(g.asks, req)) \subseteq Range(g.asks) \cup {req}
    BY <2>5, RangeOfAppend
  <2>7. h \in Conn /\ h.asks = Append(g.asks, req) /\ h.stream = g.stream
    BY <2>2, <2>6 DEF Conn
  <2> HIDE DEF h
  <2>8. OnConn(h) \subseteq OnConn(g) \cup {req}
    BY <2>6, <2>7 DEF OnConn
  <2>9. /\ d.nd \in Node /\ d.nd.requests = q.nd.requests /\ Len(d.nd.conns) = Len(q.nd.conns)
        /\ d.nd.conns[k] = h
        /\ \A j \in 1 .. Len(q.nd.conns) : j # k => d.nd.conns[j] = q.nd.conns[j]
    BY <1>7, <2>2, <2>4, <2>7, PutConn
  <2>10. d \in Clients /\ OwnConns(d)
    BY <1>8, <1>9, <2>4, <2>9 DEF Clients, OwnConns
  <2>11. ASSUME NEW f \in DOMAIN c.ex
         PROVE  /\ Same(c.ex[f], d.ex[f])
                /\ Carried(d, f) \subseteq Carried(c, f) \cup (IF f = e THEN {req} ELSE {})
    <3>1. Same(c.ex[f], d.ex[f])
      BY <1>4, <1>6, <2>4
    <3>2. CASE f = e
      <4>1. Carried(q, e) = InReader(q.ex[e]) \cup OnConn(g)
        BY <2>1 DEF Carried, g
      <4>2. Carried(d, e) = InReader(q.ex[e]) \cup OnConn(h)
        BY <2>1, <2>4, <2>9 DEF Carried
      <4>3. Carried(q, e) \subseteq Carried(c, e)
        BY <1>4, <1>9
      <4> QED
        BY <3>1, <3>2, <4>1, <4>2, <4>3, <2>8
    <3>3. CASE f # e
      <4>1. q.ex[f].conn \in Nat /\ q.ex[f].conn <= Len(q.nd.conns) /\ q.ex[f].conn # k
        BY <3>3, <2>1, <1>4, <1>6, <1>8, <1>9, ClientForm, ExecutorForm DEF OwnConns
      <4>2. Carried(d, f) = Carried(q, f)
        BY <4>1, <2>4, <2>9 DEF Carried
      <4> QED
        BY <3>1, <3>3, <4>2, <1>4, <1>9
    <3> QED
      BY <3>1, <3>2, <3>3
  <2> QED
    BY <1>1, <1>4, <1>6, <1>7, <2>4, <2>9, <2>10, <2>11 DEF Asks, d
<1> QED
  BY <1>10, <1>11

\* A step that changes one executor, and neither its connection nor the node.
LEMMA OneExecutor ==
  ASSUME NEW c \in Clients, OwnConns(c), NEW e \in DOMAIN c.ex, NEW x \in Executor, NEW d,
         d.ex = [c.ex EXCEPT ![e] = x], d.nd = c.nd, d.working \in BOOLEAN,
         d = [ex |-> d.ex, nd |-> d.nd, working |-> d.working],
         x.conn = c.ex[e].conn, InReader(x) \subseteq InReader(c.ex[e])
  PROVE  /\ d \in Clients /\ DOMAIN d.ex = DOMAIN c.ex /\ OwnConns(d) /\ d.ex[e] = x
         /\ \A f \in DOMAIN c.ex : Carried(d, f) \subseteq Carried(c, f)
         /\ \A f \in DOMAIN c.ex : f # e => d.ex[f] = c.ex[f]
<1>1. c.nd \in Node
  BY ClientForm
<1>2. d \in Clients /\ DOMAIN d.ex = DOMAIN c.ex /\ d.ex[e] = x
      /\ \A f \in DOMAIN c.ex : f # e => d.ex[f] = c.ex[f]
  BY <1>1, PutExecutor
<1>3. \A f \in DOMAIN c.ex : d.ex[f].conn = c.ex[f].conn
  BY <1>2
<1>4. OwnConns(d)
  BY <1>2, <1>3 DEF OwnConns
<1>5. \A f \in DOMAIN c.ex : Carried(d, f) \subseteq Carried(c, f)
  BY <1>2 DEF Carried
<1> QED
  BY <1>2, <1>4, <1>5

\* What sendCommand makes of the executor that sends, apart from the connection.
Sends(x, y, id) ==
  /\ y.m_client_name = x.m_client_name
  /\ IF id = NoId
     THEN y.m_counter = x.m_counter /\ y.m_orders = x.m_orders /\ y.clash = x.clash
     ELSE /\ y.m_counter = x.m_counter + 1
          /\ IF id \in DOMAIN x.m_orders THEN y.clash = TRUE
             ELSE y.clash = x.clash /\ DOMAIN y.m_orders = DOMAIN x.m_orders \cup {id}

\* What sendCommand leaves of the ids of the executor, and of what it carries.
LEMMA SentForm ==
  ASSUME NEW c \in Clients, NEW e \in DOMAIN c.ex, OwnConns(c),
         NEW cmd \in Commands, NEW peer \in Vips \cup {NoPeer}, cmd \in NamesPeer => peer \in Vips,
         cmd = "hello" \/ c.ex[e].m_client_name # 0
  PROVE  LET d == sendCommand(c, e, cmd, peer)
             id == NextId(c.ex[e], cmd)
             req == get_str(cmd, id, Serial(c))
         IN  /\ req \in Ask /\ req.n = c.nd.requests + 1 /\ req.cmd = cmd
             /\ req.id = IF cmd = "delete_peer" THEN NoId ELSE id
             /\ d \in Clients /\ DOMAIN d.ex = DOMAIN c.ex /\ OwnConns(d)
             /\ d.nd.requests = c.nd.requests + 1
             /\ Sends(c.ex[e], d.ex[e], id)
             /\ Carried(d, e) \subseteq Carried(c, e) \cup {req}
             /\ \A f \in DOMAIN c.ex \ {e} : Same(c.ex[f], d.ex[f]) /\ Carried(d, f) \subseteq Carried(c, f)
<1> DEFINE id == NextId(c.ex[e], cmd)
           req == get_str(cmd, id, Serial(c))
           o == [cmd |-> cmd, n |-> Serial(c), peer |-> IF cmd = "delete_peer" THEN NoPeer ELSE peer]
           p == prepareCommand(c, e, cmd)
           s == sendNetRequest(p, e, req)
           d == addOrder(s, e, id, o)
           x == c.ex[e]
<1>1. sendCommand(c, e, cmd, peer) = d
  BY Zenon DEF sendCommand
<1>2. x \in Executor /\ c.nd \in Node /\ c.nd.requests \in Nat /\ c.ex \in Seq(Executor) /\ c.working \in BOOLEAN
  BY ClientForm
<1>3. x.m_client_name \in Nat /\ x.m_counter \in Nat
  BY <1>2, ExecutorForm
<1>4. id \in {NoId} \cup Id /\ (id = NoId <=> cmd = "hello")
      /\ (cmd # "hello" => id \in Id /\ id = <<x.m_client_name, x.m_counter>>)
  BY <1>3 DEF NextId, Id, NoId
<1>5. Serial(c) \in Nat /\ Serial(c) = c.nd.requests + 1
  BY <1>2 DEF Serial
<1> HIDE DEF id
<1>6. req \in Ask /\ req.n = c.nd.requests + 1 /\ req.cmd = cmd
      /\ req.id = IF cmd = "delete_peer" THEN NoId ELSE id
  BY <1>4, <1>5 DEF get_str, Ask
<1>7. o \in Order
  <2>1. CASE cmd \in NamesPeer
    BY <2>1, <1>5 DEF Order, RowOrder, NamesPeer
  <2>2. CASE cmd \notin NamesPeer
    BY <2>2, <1>5 DEF Order, OtherOrder
  <2> QED
    BY <2>1, <2>2
<1> HIDE DEF req, o
<1>8. /\ p \in Clients /\ DOMAIN p.ex = DOMAIN c.ex /\ OwnConns(p) /\ p.nd.requests = c.nd.requests
      /\ p.ex[e].m_client_name = x.m_client_name /\ p.ex[e].m_orders = x.m_orders /\ p.ex[e].clash = x.clash
      /\ p.ex[e].m_counter = IF id = NoId THEN x.m_counter ELSE x.m_counter + 1
      /\ \A f \in DOMAIN c.ex : Carried(p, f) \subseteq Carried(c, f)
      /\ \A f \in DOMAIN c.ex : f # e => p.ex[f] = c.ex[f]
  <2>1. CASE cmd = "hello"
    BY <2>1, <1>4 DEF prepareCommand
  <2>2. CASE cmd # "hello"
    <3> DEFINE z == x.m_counter + 1
               y == [x EXCEPT !.m_counter = z]
    <3>1. p = [c EXCEPT !.ex[e].m_counter = @ + 1]
      BY <2>2 DEF prepareCommand
    <3>2. p.ex = [c.ex EXCEPT ![e] = y] /\ p.nd = c.nd /\ p.working = c.working
          /\ p = [ex |-> p.ex, nd |-> p.nd, working |-> p.working]
      BY <3>1 DEF Clients
    <3>3. y \in Executor /\ y.conn = x.conn /\ InReader(y) = InReader(x)
          /\ y.m_client_name = x.m_client_name /\ y.m_orders = x.m_orders /\ y.clash = x.clash
          /\ y.m_counter = x.m_counter + 1
      <4>1. z \in Nat
        BY <1>3
      <4> HIDE DEF z
      <4>2. y \in Executor /\ y.conn = x.conn /\ InReader(y) = InReader(x)
            /\ y.m_client_name = x.m_client_name /\ y.m_orders = x.m_orders /\ y.clash = x.clash
            /\ y.m_counter = z
        BY <1>2, <4>1 DEF Executor, InReader
      <4> QED
        BY <4>2 DEF z
    <3> HIDE DEF y, p
    <3>4. p.working \in BOOLEAN
      BY <1>2, <3>2
    <3>5. /\ p \in Clients /\ DOMAIN p.ex = DOMAIN c.ex /\ OwnConns(p) /\ p.ex[e] = y
          /\ \A f \in DOMAIN c.ex : Carried(p, f) \subseteq Carried(c, f)
          /\ \A f \in DOMAIN c.ex : f # e => p.ex[f] = c.ex[f]
      BY <3>2, <3>3, <3>4, OneExecutor
    <3> QED
      BY <2>2, <1>4, <3>2, <3>3, <3>5
  <2> QED
    BY <2>1, <2>2
<1> HIDE DEF p
<1>9. /\ s \in Clients /\ DOMAIN s.ex = DOMAIN c.ex /\ OwnConns(s) /\ s.nd.requests = c.nd.requests + 1
      /\ \A f \in DOMAIN c.ex :
           /\ Same(p.ex[f], s.ex[f])
           /\ Carried(s, f) \subseteq Carried(p, f) \cup (IF f = e THEN {req} ELSE {})
  <2>1. Asks(p, s, e, req)
    BY <1>6, <1>8, NetRequest
  <2> QED
    BY <2>1, <1>8 DEF Asks
<1> HIDE DEF s
<1>10. /\ s.ex[e].m_client_name = x.m_client_name /\ s.ex[e].m_orders = x.m_orders /\ s.ex[e].clash = x.clash
       /\ s.ex[e].m_counter = IF id = NoId THEN x.m_counter ELSE x.m_counter + 1
       /\ Carried(s, e) \subseteq Carried(c, e) \cup {req}
       /\ \A f \in DOMAIN c.ex \ {e} : Same(c.ex[f], s.ex[f]) /\ Carried(s, f) \subseteq Carried(c, f)
  <2>1. Same(p.ex[e], s.ex[e]) /\ Carried(s, e) \subseteq Carried(p, e) \cup {req}
    BY <1>9
  <2>2. ASSUME NEW f \in DOMAIN c.ex \ {e} PROVE Same(c.ex[f], s.ex[f]) /\ Carried(s, f) \subseteq Carried(c, f)
    BY <1>8, <1>9
  <2> QED
    BY <1>8, <2>1, <2>2 DEF Same
<1>11. s.ex[e] \in Executor /\ s.working \in BOOLEAN
  BY <1>9, ClientForm
<1>12. /\ d \in Clients /\ DOMAIN d.ex = DOMAIN s.ex /\ OwnConns(d) /\ d.nd = s.nd
       /\ Sends(x, d.ex[e], id)
       /\ \A f \in DOMAIN s.ex : Carried(d, f) \subseteq Carried(s, f)
       /\ \A f \in DOMAIN s.ex : f # e => d.ex[f] = s.ex[f]
  <2>1. CASE id = NoId
    <3>1. d = s
      BY <2>1 DEF addOrder
    <3> QED
      BY <2>1, <3>1, <1>9, <1>10 DEF Sends
  <2>2. CASE id # NoId /\ id \in DOMAIN s.ex[e].m_orders
    <3> DEFINE y == [s.ex[e] EXCEPT !.clash = TRUE]
    <3>1. d = [s EXCEPT !.ex[e].clash = TRUE]
      BY <2>2 DEF addOrder
    <3>2. d.ex = [s.ex EXCEPT ![e] = y] /\ d.nd = s.nd /\ d.working = s.working
          /\ d = [ex |-> d.ex, nd |-> d.nd, working |-> d.working]
      BY <1>9, <3>1 DEF Clients
    <3>3. y \in Executor /\ y.conn = s.ex[e].conn /\ InReader(y) = InReader(s.ex[e])
          /\ y.m_client_name = s.ex[e].m_client_name /\ y.m_orders = s.ex[e].m_orders /\ y.clash = TRUE
          /\ y.m_counter = s.ex[e].m_counter
      BY <1>11 DEF Executor, InReader
    <3> HIDE DEF y, d
    <3>4. d.working \in BOOLEAN
      BY <1>11, <3>2
    <3>5. /\ d \in Clients /\ DOMAIN d.ex = DOMAIN s.ex /\ OwnConns(d) /\ d.ex[e] = y
          /\ \A f \in DOMAIN s.ex : Carried(d, f) \subseteq Carried(s, f)
          /\ \A f \in DOMAIN s.ex : f # e => d.ex[f] = s.ex[f]
      BY <1>9, <3>2, <3>3, <3>4, OneExecutor
    <3>6. Sends(x, d.ex[e], id)
      BY <2>2, <1>10, <3>3, <3>5 DEF Sends
    <3> QED
      BY <3>2, <3>5, <3>6
  <2>3. CASE id # NoId /\ id \notin DOMAIN s.ex[e].m_orders
    <3> DEFINE m == s.ex[e].m_orders
               w == [i \in DOMAIN m \cup {id} |-> IF i = id THEN o ELSE m[i]]
               y == [s.ex[e] EXCEPT !.m_orders = w]
    <3>1. d = [s EXCEPT !.ex[e].m_orders = [i \in DOMAIN @ \cup {id} |-> IF i = id THEN o ELSE @[i]]]
      BY <2>3 DEF addOrder
    <3>2. d.ex = [s.ex EXCEPT ![e] = y] /\ d.nd = s.nd /\ d.working = s.working
          /\ d = [ex |-> d.ex, nd |-> d.nd, working |-> d.working]
      BY <1>9, <3>1 DEF Clients
    <3>3. m \in Orders /\ id \in Id
      BY <1>4, <1>11, <2>3, ExecutorForm
    <3>4. w \in Orders /\ DOMAIN w = DOMAIN m \cup {id}
      BY <1>7, <3>3, OrdersAdd
    <3> HIDE DEF w, m
    <3>5. y \in Executor /\ y.conn = s.ex[e].conn /\ InReader(y) = InReader(s.ex[e])
          /\ y.m_client_name = s.ex[e].m_client_name /\ y.m_orders = w /\ y.clash = s.ex[e].clash
          /\ y.m_counter = s.ex[e].m_counter
      BY <1>11, <3>4 DEF Executor, InReader
    <3> HIDE DEF y, d
    <3>6. d.working \in BOOLEAN
      BY <1>11, <3>2
    <3>7. /\ d \in Clients /\ DOMAIN d.ex = DOMAIN s.ex /\ OwnConns(d) /\ d.ex[e] = y
          /\ \A f \in DOMAIN s.ex : Carried(d, f) \subseteq Carried(s, f)
          /\ \A f \in DOMAIN s.ex : f # e => d.ex[f] = s.ex[f]
      BY <1>9, <3>2, <3>5, <3>6, OneExecutor
    <3>8. Sends(x, d.ex[e], id)
      BY <2>3, <1>10, <3>4, <3>5, <3>7 DEF Sends, m
    <3> QED
      BY <3>2, <3>7, <3>8
  <2> QED
    BY <2>1, <2>2, <2>3
<1> HIDE DEF d
<1>13. Carried(d, e) \subseteq Carried(c, e) \cup {req}
  BY <1>9, <1>10, <1>12
<1>14. ASSUME NEW f \in DOMAIN c.ex \ {e} PROVE Same(c.ex[f], d.ex[f]) /\ Carried(d, f) \subseteq Carried(c, f)
  BY <1>9, <1>10, <1>12
<1>15. d.nd.requests = c.nd.requests + 1 /\ DOMAIN d.ex = DOMAIN c.ex
  BY <1>9, <1>12
<1> QED
  BY <1>1, <1>6, <1>12, <1>13, <1>14, <1>15 DEF req, id

\* A command that is sent keeps what holds of the client.
LEMMA SendKeeps ==
  ASSUME NEW c \in Clients, NEW e \in DOMAIN c.ex, NEW done \in Seq(Nat), ClientOK(c, done),
         NEW cmd \in Commands, NEW peer \in Vips \cup {NoPeer}, cmd \in NamesPeer => peer \in Vips,
         c.ex[e].m_counter > 0 \/ cmd \in {"get_status", "hello"} \/ c.ex[e].m_client_name = 0
  PROVE  LET d == sendCommand(c, e, cmd, peer)
         IN  /\ d \in Clients /\ DOMAIN d.ex = DOMAIN c.ex /\ ClientOK(d, done)
             /\ (\A f \in DOMAIN c.ex : c.ex[f].clash => d.ex[f].clash)
             /\ (\A f \in DOMAIN c.ex \ {e} : c.ex[f].m_client_name # 0 => c.ex[f].m_counter > 0)
                  /\ (c.ex[e].m_client_name # 0 => c.ex[e].m_counter > 0 \/ cmd # "hello")
                  => CounterOK(d)
<1> DEFINE x == c.ex[e]
           d == sendCommand(c, e, cmd, peer)
           id == NextId(x, cmd)
           req == get_str(cmd, id, Serial(c))
           y == d.ex[e]
<1>0. OwnConns(c) /\ OwnNumbers(c) /\ DeletesHaveNoId(c) /\ IdsOK(c) /\ AppliedOK(c, done)
  BY DEF ClientOK
<1>00. x \in Executor /\ x.m_client_name \in Nat /\ x.m_counter \in Nat /\ c.nd.requests \in Nat
  BY ClientForm, ExecutorForm
<1>1. CASE cmd # "hello" /\ x.m_client_name = 0
  <2>1. d = c
    BY <1>1 DEF sendCommand
  <2> HIDE DEF d
  <2> QED
    BY <2>1, <1>1 DEF d, CounterOK
<1>2. CASE cmd = "hello" \/ x.m_client_name # 0
  <2>1. /\ req \in Ask /\ req.n = c.nd.requests + 1 /\ req.cmd = cmd
        /\ req.id = IF cmd = "delete_peer" THEN NoId ELSE id
        /\ d \in Clients /\ DOMAIN d.ex = DOMAIN c.ex /\ OwnConns(d)
        /\ d.nd.requests = c.nd.requests + 1
        /\ Sends(x, y, id)
        /\ Carried(d, e) \subseteq Carried(c, e) \cup {req}
        /\ \A f \in DOMAIN c.ex \ {e} : Same(c.ex[f], d.ex[f]) /\ Carried(d, f) \subseteq Carried(c, f)
    BY <1>0, <1>2, SentForm
  <2>2. (id = NoId <=> cmd = "hello") /\ (cmd # "hello" => id = <<x.m_client_name, x.m_counter>>)
    BY <1>00 DEF NextId, NoId
  <2> HIDE DEF d, req, id, y
  <2>3. \A f \in DOMAIN c.ex : \A r \in Carried(c, f) : r \in Ask /\ r.n \in Nat /\ r.n <= c.nd.requests
    BY <1>0, CarriedAreAsks DEF OwnNumbers, Ask
  <2>4. \A f \in DOMAIN c.ex : \A r \in Carried(d, f) : r \in Carried(c, f) \/ (f = e /\ r = req)
    BY <2>1
  <2>5. OwnNumbers(d)
    <3>1. \A f \in DOMAIN c.ex : \A r \in Carried(d, f) : r.n <= d.nd.requests
      BY <1>00, <2>1, <2>3, <2>4
    <3>2. \A f \in DOMAIN c.ex : \A r \in Carried(c, f) : r.n # req.n
      BY <1>00, <2>1, <2>3
    <3>3. \A f, g \in DOMAIN c.ex : \A r \in Carried(c, f), s \in Carried(c, g) : r.n = s.n => f = g /\ r.id = s.id
      BY <1>0 DEF OwnNumbers
    <3>4. \A f, g \in DOMAIN c.ex : \A r \in Carried(d, f), s \in Carried(d, g) : r.n = s.n => f = g /\ r.id = s.id
      BY <2>4, <3>2, <3>3
    <3> QED
      BY <2>1, <3>1, <3>4 DEF OwnNumbers
  <2>6. DeletesHaveNoId(d)
    BY <1>0, <2>1, <2>4 DEF DeletesHaveNoId
  <2>7. \A f \in DOMAIN c.ex : c.ex[f].clash => d.ex[f].clash
    BY <2>1 DEF Same, Sends, y
  <2>8. ASSUME NEW f \in DOMAIN c.ex \ {e}, ~d.ex[f].clash, NEW r \in Carried(d, f)
        PROVE  IdOK(d.ex[f], r) /\ (r.n \in Range(done) => r.id \notin DOMAIN d.ex[f].m_orders)
    BY <2>8, <1>0, <2>1, <2>4 DEF IdsOK, AppliedOK, IdOK, Same
  <2>9. \A i \in DOMAIN done : done[i] <= c.nd.requests /\ done[i] \in Nat
    BY <1>0 DEF AppliedOK
  <2>10. req.n \notin Range(done)
    BY <1>00, <2>1, <2>9 DEF Range
  <2>11. ASSUME ~y.clash, NEW r \in Carried(c, e)
         PROVE  IdOK(y, r) /\ (r.n \in Range(done) => r.id \notin DOMAIN y.m_orders)
    <3>1. ~x.clash /\ IdOK(x, r) /\ (r.n \in Range(done) => r.id \notin DOMAIN x.m_orders)
      BY <2>11, <1>0, <2>7 DEF IdsOK, AppliedOK, y
    <3>2. CASE id = NoId
      BY <3>1, <3>2, <2>1 DEF Sends, IdOK
    <3>3. CASE id # NoId
      <4>1. /\ id \notin DOMAIN x.m_orders /\ id = <<x.m_client_name, x.m_counter>>
            /\ y.m_client_name = x.m_client_name /\ y.m_counter = x.m_counter + 1
            /\ DOMAIN y.m_orders = DOMAIN x.m_orders \cup {id}
        BY <3>3, <2>1, <2>2, <2>11 DEF Sends
      <4>2. r.id # NoId /\ r.id[1] = x.m_client_name => x.m_counter > 0 /\ r.id[2] < x.m_counter
        <5> SUFFICES ASSUME r.id # NoId, r.id[1] = x.m_client_name PROVE x.m_counter > 0 /\ r.id[2] < x.m_counter
          OBVIOUS
        <5>1. <<x.m_client_name, 0>> \in DOMAIN x.m_orders
          BY <3>1 DEF IdOK
        <5>2. x.m_counter # 0
          BY <4>1, <5>1
        <5> QED
          BY <1>00, <3>1, <5>2 DEF IdOK
      <4>3. r.id = NoId \/ r.id \in Id
        BY <2>3 DEF Ask
      <4>4. r.id # id
        BY <1>00, <4>1, <4>2, <4>3, <3>3 DEF Id
      <4>5. IdOK(y, r)
        BY <1>00, <3>1, <4>1, <4>2, <4>3 DEF IdOK, Id
      <4> QED
        BY <3>1, <4>1, <4>4, <4>5
    <3> QED
      BY <3>2, <3>3
  <2>12. ASSUME ~y.clash PROVE IdOK(y, req)
    <3>1. CASE req.id = NoId
      BY <3>1 DEF IdOK
    <3>2. CASE req.id # NoId
      <4>1. cmd # "delete_peer" /\ req.id = id /\ cmd # "hello"
        BY <3>2, <2>1, <2>2
      <4>2. /\ id \notin DOMAIN x.m_orders /\ id = <<x.m_client_name, x.m_counter>>
            /\ y.m_client_name = x.m_client_name /\ y.m_counter = x.m_counter + 1
            /\ DOMAIN y.m_orders = DOMAIN x.m_orders \cup {id}
        BY <4>1, <2>1, <2>2, <2>12 DEF Sends
      <4>3. x.m_client_name # 0
        BY <4>1, <1>2
      <4>4. x.m_counter = 0 => cmd = "get_status"
        BY <4>1, <4>3
      <4>5. <<x.m_client_name, 0>> \in DOMAIN y.m_orders
        <5>1. CASE x.m_counter = 0
          BY <4>2, <5>1
        <5>2. CASE x.m_counter > 0
          <6>1. ~x.clash
            BY <2>12, <2>7 DEF y
          <6> QED
            BY <1>0, <4>2, <4>3, <5>2, <6>1 DEF IdsOK, FirstOK
        <5> QED
          BY <1>00, <5>1, <5>2
      <4> QED
        BY <1>00, <2>1, <4>1, <4>2, <4>3, <4>4, <4>5 DEF IdOK
    <3> QED
      BY <3>1, <3>2
  <2>13. ASSUME ~y.clash PROVE FirstOK(y)
    <3>1. ~x.clash
      BY <2>13, <2>7 DEF y
    <3>2. FirstOK(x)
      BY <1>0, <3>1 DEF IdsOK
    <3>3. CASE id = NoId
      BY <3>2, <3>3, <2>1 DEF Sends, FirstOK
    <3>4. CASE id # NoId
      <4>1. /\ id = <<x.m_client_name, x.m_counter>> /\ y.m_client_name = x.m_client_name
            /\ DOMAIN y.m_orders = DOMAIN x.m_orders \cup {id}
        BY <3>4, <2>1, <2>2, <2>13 DEF Sends
      <4> QED
        BY <1>00, <3>2, <4>1 DEF FirstOK
    <3> QED
      BY <3>3, <3>4
  <2>14. IdsOK(d)
    <3> SUFFICES ASSUME NEW f \in DOMAIN c.ex, ~d.ex[f].clash
                 PROVE  FirstOK(d.ex[f]) /\ \A r \in Carried(d, f) : IdOK(d.ex[f], r)
      BY <2>1 DEF IdsOK
    <3>1. CASE f = e
      BY <3>1, <2>4, <2>11, <2>12, <2>13 DEF y
    <3>2. CASE f # e
      <4>1. FirstOK(c.ex[f]) /\ Same(c.ex[f], d.ex[f])
        BY <3>2, <1>0, <2>1, <2>7 DEF IdsOK, Same
      <4> QED
        BY <3>2, <2>8, <4>1 DEF FirstOK, Same
    <3> QED
      BY <3>1, <3>2
  <2>15. AppliedOK(d, done)
    <3>1. \A i \in DOMAIN done : done[i] <= d.nd.requests
      BY <1>00, <2>1, <2>9
    <3>2. ASSUME NEW f \in DOMAIN c.ex, ~d.ex[f].clash, NEW r \in Carried(d, f), r.n \in Range(done)
          PROVE  r.id \notin DOMAIN d.ex[f].m_orders
      <4>1. CASE f = e
        BY <3>2, <4>1, <2>4, <2>10, <2>11 DEF y
      <4>2. CASE f # e
        BY <3>2, <4>2, <2>8
      <4> QED
        BY <4>1, <4>2
    <3> QED
      BY <2>1, <3>1, <3>2 DEF AppliedOK
  <2>16. ASSUME \A f \in DOMAIN c.ex \ {e} : c.ex[f].m_client_name # 0 => c.ex[f].m_counter > 0,
                x.m_client_name # 0 => x.m_counter > 0 \/ cmd # "hello"
         PROVE  CounterOK(d)
    <3>1. y.m_client_name # 0 => y.m_counter > 0
      <4>1. CASE id = NoId
        BY <4>1, <2>16, <2>1, <2>2 DEF Sends
      <4>2. CASE id # NoId
        BY <4>2, <1>00, <2>1 DEF Sends
      <4> QED
        BY <4>1, <4>2
    <3>2. \A f \in DOMAIN c.ex \ {e} : d.ex[f].m_client_name # 0 => d.ex[f].m_counter > 0
      BY <2>16, <2>1 DEF Same
    <3> QED
      BY <2>1, <3>1, <3>2 DEF CounterOK, y
  <2>17. ClientOK(d, done)
    BY <2>1, <2>5, <2>6, <2>14, <2>15 DEF ClientOK
  <2> QED
    BY <2>1, <2>7, <2>16, <2>17 DEF d
<1> QED
  BY <1>1, <1>2

\* A step of one executor that changes no id of it.
LEMMA FlagsShrink ==
  ASSUME NEW c \in Clients, OwnConns(c), NEW e \in DOMAIN c.ex, NEW x \in Executor, NEW d,
         d.ex = [c.ex EXCEPT ![e] = x], d.nd = c.nd, d.working \in BOOLEAN,
         d = [ex |-> d.ex, nd |-> d.nd, working |-> d.working],
         x.conn = c.ex[e].conn, InReader(x) \subseteq InReader(c.ex[e]), Same(c.ex[e], x)
  PROVE  Shrinks(c, d)
<1>1. /\ d \in Clients /\ DOMAIN d.ex = DOMAIN c.ex /\ OwnConns(d) /\ d.ex[e] = x
      /\ \A f \in DOMAIN c.ex : Carried(d, f) \subseteq Carried(c, f)
      /\ \A f \in DOMAIN c.ex : f # e => d.ex[f] = c.ex[f]
  BY OneExecutor
<1>2. \A f \in DOMAIN c.ex : Same(c.ex[f], d.ex[f])
  BY <1>1 DEF Same
<1>3. c.nd.requests \in Nat
  BY ClientForm
<1>4. d.nd.requests >= c.nd.requests
  BY <1>3
<1> QED
  BY <1>1, <1>2, <1>4 DEF Shrinks

\* A request without an id keeps a client well.
LEMMA AsksKeeps ==
  ASSUME NEW c \in Clients, NEW e \in DOMAIN c.ex, NEW done \in Seq(Nat), ClientOK(c, done), CounterOK(c),
         NEW d, NEW req \in Ask, req.id = NoId, req.n = c.nd.requests + 1, Asks(c, d, e, req)
  PROVE  ClientOK(d, done) /\ CounterOK(d)
<1>0. OwnConns(c) /\ OwnNumbers(c) /\ DeletesHaveNoId(c) /\ IdsOK(c) /\ AppliedOK(c, done)
  BY DEF ClientOK
<1>1. /\ d \in Clients /\ DOMAIN d.ex = DOMAIN c.ex /\ OwnConns(d)
      /\ d.nd.requests = c.nd.requests + 1
      /\ \A f \in DOMAIN c.ex : Same(c.ex[f], d.ex[f])
      /\ \A f \in DOMAIN c.ex : \A r \in Carried(d, f) : r \in Carried(c, f) \/ (f = e /\ r = req)
  BY DEF Asks
<1>2. c.nd.requests \in Nat
  BY ClientForm
<1>3. \A f \in DOMAIN c.ex : \A r \in Carried(c, f) : r \in Ask /\ r.n \in Nat /\ r.n <= c.nd.requests
  BY <1>0, CarriedAreAsks DEF OwnNumbers, Ask
<1>4. OwnNumbers(d)
  <2>1. \A f \in DOMAIN c.ex : \A r \in Carried(d, f) : r.n <= d.nd.requests
    BY <1>1, <1>2, <1>3
  <2>2. \A f \in DOMAIN c.ex : \A r \in Carried(c, f) : r.n # req.n
    BY <1>2, <1>3
  <2>3. \A f, g \in DOMAIN c.ex : \A r \in Carried(c, f), s \in Carried(c, g) : r.n = s.n => f = g /\ r.id = s.id
    BY <1>0 DEF OwnNumbers
  <2>4. \A f, g \in DOMAIN c.ex : \A r \in Carried(d, f), s \in Carried(d, g) : r.n = s.n => f = g /\ r.id = s.id
    BY <1>1, <2>2, <2>3
  <2> QED
    BY <1>1, <2>1, <2>4 DEF OwnNumbers
<1>5. DeletesHaveNoId(d)
  BY <1>0, <1>1 DEF DeletesHaveNoId
<1>6. IdsOK(d)
  <2>1. \A x, y, r : Same(x, y) => (IdOK(x, r) => IdOK(y, r)) /\ (FirstOK(x) => FirstOK(y)) /\ y.clash = x.clash
    BY DEF Same, IdOK, FirstOK
  <2>2. \A x : IdOK(x, req)
    BY DEF IdOK
  <2> QED
    BY <1>0, <1>1, <2>1, <2>2, ZenonT(60) DEF IdsOK
<1>7. AppliedOK(d, done)
  <2>1. \A i \in DOMAIN done : done[i] <= c.nd.requests /\ done[i] \in Nat
    BY <1>0 DEF AppliedOK
  <2>2. \A i \in DOMAIN done : done[i] <= d.nd.requests
    BY <1>1, <1>2, <2>1
  <2>3. req.n \notin Range(done)
    BY <1>2, <2>1 DEF Range
  <2>4. \A f \in DOMAIN c.ex : ~c.ex[f].clash =>
          \A r \in Carried(c, f) : r.n \in Range(done) => r.id \notin DOMAIN c.ex[f].m_orders
    BY <1>0 DEF AppliedOK
  <2>5. \A f \in DOMAIN c.ex : d.ex[f].clash = c.ex[f].clash /\ d.ex[f].m_orders = c.ex[f].m_orders
    BY <1>1 DEF Same
  <2> QED
    BY <1>1, <2>2, <2>3, <2>4, <2>5 DEF AppliedOK
<1>8. CounterOK(d)
  BY <1>1 DEF CounterOK, Same
<1> QED
  BY <1>1, <1>4, <1>5, <1>6, <1>7, <1>8 DEF ClientOK

\* A new executor, or one that connects again, says hello.
LEMMA HelloKeeps ==
  ASSUME NEW c \in Clients, NEW e \in DOMAIN c.ex, NEW done \in Seq(Nat), ClientOK(c, done), CounterOK(c)
  PROVE  LET d == startCommunication(c, e)
         IN  d \in Clients /\ DOMAIN d.ex = DOMAIN c.ex /\ ClientOK(d, done) /\ CounterOK(d)
             /\ \A f \in DOMAIN c.ex : d.ex[f].clash = c.ex[f].clash
<1> DEFINE req == [cmd |-> "hello", id |-> NoId, n |-> Serial(c)]
           s == sendNetRequest(c, e, req)
           x == [s.ex[e] EXCEPT !.m_wait_name_flag = TRUE]
           d == startCommunication(c, e)
<1>0. OwnConns(c) /\ c.nd.requests \in Nat
  BY ClientForm DEF ClientOK
<1>1. req \in Ask /\ req.id = NoId /\ req.n = c.nd.requests + 1
  BY <1>0 DEF Ask, Serial, Commands
<1>2. d = [s EXCEPT !.ex[e].m_wait_name_flag = TRUE]
  BY Zenon DEF startCommunication
<1> HIDE DEF req
<1>3. Asks(c, s, e, req)
  BY <1>0, <1>1, NetRequest
<1> HIDE DEF s, d
<1>4. ClientOK(s, done) /\ CounterOK(s)
  BY <1>1, <1>3, AsksKeeps
<1>5. s \in Clients /\ DOMAIN s.ex = DOMAIN c.ex /\ OwnConns(s)
      /\ \A f \in DOMAIN c.ex : s.ex[f].clash = c.ex[f].clash
  BY <1>3 DEF Asks, Same
<1>6. d.ex = [s.ex EXCEPT ![e] = x] /\ d.nd = s.nd /\ d.working = s.working
      /\ d = [ex |-> d.ex, nd |-> d.nd, working |-> d.working]
  BY <1>2, <1>5 DEF Clients
<1>7. s.ex[e] \in Executor /\ s.working \in BOOLEAN
  BY <1>5, ClientForm
<1>8. x \in Executor /\ x.conn = s.ex[e].conn /\ InReader(x) = InReader(s.ex[e]) /\ Same(s.ex[e], x)
  BY <1>7 DEF Executor, InReader, Same
<1> HIDE DEF x
<1>9. d.working \in BOOLEAN
  BY <1>6, <1>7
<1>10. Shrinks(s, d)
  BY <1>5, <1>6, <1>8, <1>9, FlagsShrink
<1>11. ClientOK(d, done) /\ CounterOK(d)
  BY <1>4, <1>5, <1>10, ShrinksKeeps
<1>12. d \in Clients /\ DOMAIN d.ex = DOMAIN c.ex
  BY <1>5, <1>10 DEF Shrinks
<1>13. \A f \in DOMAIN c.ex : d.ex[f].clash = c.ex[f].clash
  BY <1>5, <1>10 DEF Shrinks, Same
<1> QED
  BY <1>11, <1>12, <1>13 DEF d

\* The answer to hello: the executor takes the name, then asks for the status.
LEMMA NameKeeps ==
  ASSUME NEW c \in Clients, NEW e \in DOMAIN c.ex, NEW done \in Seq(Nat), ClientOK(c, done), CounterOK(c),
         NEW name \in Nat
  PROVE  LET d == setSenderRpcName(c, e, name)
         IN  d \in Clients /\ DOMAIN d.ex = DOMAIN c.ex /\ ClientOK(d, done) /\ CounterOK(d)
             /\ \A f \in DOMAIN c.ex : c.ex[f].clash => d.ex[f].clash
<1> DEFINE x == c.ex[e]
           y == [setRpcName(x, name) EXCEPT !.m_wait_name_flag = FALSE]
           v == onGetSessionId(c)
           b == [v EXCEPT !.ex[e] = [setRpcName(@, name) EXCEPT !.m_wait_name_flag = FALSE]]
           s == sendCommand(b, e, "get_status", NoPeer)
           z == [s.ex[e] EXCEPT !.m_timer = TRUE]
           d == setSenderRpcName(c, e, name)
<1>0. OwnConns(c) /\ OwnNumbers(c) /\ DeletesHaveNoId(c) /\ IdsOK(c) /\ AppliedOK(c, done)
  BY DEF ClientOK
<1>1. x \in Executor /\ c.nd \in Node /\ c.working \in BOOLEAN
  BY ClientForm
<1>2. x.m_client_name \in Nat /\ x.m_counter \in Nat
  BY <1>1, ExecutorForm
<1>3. /\ y \in Executor /\ y.conn = x.conn /\ InReader(y) = InReader(x)
      /\ y.m_orders = x.m_orders /\ y.clash = x.clash /\ y.m_client_name = name
      /\ y.m_counter = IF name = x.m_client_name THEN x.m_counter ELSE 0
  <2>1. CASE x.m_client_name = name
    <3>1. y = [x EXCEPT !.m_wait_name_flag = FALSE]
      BY <2>1 DEF setRpcName
    <3> QED
      BY <1>1, <2>1, <3>1 DEF Executor, InReader
  <2>2. CASE x.m_client_name # name
    <3> DEFINE u == [x EXCEPT !.m_client_name = name, !.m_counter = 0]
    <3>1. y = [u EXCEPT !.m_wait_name_flag = FALSE]
      BY <2>2 DEF setRpcName
    <3>2. /\ u \in Executor /\ u.conn = x.conn /\ u.m_internal_buffer = x.m_internal_buffer
          /\ u.m_last_command = x.m_last_command /\ u.back = x.back
          /\ u.m_orders = x.m_orders /\ u.clash = x.clash /\ u.m_client_name = name /\ u.m_counter = 0
      BY <1>1 DEF Executor
    <3> HIDE DEF u
    <3> QED
      BY <2>2, <3>1, <3>2 DEF Executor, InReader
  <2> QED
    BY <2>1, <2>2
<1>4. d = [s EXCEPT !.ex[e].m_timer = TRUE]
  BY Zenon DEF setSenderRpcName
<1>5. b.ex = [c.ex EXCEPT ![e] = y] /\ b.nd = c.nd /\ b.working = TRUE
      /\ b = [ex |-> b.ex, nd |-> b.nd, working |-> b.working]
  <2>1. v \in Clients /\ v.ex = c.ex /\ v.nd = c.nd /\ v.working = TRUE
    BY DEF Clients, onGetSessionId
  <2> DEFINE yy == [setRpcName(v.ex[e], name) EXCEPT !.m_wait_name_flag = FALSE]
  <2>2. yy = y
    BY <2>1
  <2>3. b = [v EXCEPT !.ex[e] = yy]
    BY Zenon
  <2> HIDE DEF v, y, yy, b
  <2>4. b.ex = [v.ex EXCEPT ![e] = yy] /\ b.nd = v.nd /\ b.working = v.working
        /\ b = [ex |-> b.ex, nd |-> b.nd, working |-> b.working]
    BY <2>1, <2>3 DEF Clients
  <2> QED
    BY <2>1, <2>2, <2>4
<1> HIDE DEF y
<1> HIDE DEF b
<1>6. b.working \in BOOLEAN
  BY <1>5
<1>7. /\ b \in Clients /\ DOMAIN b.ex = DOMAIN c.ex /\ OwnConns(b) /\ b.ex[e] = y
      /\ \A f \in DOMAIN c.ex : Carried(b, f) \subseteq Carried(c, f)
      /\ \A f \in DOMAIN c.ex : f # e => b.ex[f] = c.ex[f]
  <2>1. y \in Executor /\ y.conn = c.ex[e].conn /\ InReader(y) \subseteq InReader(c.ex[e])
    BY <1>3
  <2> HIDE DEF x
  <2> QED
    BY <1>0, <1>5, <1>6, <2>1, OneExecutor
<1>8. \A f \in DOMAIN c.ex : \A r \in Carried(b, f) : r \in Carried(c, f)
  BY <1>7
<1>9. OwnNumbers(b) /\ DeletesHaveNoId(b)
  BY <1>0, <1>5, <1>7, <1>8 DEF OwnNumbers, DeletesHaveNoId
<1>10. IdsOK(b)
  <2> SUFFICES ASSUME NEW f \in DOMAIN c.ex, ~b.ex[f].clash
               PROVE  FirstOK(b.ex[f]) /\ \A r \in Carried(b, f) : IdOK(b.ex[f], r)
    BY <1>7 DEF IdsOK
  <2>1. ~c.ex[f].clash
    BY <1>3, <1>7
  <2>2. FirstOK(c.ex[f]) /\ \A r \in Carried(b, f) : IdOK(c.ex[f], r)
    BY <1>0, <1>8, <2>1 DEF IdsOK
  <2>3. CASE f # e
    BY <1>7, <2>2, <2>3
  <2>4. CASE f = e
    <3>1. FirstOK(y)
      <4>1. FirstOK(x)
        BY <2>2, <2>4
      <4>2. CASE name = x.m_client_name
        BY <1>3, <4>1, <4>2 DEF FirstOK
      <4>3. CASE name # x.m_client_name
        BY <1>3, <4>3 DEF FirstOK
      <4> QED
        BY <4>2, <4>3
    <3>2. \A r \in Carried(b, e) : IdOK(y, r)
      BY <1>2, <1>3, <2>2, <2>4 DEF IdOK
    <3> QED
      BY <1>7, <2>4, <3>1, <3>2
  <2> QED
    BY <2>3, <2>4
<1>11. AppliedOK(b, done)
  <2>1. \A f \in DOMAIN c.ex : b.ex[f].clash = c.ex[f].clash /\ b.ex[f].m_orders = c.ex[f].m_orders
    BY <1>3, <1>7
  <2> QED
    BY <1>0, <1>5, <1>7, <1>8, <2>1 DEF AppliedOK
<1>12. ClientOK(b, done)
  BY <1>7, <1>9, <1>10, <1>11 DEF ClientOK
<1>13. /\ s \in Clients /\ DOMAIN s.ex = DOMAIN b.ex /\ ClientOK(s, done)
       /\ \A f \in DOMAIN b.ex : b.ex[f].clash => s.ex[f].clash
       /\ CounterOK(s)
  <2>1. "get_status" \in Commands /\ "get_status" \notin NamesPeer /\ NoPeer \in Vips \cup {NoPeer}
    BY DEF Commands, PlainCommands, NamesPeer
  <2>2. \A f \in DOMAIN b.ex \ {e} : b.ex[f].m_client_name # 0 => b.ex[f].m_counter > 0
    BY <1>7 DEF CounterOK
  <2> QED
    BY <1>7, <1>12, <2>1, <2>2, SendKeeps
<1> HIDE DEF s, d
<1>14. s.ex[e] \in Executor /\ s.working \in BOOLEAN /\ OwnConns(s)
  BY <1>7, <1>13, ClientForm DEF ClientOK
<1>15. d.ex = [s.ex EXCEPT ![e] = z] /\ d.nd = s.nd /\ d.working = s.working
       /\ d = [ex |-> d.ex, nd |-> d.nd, working |-> d.working]
  BY <1>4, <1>13 DEF Clients
<1>16. z \in Executor /\ z.conn = s.ex[e].conn /\ InReader(z) = InReader(s.ex[e]) /\ Same(s.ex[e], z)
  BY <1>14 DEF Executor, InReader, Same
<1> HIDE DEF z
<1>17. d.working \in BOOLEAN
  BY <1>14, <1>15
<1>18. Shrinks(s, d)
  BY <1>7, <1>13, <1>14, <1>15, <1>16, <1>17, FlagsShrink
<1>19. ClientOK(d, done) /\ CounterOK(d)
  BY <1>13, <1>18, ShrinksKeeps
<1>20. d \in Clients /\ DOMAIN d.ex = DOMAIN c.ex
  BY <1>7, <1>13, <1>18 DEF Shrinks
<1>21. \A f \in DOMAIN c.ex : c.ex[f].clash => d.ex[f].clash
  <2>1. \A f \in DOMAIN s.ex : d.ex[f].clash = s.ex[f].clash
    BY <1>18 DEF Shrinks, Same
  <2>2. \A f \in DOMAIN c.ex : b.ex[f].clash = c.ex[f].clash
    BY <1>3, <1>7
  <2> QED
    BY <1>7, <1>13, <2>1, <2>2
<1> QED
  BY <1>19, <1>20, <1>21 DEF d

\* An order is handed out to the answer r of its request, and is gone.
LEMMA TakeOrder ==
  ASSUME NEW c \in Clients, NEW e \in DOMAIN c.ex, NEW done \in Seq(Nat), ClientOK(c, done), CounterOK(c),
         NEW r \in Carried(c, e), r.cmd # "get_status", r.id \in DOMAIN c.ex[e].m_orders
  PROVE  LET d == getOrder(c, e, r.id)
         IN  /\ d \in Clients /\ DOMAIN d.ex = DOMAIN c.ex /\ CounterOK(d)
             /\ ClientOK(d, done) /\ ClientOK(d, Append(done, r.n)) /\ Append(done, r.n) \in Seq(Nat)
             /\ \A f \in DOMAIN c.ex : d.ex[f].clash = c.ex[f].clash
             /\ ~c.ex[e].clash => r.n \notin Range(done)
<1> DEFINE x == c.ex[e]
           id == r.id
           m == x.m_orders
           w == [i \in DOMAIN m \ {id} |-> m[i]]
           y == [x EXCEPT !.m_orders = w]
           d == getOrder(c, e, id)
           more == Append(done, r.n)
<1>0. OwnConns(c) /\ OwnNumbers(c) /\ DeletesHaveNoId(c) /\ IdsOK(c) /\ AppliedOK(c, done)
  BY DEF ClientOK
<1>1. x \in Executor /\ c.working \in BOOLEAN /\ c.nd.requests \in Nat
  BY ClientForm
<1>2. m \in Orders
  BY <1>1, ExecutorForm
<1>3. w \in Orders /\ DOMAIN w = DOMAIN m \ {id}
  BY <1>2, OrdersTake
<1>4. d = [c EXCEPT !.ex[e].m_orders = [i \in DOMAIN @ \ {id} |-> @[i]]]
  BY DEF getOrder
<1>5. d.ex = [c.ex EXCEPT ![e] = y] /\ d.nd = c.nd /\ d.working = c.working
      /\ d = [ex |-> d.ex, nd |-> d.nd, working |-> d.working]
  BY <1>4 DEF Clients
<1> HIDE DEF d, w
<1>6. /\ y \in Executor /\ y.conn = x.conn /\ InReader(y) = InReader(x) /\ y.clash = x.clash
      /\ y.m_orders = w /\ y.m_client_name = x.m_client_name /\ y.m_counter = x.m_counter
  BY <1>1, <1>3 DEF Executor, InReader
<1> HIDE DEF y
<1>7. d.working \in BOOLEAN
  BY <1>1, <1>5
<1>8. /\ d \in Clients /\ DOMAIN d.ex = DOMAIN c.ex /\ OwnConns(d) /\ d.ex[e] = y
      /\ \A f \in DOMAIN c.ex : Carried(d, f) \subseteq Carried(c, f)
      /\ \A f \in DOMAIN c.ex : f # e => d.ex[f] = c.ex[f]
  BY <1>0, <1>5, <1>6, <1>7, OneExecutor
<1>9. \A f \in DOMAIN c.ex : \A s \in Carried(d, f) : s \in Carried(c, f)
  BY <1>8
<1>10. OwnNumbers(d) /\ DeletesHaveNoId(d)
  BY <1>0, <1>5, <1>8, <1>9 DEF OwnNumbers, DeletesHaveNoId
<1>11. r \in Ask /\ r.n \in Nat /\ r.n <= c.nd.requests
  BY <1>0, CarriedAreAsks DEF OwnNumbers, Ask
<1>12. id \in Id
  BY <1>2, OrdersForm
<1>13. IdsOK(d)
  <2> SUFFICES ASSUME NEW f \in DOMAIN c.ex, ~d.ex[f].clash
               PROVE  FirstOK(d.ex[f]) /\ \A s \in Carried(d, f) : IdOK(d.ex[f], s)
    BY <1>8 DEF IdsOK
  <2>1. FirstOK(c.ex[f]) /\ \A s \in Carried(d, f) : IdOK(c.ex[f], s)
    BY <1>0, <1>6, <1>8, <1>9 DEF IdsOK
  <2>2. CASE f # e
    BY <1>8, <2>1, <2>2
  <2>3. CASE f = e
    <3>1. id # NoId
      BY <1>12, IdForm
    <3>2. IdOK(x, r)
      BY <1>0, <1>6, <1>8, <2>3 DEF IdsOK
    <3>3. id[2] # 0
      BY <3>1, <3>2 DEF IdOK
    <3>4. \A a : <<a, 0>> \in DOMAIN m => <<a, 0>> \in DOMAIN w
      BY <1>3, <3>3
    <3>5. FirstOK(y) /\ \A s \in Carried(d, f) : IdOK(y, s)
      BY <1>6, <2>1, <2>3, <3>4 DEF FirstOK, IdOK
    <3> QED
      BY <1>8, <2>3, <3>5
  <2> QED
    BY <2>2, <2>3
<1>14. \A i \in DOMAIN done : done[i] <= c.nd.requests
  BY <1>0 DEF AppliedOK
<1>15. \A f \in DOMAIN c.ex : ~c.ex[f].clash =>
         \A s \in Carried(c, f) : s.n \in Range(done) => s.id \notin DOMAIN c.ex[f].m_orders
  BY <1>0 DEF AppliedOK
<1>16. \A f \in DOMAIN c.ex : d.ex[f].clash = c.ex[f].clash /\ DOMAIN d.ex[f].m_orders \subseteq DOMAIN c.ex[f].m_orders
  BY <1>3, <1>6, <1>8
<1>17. AppliedOK(d, done)
  BY <1>5, <1>8, <1>9, <1>14, <1>15, <1>16 DEF AppliedOK
<1>18. more \in Seq(Nat) /\ Range(more) \subseteq Range(done) \cup {r.n}
  BY <1>11, RangeOfAppend
<1>19. AppliedOK(d, more)
  <2>1. \A i \in DOMAIN more : more[i] <= c.nd.requests
    BY <1>11, <1>14
  <2>2. ASSUME NEW f \in DOMAIN c.ex, ~d.ex[f].clash, NEW s \in Carried(d, f), s.n \in Range(more)
        PROVE  s.id \notin DOMAIN d.ex[f].m_orders
    <3>1. CASE s.n \in Range(done)
      BY <2>2, <3>1, <1>9, <1>15, <1>16
    <3>2. CASE s.n = r.n
      <4>1. f = e /\ s.id = id
        BY <3>2, <1>0, <1>9 DEF OwnNumbers
      <4> QED
        BY <4>1, <1>3, <1>6, <1>8
    <3> QED
      BY <2>2, <3>1, <3>2, <1>18
  <2> HIDE DEF more
  <2> QED
    BY <1>5, <1>8, <2>1, <2>2 DEF AppliedOK
<1>20. CounterOK(d)
  BY <1>6, <1>8 DEF CounterOK
<1>21. ~c.ex[e].clash => r.n \notin Range(done)
  BY <1>15
<1>22. ClientOK(d, done) /\ ClientOK(d, more)
  BY <1>8, <1>10, <1>13, <1>17, <1>19 DEF ClientOK
<1> QED
  BY <1>8, <1>16, <1>18, <1>20, <1>21, <1>22 DEF d

\* A new executor carries nothing and has no name.
LEMMA NewExecutorForm ==
  /\ commandExecutor \in Executor /\ commandExecutor.conn = 0 /\ InReader(commandExecutor) = {}
  /\ commandExecutor.m_client_name = 0 /\ commandExecutor.m_counter = 0
<1>1. <<>> \in Orders
  <2>1. DOMAIN <<>> = {}
    OBVIOUS
  <2>2. <<>> \in [DOMAIN <<>> -> Order]
    BY <2>1
  <2> QED
    BY <2>1, <2>2, OrdersForm
<1>2. <<>> \in Seq(Unit) /\ TRUE \in BOOLEAN /\ FALSE \in BOOLEAN /\ 0 \in Nat /\ 0 \in 0 .. 2
  OBVIOUS
<1>3. commandExecutor \in Executor
  BY <1>1, <1>2, Zenon DEF commandExecutor, Executor
<1>4. /\ commandExecutor.conn = 0 /\ commandExecutor.m_client_name = 0 /\ commandExecutor.m_counter = 0
      /\ commandExecutor.m_internal_buffer = <<>> /\ commandExecutor.m_last_command = <<>>
      /\ commandExecutor.back = <<>>
  BY DEF commandExecutor
<1>5. InReader(commandExecutor) = {}
  BY <1>4, RangeOfEmpty DEF InReader
<1> QED
  BY <1>3, <1>4, <1>5

\* One more executor keeps a client well.
LEMMA NewExecutorKeeps ==
  ASSUME NEW c \in Clients, NEW done \in Seq(Nat), ClientOK(c, done), CounterOK(c)
  PROVE  LET d == [c EXCEPT !.ex = Append(@, commandExecutor)]
         IN  /\ d \in Clients /\ Len(d.ex) = Len(c.ex) + 1 /\ ClientOK(d, done) /\ CounterOK(d)
             /\ \A f \in DOMAIN c.ex : d.ex[f] = c.ex[f]
<1> DEFINE x == commandExecutor
           d == [c EXCEPT !.ex = Append(@, x)]
           N == Len(c.ex) + 1
<1>0. OwnConns(c) /\ OwnNumbers(c) /\ DeletesHaveNoId(c) /\ IdsOK(c) /\ AppliedOK(c, done)
  BY DEF ClientOK
<1>1. x \in Executor /\ x.conn = 0 /\ InReader(x) = {} /\ x.m_client_name = 0 /\ x.m_counter = 0
  BY NewExecutorForm
<1>2. c.ex \in Seq(Executor) /\ c.nd.conns \in Seq(Conn)
  BY ClientForm
<1> HIDE DEF x
<1>3. d.ex = Append(c.ex, x) /\ d.nd = c.nd /\ d \in Clients
  <2> DEFINE a == Append(c.ex, x)
  <2>1. a \in Seq(Executor)
    BY <1>1, <1>2
  <2>2. d = [c EXCEPT !.ex = a]
    OBVIOUS
  <2> HIDE DEF a, d
  <2>3. d.ex = a /\ d.nd = c.nd /\ d.working = c.working
        /\ d = [ex |-> d.ex, nd |-> d.nd, working |-> d.working]
    BY <2>2 DEF Clients
  <2>4. c.nd \in Node /\ c.working \in BOOLEAN
    BY ClientForm
  <2>5. d \in Clients
    BY <2>1, <2>3, <2>4 DEF Clients
  <2> QED
    BY <2>3, <2>5 DEF a
<1> HIDE DEF d
<1>4. DOMAIN d.ex = DOMAIN c.ex \cup {N} /\ N \notin DOMAIN c.ex /\ Len(d.ex) = N
      /\ d.ex[N] = x /\ \A f \in DOMAIN c.ex : d.ex[f] = c.ex[f]
  BY <1>1, <1>2, <1>3
<1> HIDE DEF N
<1>5. Carried(d, N) = {} /\ \A f \in DOMAIN c.ex : Carried(d, f) = Carried(c, f)
  BY <1>1, <1>3, <1>4 DEF Carried
<1>6. OwnConns(d)
  BY <1>0, <1>1, <1>2, <1>3, <1>4 DEF OwnConns
<1>7. OwnNumbers(d)
  BY <1>0, <1>3, <1>4, <1>5 DEF OwnNumbers
<1>8. DeletesHaveNoId(d)
  BY <1>0, <1>4, <1>5 DEF DeletesHaveNoId
<1>9. IdsOK(d)
  <2>1. FirstOK(x)
    BY <1>1 DEF FirstOK
  <2> QED
    BY <1>0, <1>4, <1>5, <2>1 DEF IdsOK
<1>10. AppliedOK(d, done)
  BY <1>0, <1>3, <1>4, <1>5 DEF AppliedOK
<1>11. CounterOK(d)
  BY <1>1, <1>4 DEF CounterOK
<1>12. ClientOK(d, done)
  BY <1>6, <1>7, <1>8, <1>9, <1>10 DEF ClientOK
<1> QED
  BY <1>3, <1>4, <1>11, <1>12 DEF d, x, N

-----------------------------------------------------------------------------
\* The rows.
OneRow(list) ==
  list \in Seq(Row) /\ \A i, j \in 1 .. Len(list) : list[i].vip = list[j].vip => i = j

\* The rows stay where they are; some may be new at the end.
KeepsRows(old, new) ==
  Len(old) <= Len(new) /\ \A i \in 1 .. Len(old) : new[i].vip = old[i].vip

\* The row that the list is searched for is that peer's.
LEMMA FirstRow ==
  ASSUME NEW list, OneRow(list), NEW v, RowOf(list, v) # {}
  PROVE  Min(RowOf(list, v)) \in 1 .. Len(list) /\ list[Min(RowOf(list, v))].vip = v
<1>1. PICK i \in 1 .. Len(list) : list[i].vip = v
  BY DEF RowOf
<1>2. RowOf(list, v) = {i}
  BY <1>1 DEF RowOf, OneRow
<1>3. i \in Int /\ Min({i}) = i
  <2>1. i \in Int
    BY <1>1 DEF OneRow
  <2>2. \E x \in {i} : \A y \in {i} : x =< y
    BY <2>1
  <2>3. Min({i}) \in {i}
    BY <2>2, Zenon DEF Min
  <2> QED
    BY <2>1, <2>3
<1> QED
  BY <1>1, <1>2, <1>3

\* A row for a peer that has none.
LEMMA AppendRow ==
  ASSUME NEW list, OneRow(list), NEW row \in Row, RowOf(list, row.vip) = {}
  PROVE  OneRow(Append(list, row)) /\ KeepsRows(list, Append(list, row))
<1>1. list \in Seq(Row) /\ \A i \in 1 .. Len(list) : list[i].vip # row.vip
  BY DEF OneRow, RowOf
<1> DEFINE new == Append(list, row)
<1>2. new \in Seq(Row) /\ Len(new) = Len(list) + 1 /\ new[Len(list) + 1] = row
      /\ \A i \in 1 .. Len(list) : new[i] = list[i]
  BY <1>1
<1> HIDE DEF new
<1>3. \A i, j \in 1 .. Len(new) : new[i].vip = new[j].vip => i = j
  <2> SUFFICES ASSUME NEW i \in 1 .. Len(new), NEW j \in 1 .. Len(new), new[i].vip = new[j].vip PROVE i = j
    OBVIOUS
  <2>1. (i \in 1 .. Len(list) \/ i = Len(list) + 1) /\ (j \in 1 .. Len(list) \/ j = Len(list) + 1)
    BY <1>1, <1>2
  <2> QED
    BY <1>1, <1>2, <2>1 DEF OneRow
<1>4. Len(list) <= Len(new)
  BY <1>1, <1>2
<1> QED
  BY <1>2, <1>3, <1>4 DEF OneRow, KeepsRows, new

\* A row that changes and stays its peer's.
LEMMA ChangeRow ==
  ASSUME NEW list, OneRow(list), NEW i \in 1 .. Len(list), NEW row \in Row, row.vip = list[i].vip
  PROVE  OneRow([list EXCEPT ![i] = row]) /\ KeepsRows(list, [list EXCEPT ![i] = row])
         /\ Len([list EXCEPT ![i] = row]) = Len(list)
<1>1. list \in Seq(Row)
  BY DEF OneRow
<1> DEFINE new == [list EXCEPT ![i] = row]
<1>2. new \in Seq(Row) /\ Len(new) = Len(list) /\ \A j \in 1 .. Len(list) : new[j] = IF j = i THEN row ELSE list[j]
  BY <1>1
<1> HIDE DEF new
<1>3. \A j \in 1 .. Len(list) : new[j].vip = list[j].vip
  BY <1>2
<1>4. Len(list) <= Len(new)
  BY <1>1, <1>2
<1> QED
  BY <1>2, <1>3, <1>4 DEF OneRow, KeepsRows, new

\* What the list's operations make of it: a peer keeps one row, and only removals move rows.
LEMMA AddRow ==
  ASSUME NEW list, OneRow(list), NEW v \in Vips
  PROVE  OneRow(addPeer(list, v)) /\ KeepsRows(list, addPeer(list, v))
<1>1. CASE RowOf(list, v) # {}
  <2>1. addPeer(list, v) = list
    BY <1>1 DEF addPeer
  <2>2. KeepsRows(list, list)
    BY DEF OneRow, KeepsRows
  <2> QED
    BY <2>1, <2>2
<1>2. CASE RowOf(list, v) = {}
  <2> DEFINE row == [vip |-> v, status |-> "connected", comm |-> "sended"]
  <2>1. row \in Row /\ row.vip = v
    BY DEF Row
  <2>2. addPeer(list, v) = Append(list, row)
    BY <1>2 DEF addPeer
  <2> HIDE DEF row
  <2> QED
    BY <1>2, <2>1, <2>2, AppendRow
<1> QED
  BY <1>1, <1>2

\* An addition the node confirms.
LEMMA ConfirmAddRow ==
  ASSUME NEW list, OneRow(list), NEW v \in Vips
  PROVE  OneRow(confirmAddPeer(list, v)) /\ KeepsRows(list, confirmAddPeer(list, v))
<1> DEFINE row == [vip |-> v, status |-> "connected", comm |-> "acknowled"]
           i == Min(RowOf(list, v))
<1>1. row \in Row /\ row.vip = v
  BY DEF Row
<1>2. confirmAddPeer(list, v) = IF RowOf(list, v) = {} THEN Append(list, row) ELSE [list EXCEPT ![i] = row]
  BY Zenon DEF confirmAddPeer
<1>3. CASE RowOf(list, v) # {}
  <2>1. i \in 1 .. Len(list) /\ list[i].vip = v
    BY <1>3, FirstRow
  <2> HIDE DEF row, i
  <2> QED
    BY <1>1, <1>2, <1>3, <2>1, ChangeRow
<1>4. CASE RowOf(list, v) = {}
  <2> HIDE DEF row, i
  <2> QED
    BY <1>1, <1>2, <1>4, AppendRow
<1> QED
  BY <1>3, <1>4

\* A ban: the first row of the peer is marked.
LEMMA BanRow ==
  ASSUME NEW list, OneRow(list), NEW v \in Vips
  PROVE  OneRow(confirmBanPeer(list, v)) /\ KeepsRows(list, confirmBanPeer(list, v))
<1> DEFINE i == Min(RowOf(list, v))
           row == [[list[i] EXCEPT !.status = "banned"] EXCEPT !.comm = "recived"]
<1>1. CASE RowOf(list, v) # {}
  <2>1. i \in 1 .. Len(list) /\ list \in Seq(Row)
    BY <1>1, FirstRow DEF OneRow
  <2>2. confirmBanPeer(list, v) = [list EXCEPT ![i].status = "banned", ![i].comm = "recived"]
    BY <1>1, Zenon DEF confirmBanPeer
  <2> HIDE DEF i
  <2>3. list[i] \in Row
    BY <2>1
  <2>4. row \in Row /\ row.vip = list[i].vip
    <3> DEFINE r == list[i]
               s == [r EXCEPT !.status = "banned"]
    <3> HIDE DEF r
    <3>1. s \in Row /\ s.vip = r.vip
      BY <2>3 DEF Row, r
    <3> HIDE DEF s
    <3>2. [s EXCEPT !.comm = "recived"] \in Row /\ [s EXCEPT !.comm = "recived"].vip = r.vip
      BY <3>1 DEF Row
    <3> QED
      BY <3>2 DEF r, s
  <2>5. confirmBanPeer(list, v) = [list EXCEPT ![i] = row]
    <3> DEFINE mid == [list[i] EXCEPT !.status = "banned"]
               one == [list EXCEPT ![i] = mid]
               new == confirmBanPeer(list, v)
    <3>1. new = [one EXCEPT ![i].comm = "recived"]
      BY <2>2
    <3>2. row = [mid EXCEPT !.comm = "recived"]
      OBVIOUS
    <3>3. one[i] = mid /\ DOMAIN one = DOMAIN list /\ i \in DOMAIN list
          /\ \A j \in DOMAIN list : j # i => one[j] = list[j]
      BY <2>1
    <3> HIDE DEF one, mid, row, new
    <3>4. new = [one EXCEPT ![i] = row]
      BY <3>1, <3>2, <3>3
    <3>5. [one EXCEPT ![i] = row] = [list EXCEPT ![i] = row]
      BY <3>3 DEF one
    <3> QED
      BY <3>4, <3>5 DEF new
  <2> HIDE DEF row
  <2>6. OneRow([list EXCEPT ![i] = row]) /\ KeepsRows(list, [list EXCEPT ![i] = row])
    BY <2>1, <2>4, ChangeRow
  <2> QED
    BY <2>5, <2>6
<1>2. CASE RowOf(list, v) = {}
  <2>1. confirmBanPeer(list, v) = list
    BY <1>2 DEF confirmBanPeer
  <2>2. KeepsRows(list, list)
    BY DEF OneRow, KeepsRows
  <2> QED
    BY <2>1, <2>2
<1> QED
  BY <1>1, <1>2

\* The row a request is sent for.
LEMMA StartRow ==
  ASSUME NEW list, OneRow(list), NEW i \in 1 .. Len(list)
  PROVE  OneRow(startActionOnIndex(list, i)) /\ KeepsRows(list, startActionOnIndex(list, i))
         /\ Len(startActionOnIndex(list, i)) = Len(list)
<1> DEFINE row == [list[i] EXCEPT !.comm = "sended"]
<1>1. list[i] \in Row
  BY DEF OneRow
<1>2. row \in Row /\ row.vip = list[i].vip
  BY <1>1 DEF Row
<1>3. startActionOnIndex(list, i) = [list EXCEPT ![i] = row]
  BY <1>1 DEF startActionOnIndex
<1> HIDE DEF row
<1>4. OneRow([list EXCEPT ![i] = row]) /\ KeepsRows(list, [list EXCEPT ![i] = row])
      /\ Len([list EXCEPT ![i] = row]) = Len(list)
  BY <1>2, ChangeRow
<1> QED
  BY <1>3, <1>4, Zenon

\* A removal: the other rows stay one per peer.
LEMMA DeleteRow ==
  ASSUME NEW list, OneRow(list), NEW v \in Vips
  PROVE  OneRow(confirmDeletePeer(list, v))
<1> DEFINE i == Min(RowOf(list, v))
           new == SubSeq(list, 1, i - 1) \o SubSeq(list, i + 1, Len(list))
           From(j) == IF j < i THEN j ELSE j + 1
<1>1. CASE RowOf(list, v) # {}
  <2>1. i \in 1 .. Len(list) /\ list \in Seq(Row)
    BY <1>1, FirstRow DEF OneRow
  <2>2. confirmDeletePeer(list, v) = new
    BY <1>1, Zenon DEF confirmDeletePeer, RemoveAt
  <2> HIDE DEF i
  <2>3. new \in Seq(Row) /\ Len(new) = Len(list) - 1
        /\ \A j \in 1 .. Len(new) : new[j] = list[From(j)] /\ From(j) \in 1 .. Len(list)
    <3> DEFINE a == SubSeq(list, 1, i - 1)
               b == SubSeq(list, i + 1, Len(list))
    <3>1. a \in Seq(Row) /\ Len(a) = i - 1 /\ \A j \in 1 .. Len(a) : a[j] = list[j]
      BY <2>1
    <3>2. b \in Seq(Row) /\ Len(b) = Len(list) - i /\ \A j \in 1 .. Len(b) : b[j] = list[j + i]
      BY <2>1
    <3>3. new = a \o b
      OBVIOUS
    <3> HIDE DEF a, b, new
    <3>4. new \in Seq(Row) /\ Len(new) = Len(list) - 1
      BY <2>1, <3>1, <3>2, <3>3
    <3>5. ASSUME NEW j \in 1 .. Len(new) PROVE new[j] = list[From(j)] /\ From(j) \in 1 .. Len(list)
      <4>1. CASE j < i
        <5>1. j \in 1 .. Len(a) /\ new[j] = a[j]
          BY <2>1, <3>1, <3>2, <3>3, <3>4, <4>1
        <5> QED
          BY <2>1, <3>1, <4>1, <5>1
      <4>2. CASE ~(j < i)
        <5>1. j - (i - 1) \in 1 .. Len(b) /\ new[j] = b[j - (i - 1)]
          BY <2>1, <3>1, <3>2, <3>3, <3>4, <4>2, SMTT(60)
        <5>2. b[j - (i - 1)] = list[j - (i - 1) + i] /\ j - (i - 1) + i = j + 1
          BY <2>1, <3>2, <5>1
        <5> QED
          BY <2>1, <3>2, <3>4, <4>2, <5>1, <5>2
      <4> QED
        BY <4>1, <4>2
    <3> QED
      BY <3>4, <3>5
  <2> HIDE DEF new
  <2>4. ASSUME NEW j \in 1 .. Len(new), NEW k \in 1 .. Len(new), new[j].vip = new[k].vip PROVE j = k
    <3>1. From(j) = From(k)
      BY <2>3, <2>4 DEF OneRow
    <3> QED
      BY <2>1, <3>1
  <2> QED
    BY <2>2, <2>3, <2>4 DEF OneRow
<1>2. CASE RowOf(list, v) = {}
  BY <1>2 DEF confirmDeletePeer
<1> QED
  BY <1>1, <1>2

\* Every row is marked.
LEMMA BanRows ==
  ASSUME NEW list, OneRow(list)
  PROVE  OneRow(banAllPeers(list)) /\ KeepsRows(list, banAllPeers(list))
<1> DEFINE new == banAllPeers(list)
<1>1. list \in Seq(Row) /\ Len(list) \in Nat
  BY DEF OneRow
<1>2. new = [i \in 1 .. Len(list) |-> [list[i] EXCEPT !.status = "banned"]]
  BY DEF banAllPeers
<1> HIDE DEF new
<1>3. \A i \in 1 .. Len(list) : new[i] = [list[i] EXCEPT !.status = "banned"]
  BY <1>2
<1>4. ASSUME NEW i \in 1 .. Len(list) PROVE new[i] \in Row /\ new[i].vip = list[i].vip
  <2> DEFINE row == list[i]
  <2>1. row \in Row
    BY <1>1
  <2>2. new[i] = [row EXCEPT !.status = "banned"]
    BY <1>3, Zenon
  <2> HIDE DEF row
  <2>3. new[i] \in Row /\ new[i].vip = row.vip
    BY <2>1, <2>2 DEF Row
  <2> QED
    BY <2>3 DEF row
<1>5. new \in [1 .. Len(list) -> Row]
  BY <1>2, <1>4
<1>6. new \in Seq(Row) /\ Len(new) = Len(list)
  BY <1>1, <1>5
<1> QED
  BY <1>1, <1>4, <1>6 DEF OneRow, KeepsRows, new

-----------------------------------------------------------------------------
\* Data that arrives.

\* The reader cuts and moves units, it makes none.
LEMMA FedForm ==
  ASSUME NEW x \in Executor, NEW units \in Seq(Unit), NEW z \in Fed(x, units)
  PROVE  z \in Executor /\ z.conn = x.conn /\ Same(x, z)
         /\ InReader(z) \subseteq InReader(x) \cup { Asked(u) : u \in Range(units) }
<1> DEFINE all == x.m_internal_buffer \o units
           More(len) == IF x.missing > 0 THEN x.missing ELSE len
           Cutoff(len) == IF More(len) > Len(all) THEN Len(all) ELSE More(len)
           Cut(len) == [x EXCEPT !.m_last_command = @ \o SubSeq(all, 1, Cutoff(len)),
                                 !.m_internal_buffer = SubSeq(all, Cutoff(len) + 1, Len(all)),
                                 !.missing = More(len) - Cutoff(len)]
           Done(y) == [y EXCEPT !.back = IF y.missing = 0 THEN y.m_last_command ELSE x.back,
                                !.m_last_command = IF y.missing = 0 THEN <<>> ELSE @]
<1>1. x.m_internal_buffer \in Seq(Unit) /\ x.m_last_command \in Seq(Unit) /\ x.back \in Seq(Unit)
      /\ x.missing \in 0 .. 2
  BY ExecutorForm
<1>2. all \in Seq(Unit) /\ Range(all) \subseteq Range(x.m_internal_buffer) \cup Range(units)
  BY <1>1, RangeOfConcat
<1>3. CASE all = <<>>
  <2>1. z = x
    BY <1>3 DEF Fed
  <2> QED
    BY <2>1 DEF Same
<1>4. CASE all # <<>>
  <2>1. Fed(x, units) = { Done(y) : y \in { Cut(len) : len \in IF all[1][1] = "head" THEN {2} ELSE 2 .. 3 } }
    BY <1>4, Zenon DEF Fed
  <2>2. PICK len \in IF all[1][1] = "head" THEN {2} ELSE 2 .. 3 : z = Done(Cut(len))
    <3> HIDE DEF Done, Cut
    <3>1. PICK y \in { Cut(len) : len \in IF all[1][1] = "head" THEN {2} ELSE 2 .. 3 } : z = Done(y)
      BY <2>1
    <3>2. PICK len \in IF all[1][1] = "head" THEN {2} ELSE 2 .. 3 : y = Cut(len)
      BY <3>1
    <3> QED
      BY <3>1, <3>2
  <2>3. len \in 2 .. 3
    BY <2>2
  <2> DEFINE t == Cutoff(len)
             a == SubSeq(all, 1, t)
             rest == SubSeq(all, t + 1, Len(all))
             got == x.m_last_command \o a
             left == More(len) - t
             y == Cut(len)
  <2> HIDE DEF all
  <2>4. Len(all) \in Nat \ {0}
    BY <1>2, <1>4
  <2>5. t \in Nat \ {0} /\ t <= Len(all) /\ left \in 0 .. 2
    BY <1>1, <2>3, <2>4
  <2>6. y = [x EXCEPT !.m_last_command = got, !.m_internal_buffer = rest, !.missing = left]
    BY DEF Executor
  <2> HIDE DEF t, left, y, More, Cutoff
  <2>7. a \in Seq(Unit) /\ Range(a) \subseteq Range(all)
    BY <1>2, <2>5, RangeOfSubSeq
  <2>8. rest \in Seq(Unit) /\ Range(rest) \subseteq Range(all)
    BY <1>2, <2>4, <2>5, RangeOfSubSeq
  <2> HIDE DEF a, rest
  <2>9. got \in Seq(Unit) /\ Range(got) \subseteq Range(x.m_last_command) \cup Range(a)
    BY <1>1, <2>7, RangeOfConcat
  <2> HIDE DEF got
  <2>10. y \in Executor /\ y.conn = x.conn /\ Same(x, y) /\ y.m_last_command = got
         /\ y.m_internal_buffer = rest /\ y.missing = left /\ y.back = x.back
    BY <2>5, <2>6, <2>8, <2>9 DEF Executor, Same
  <2> DEFINE b == IF y.missing = 0 THEN y.m_last_command ELSE x.back
             l == IF y.missing = 0 THEN <<>> ELSE y.m_last_command
  <2>11. z = [y EXCEPT !.back = b, !.m_last_command = l]
    BY <2>2, <2>10 DEF y, Executor
  <2>12. b \in Seq(Unit) /\ l \in Seq(Unit) /\ Range(b) \subseteq Range(got) \cup Range(x.back)
         /\ Range(l) \subseteq Range(got)
    BY <1>1, <2>9, <2>10, RangeOfEmpty
  <2> HIDE DEF b, l, Done, Cut
  <2>13. z \in Executor /\ z.conn = y.conn /\ Same(y, z) /\ z.back = b /\ z.m_last_command = l
         /\ z.m_internal_buffer = rest
    BY <2>10, <2>11, <2>12 DEF Executor, Same
  <2>14. Range(z.m_internal_buffer) \cup Range(z.m_last_command) \cup Range(z.back)
         \subseteq Range(x.m_internal_buffer) \cup Range(x.m_last_command) \cup Range(x.back) \cup Range(units)
    BY <1>2, <2>7, <2>8, <2>9, <2>12, <2>13
  <2>15. InReader(z) \subseteq InReader(x) \cup { Asked(u) : u \in Range(units) }
    BY <2>14 DEF InReader
  <2> QED
    BY <2>10, <2>13, <2>15 DEF Same
<1> QED
  BY <1>3, <1>4

\* What is cut from the stream of a connection is with its executor.
LEMMA Received ==
  ASSUME NEW c \in Clients, NEW e \in DOMAIN c.ex, OwnConns(c), c.ex[e].conn # 0, NEW n \in 1 .. 3,
         n <= Len(c.nd.conns[c.ex[e].conn].stream),
         NEW x \in Fed(c.ex[e], SubSeq(c.nd.conns[c.ex[e].conn].stream, 1, n))
  PROVE  LET d == [c EXCEPT !.ex[e] = x,
                            !.nd.conns[c.ex[e].conn].stream = SubSeq(@, n + 1, Len(@))]
         IN  Shrinks(c, d) /\ d.ex[e] = x /\ x \in Executor
<1> DEFINE k == c.ex[e].conn
           g == c.nd.conns[k]
           units == SubSeq(g.stream, 1, n)
           rest == SubSeq(g.stream, n + 1, Len(g.stream))
           h == [g EXCEPT !.stream = rest]
           d == [c EXCEPT !.ex[e] = x, !.nd.conns[k].stream = SubSeq(@, n + 1, Len(@))]
<1>0. /\ c.ex[e] \in Executor /\ k \in Nat /\ c.nd.requests \in Nat /\ c.ex \in Seq(Executor) /\ c.nd \in Node
      /\ c.nd.conns \in Seq(Conn)
  BY ClientForm DEF Executor
<1>1. k \in 1 .. Len(c.nd.conns) /\ g \in Conn
  <2>1. k <= Len(c.nd.conns)
    BY DEF OwnConns
  <2> QED
    BY <1>0, <2>1
<1>17. d = [c EXCEPT !.ex[e] = x, !.nd.conns[k].stream = SubSeq(@, n + 1, Len(@))]
  OBVIOUS
<1> HIDE DEF d
<1>18. d.ex = [c.ex EXCEPT ![e] = x]
  BY <1>17 DEF Clients
<1>19. d.working = c.working /\ d = [ex |-> d.ex, nd |-> d.nd, working |-> d.working]
  BY <1>17 DEF Clients
<1>2. d.working = c.working /\ d.ex = [c.ex EXCEPT ![e] = x]
      /\ d = [ex |-> d.ex, nd |-> d.nd, working |-> d.working]
  BY <1>18, <1>19
<1>3. d.nd = [c.nd EXCEPT !.conns = [c.nd.conns EXCEPT ![k] = h]]
  BY <1>0, <1>1, <1>17 DEF Clients, Node
<1>4. g.stream \in Seq(Unit) /\ n <= Len(g.stream) /\ n \in Nat \ {0}
  BY <1>1 DEF Conn
<1> HIDE DEF g
<1>5. units \in Seq(Unit) /\ Range(units) \subseteq Range(g.stream)
  BY <1>4, RangeOfSubSeq
<1>6. rest \in Seq(Unit) /\ Range(rest) \subseteq Range(g.stream)
  BY <1>4, RangeOfSubSeq
<1>7. x \in Fed(c.ex[e], units)
  BY DEF g
<1> HIDE DEF units, rest
<1>8. x \in Executor /\ x.conn = k /\ Same(c.ex[e], x)
      /\ InReader(x) \subseteq InReader(c.ex[e]) \cup { Asked(u) : u \in Range(units) }
  BY <1>0, <1>5, <1>7, FedForm
<1>9. h \in Conn /\ h.stream = rest /\ h.asks = g.asks
  BY <1>1, <1>6 DEF Conn
<1> HIDE DEF h
<1>10. InReader(x) \cup OnConn(h) \subseteq InReader(c.ex[e]) \cup OnConn(g)
  BY <1>5, <1>6, <1>8, <1>9 DEF OnConn
<1>11. /\ d.nd \in Node /\ d.nd.requests = c.nd.requests /\ Len(d.nd.conns) = Len(c.nd.conns)
       /\ d.nd.conns[k] = h
       /\ \A j \in 1 .. Len(c.nd.conns) : j # k => d.nd.conns[j] = c.nd.conns[j]
  BY <1>0, <1>1, <1>3, <1>9, PutConn, SMTT(60)
<1>12. d.working \in BOOLEAN
  BY <1>2, ClientForm
<1>13. /\ d \in Clients /\ DOMAIN d.ex = DOMAIN c.ex /\ d.ex[e] = x
       /\ \A f \in DOMAIN c.ex : f # e => d.ex[f] = c.ex[f]
  BY <1>2, <1>8, <1>11, <1>12, PutExecutor
<1>14. OwnConns(d)
  <2>1. \A f \in DOMAIN c.ex : d.ex[f].conn = c.ex[f].conn
    BY <1>8, <1>13
  <2> QED
    BY <1>11, <1>13, <2>1 DEF OwnConns
<1>15. ASSUME NEW f \in DOMAIN c.ex PROVE Same(c.ex[f], d.ex[f]) /\ Carried(d, f) \subseteq Carried(c, f)
  <2>1. CASE f = e
    <3>1. Carried(d, e) = InReader(x) \cup OnConn(h)
      BY <1>8, <1>11, <1>13 DEF Carried
    <3>2. Carried(c, e) = InReader(c.ex[e]) \cup OnConn(g)
      BY DEF Carried, g
    <3> QED
      BY <2>1, <1>8, <1>10, <1>13, <3>1, <3>2
  <2>2. CASE f # e
    <3>1. c.ex[f].conn \in Nat /\ c.ex[f].conn <= Len(c.nd.conns) /\ c.ex[f].conn # k
      BY <2>2, ClientForm DEF OwnConns, Executor
    <3> QED
      BY <2>2, <3>1, <1>11, <1>13, SameConn, SMTT(60)
  <2> QED
    BY <2>1, <2>2
<1>16. d.nd.requests >= c.nd.requests
  BY <1>0, <1>11
<1> QED
  BY <1>8, <1>13, <1>14, <1>15, <1>16 DEF Shrinks, d

\* What the node does with one connection.
LEMMA ConnStep ==
  ASSUME NEW c \in Clients, OwnConns(c), NEW k \in 1 .. Len(c.nd.conns), NEW h \in Conn,
         OnConn(h) \subseteq OnConn(c.nd.conns[k]),
         NEW d, d = [ex |-> c.ex, nd |-> d.nd, working |-> c.working],
         d.nd \in Node, d.nd.requests = c.nd.requests, Len(d.nd.conns) = Len(c.nd.conns),
         d.nd.conns[k] = h, \A j \in 1 .. Len(c.nd.conns) : j # k => d.nd.conns[j] = c.nd.conns[j]
  PROVE  Shrinks(c, d)
<1>0. c.nd.requests \in Nat /\ c.ex \in Seq(Executor) /\ c.nd \in Node /\ c.working \in BOOLEAN
  BY ClientForm
<1>1. /\ d.nd \in Node /\ d.nd.requests = c.nd.requests /\ Len(d.nd.conns) = Len(c.nd.conns)
      /\ d.nd.conns[k] = h
      /\ \A j \in 1 .. Len(c.nd.conns) : j # k => d.nd.conns[j] = c.nd.conns[j]
  OBVIOUS
<1>6. d.ex = c.ex /\ d.working = c.working
  OBVIOUS
<1>7. d.working \in BOOLEAN
  BY <1>0, <1>6
<1>8. d = [ex |-> d.ex, nd |-> d.nd, working |-> d.working]
  BY <1>6, Zenon
<1>2. d \in Clients
  BY <1>0, <1>1, <1>6, <1>7, <1>8 DEF Clients
<1>3. d.ex = c.ex /\ OwnConns(d)
  BY <1>1, <1>6 DEF OwnConns
<1>4. ASSUME NEW f \in DOMAIN c.ex PROVE Carried(d, f) \subseteq Carried(c, f)
  <2>1. c.ex[f].conn \in Nat /\ c.ex[f].conn <= Len(c.nd.conns)
    BY ClientForm DEF OwnConns, Executor
  <2>2. c.ex[f].conn # 0 => OnConn(d.nd.conns[c.ex[f].conn]) \subseteq OnConn(c.nd.conns[c.ex[f].conn])
    BY <1>1, <2>1
  <2> QED
    BY <1>3, <2>2 DEF Carried
<1>5. d.nd.requests >= c.nd.requests
  BY <1>0, <1>1
<1> QED
  BY <1>2, <1>3, <1>4, <1>5 DEF Shrinks, Same

-----------------------------------------------------------------------------
\* The steps.

\* A step that gives the client another value.
LEMMA BecomesClient ==
  ASSUME NEW c \in Clients, Becomes(c)
  PROVE  Client' = c
<1>1. c = [ex |-> c.ex, nd |-> c.nd, working |-> c.working]
  BY ClientForm
<1>2. executors' = c.ex /\ node' = c.nd /\ m_is_working' = c.working
  BY DEF Becomes
<1> QED
  BY <1>1, <1>2 DEF Client

\* A step that applies nothing and clears no clash.
LEMMA ClientStays ==
  ASSUME ClientInv, NEW c, Client' = c, c \in Clients, DOMAIN executors \subseteq DOMAIN c.ex,
         ClientOK(c, applied), CounterOK(c),
         \A f \in DOMAIN executors : executors[f].clash => c.ex[f].clash, applied' = applied
  PROVE  ClientInv'
<1>1. executors' = c.ex
  BY DEF Client
<1>2. executors \in Seq(Executor) /\ executors' \in Seq(Executor) /\ executors # <<>>
  BY <1>1, ClientForm DEF ClientInv, Client
<1>3. executors' # <<>> /\ \A e \in 1 .. Len(executors) : e \in 1 .. Len(executors')
  <2>1. DOMAIN executors \subseteq DOMAIN executors'
    BY <1>1
  <2>2. \A e \in 1 .. Len(executors) : e \in 1 .. Len(executors')
    BY <1>2, <2>1
  <2>3. 1 \in 1 .. Len(executors)
    BY <1>2
  <2> QED
    BY <1>2, <2>2, <2>3
<1>4. RpcIdsUnique' => RpcIdsUnique
  BY <1>1, <1>2, <1>3 DEF RpcIdsUnique
<1>5. AppliedOnce'
  BY <1>4 DEF ClientInv, AppliedOnce
<1>6. ClientOK(Client', applied') /\ CounterOK(Client')
  OBVIOUS
<1> QED
  BY <1>3, <1>5, <1>6 DEF ClientInv

\* A step that only moves what was asked.
LEMMA ShrinksStep ==
  ASSUME ClientInv, NEW c, Client' = c, Shrinks(Client, c), applied' = applied
  PROVE  ClientInv'
<1>1. Client \in Clients /\ applied \in Seq(Nat) /\ ClientOK(Client, applied) /\ CounterOK(Client)
      /\ Client.ex = executors
  BY DEF ClientInv, Client
<1>2. ClientOK(c, applied) /\ CounterOK(c)
  BY <1>1, ShrinksKeeps
<1>3. c \in Clients /\ DOMAIN c.ex = DOMAIN executors /\ \A f \in DOMAIN executors : c.ex[f].clash = executors[f].clash
  BY <1>1 DEF Shrinks, Same
<1> QED
  BY <1>2, <1>3, ClientStays

\* A command of executor e.
LEMMA CommandStep ==
  ASSUME ClientInv, NEW e \in DOMAIN executors, NEW cmd \in Commands, NEW peer \in Vips \cup {NoPeer},
         cmd \in NamesPeer => peer \in Vips,
         Becomes(sendCommand(Client, e, cmd, peer)), applied' = applied
  PROVE  ClientInv'
<1> DEFINE d == sendCommand(Client, e, cmd, peer)
<1>1. Client \in Clients /\ applied \in Seq(Nat) /\ ClientOK(Client, applied) /\ CounterOK(Client)
      /\ Client.ex = executors
  BY DEF ClientInv, Client
<1>2. Client.ex[e].m_counter > 0 \/ cmd \in {"get_status", "hello"} \/ Client.ex[e].m_client_name = 0
  BY <1>1 DEF CounterOK
<1>3. /\ d \in Clients /\ DOMAIN d.ex = DOMAIN executors /\ ClientOK(d, applied)
      /\ (\A f \in DOMAIN executors : executors[f].clash => d.ex[f].clash)
      /\ (\A f \in DOMAIN executors \ {e} : executors[f].m_client_name # 0 => executors[f].m_counter > 0)
           /\ (executors[e].m_client_name # 0 => executors[e].m_counter > 0 \/ cmd # "hello")
           => CounterOK(d)
  BY <1>1, <1>2, SendKeeps
<1>4. CounterOK(d)
  BY <1>1, <1>3 DEF CounterOK
<1> HIDE DEF d
<1>5. Client' = d
  BY <1>3, BecomesClient DEF d
<1> QED
  BY <1>3, <1>4, <1>5, ClientStays

\* The list after a step that removes no row.
LEMMA RowsStay ==
  ASSUME ListInv, OneRow(peers'), KeepsRows(peers, peers') \/ selected' = <<>>,
         selected' \in {selected, <<>>}
  PROVE  ListInv'
<1>1. peers' \in Seq(Row) /\ OneRowPerPeer'
  BY DEF OneRow, OneRowPerPeer
<1>2. SelectedOK'
  BY DEF ListInv, SelectedOK
<1>3. SelectionHolds'
  <2>1. CASE selected' = <<>>
    BY <2>1 DEF SelectionHolds
  <2>2. CASE selected' # <<>>
    <3>1. selected' = selected /\ selected # <<>> /\ KeepsRows(peers, peers')
      BY <2>2
    <3>2. selected[2] \in Nat \ {0} /\ peers \in Seq(Row)
      BY <3>1 DEF ListInv, SelectedOK
    <3>3. selected[2] <= Len(peers) /\ peers[selected[2]].vip = selected[3]
      BY <3>1 DEF ListInv, SelectionHolds
    <3> QED
      BY <1>1, <3>1, <3>2, <3>3 DEF SelectionHolds, KeepsRows
  <2> QED
    BY <2>1, <2>2
<1> QED
  BY <1>1, <1>2, <1>3 DEF ListInv

\* The client as it was.
LEMMA ClientUnchanged ==
  ASSUME ClientInv, executors' = executors, node' = node, m_is_working' = m_is_working, applied' = applied
  PROVE  ClientInv'
<1>1. Client' = Client
  BY DEF Client
<1>2. AppliedOnce'
  BY DEF ClientInv, AppliedOnce, RpcIdsUnique
<1>3. ClientOK(Client', applied') /\ CounterOK(Client') /\ Client' \in Clients
  BY <1>1 DEF ClientInv
<1> QED
  BY <1>2, <1>3 DEF ClientInv

\* The current executor is there.
LEMMA CurExists ==
  ASSUME ClientInv
  PROVE  executors \in Seq(Executor) /\ Cur \in DOMAIN executors /\ 1 \in DOMAIN executors
<1>1. executors \in Seq(Executor) /\ executors # <<>>
  BY ClientForm DEF ClientInv, Client
<1> QED
  BY <1>1 DEF Cur

\* A request the user makes, sent or not.
LEMMA RequestStep ==
  ASSUME ClientInv, NEW cmd \in PeerCommands, NEW v \in Vips, Request(cmd, v), applied' = applied
  PROVE  ClientInv'
<1>1. CASE Waiting
  <2>1. UNCHANGED <<executors, node, m_is_working>>
    BY <1>1 DEF Request
  <2> QED
    BY <2>1, ClientUnchanged
<1>2. CASE ~Waiting
  <2>1. Becomes(sendCommand(Client, Cur, cmd, v))
    BY <1>2 DEF Request
  <2>2. cmd \in Commands /\ v \in Vips \cup {NoPeer} /\ Cur \in DOMAIN executors
    BY CurExists DEF Commands
  <2> QED
    BY <2>1, <2>2, CommandStep
<1> QED
  BY <1>1, <1>2

\* One that may end the program.
LEMMA PlainStep ==
  ASSUME ClientInv, FlagsInv, NEW cmd \in PlainCommands, PlainRequest(cmd), Unread
  PROVE  ClientInv' /\ FlagsInv'
<1>0. applied' = applied /\ executed' = executed /\ misframed' = misframed
  BY DEF Unread
<1>1. CASE Waiting
  <2>1. UNCHANGED <<executors, node, m_is_working>> /\ exited' = TRUE
    BY <1>1 DEF PlainRequest
  <2>2. FlagsInv'
    BY <1>0, <2>1 DEF FlagsInv
  <2> QED
    BY <1>0, <2>1, <2>2, ClientUnchanged
<1>2. CASE ~Waiting
  <2>1. Becomes(sendCommand(Client, Cur, cmd, NoPeer)) /\ exited' = exited
    BY <1>2 DEF PlainRequest
  <2>2. cmd \in Commands /\ cmd \notin NamesPeer /\ NoPeer \in Vips \cup {NoPeer} /\ Cur \in DOMAIN executors
    BY CurExists DEF Commands, PlainCommands, NamesPeer
  <2>3. FlagsInv'
    BY <1>0, <2>1 DEF FlagsInv
  <2> QED
    BY <1>0, <2>1, <2>2, <2>3, CommandStep
<1> QED
  BY <1>1, <1>2

\* The flags and the list of an unread step.
LEMMA FlagsUnread ==
  ASSUME FlagsInv, exited' = exited, Unread
  PROVE  FlagsInv' /\ applied' = applied
  BY DEF FlagsInv, Unread

\* The list as it was.
LEMMA ListUnchanged ==
  ASSUME ListInv, peers' = peers, selected' \in {selected, <<>>}
  PROVE  ListInv'
<1>1. OneRow(peers')
  BY DEF ListInv, OneRow, OneRowPerPeer
<1>2. KeepsRows(peers, peers')
  BY DEF ListInv, KeepsRows
<1> QED
  BY <1>1, <1>2, RowsStay

\* The slots of the user that name a peer.
LEMMA PeerSlots ==
  ASSUME GuiInv, NEW v \in Vips, addActionSlot(v) \/ connectToNet(v)
  PROVE  GuiInv'
<1>0. ClientInv /\ ListInv /\ FlagsInv /\ OneRow(peers)
  BY DEF GuiInv, ListInv, OneRow, OneRowPerPeer
<1>1. CASE addActionSlot(v)
  <2>1. peers' = addPeer(peers, v) /\ Request("add_peer", v) /\ selected' = selected /\ exited' = exited /\ Unread
    BY <1>1 DEF addActionSlot
  <2>2. FlagsInv' /\ applied' = applied
    BY <1>0, <2>1, FlagsUnread
  <2>3. ClientInv'
    BY <1>0, <2>1, <2>2, RequestStep DEF PeerCommands
  <2>4. ListInv'
    BY <1>0, <2>1, AddRow, RowsStay
  <2> QED
    BY <2>2, <2>3, <2>4 DEF GuiInv
<1>2. CASE connectToNet(v)
  <2>1. Request("add_peer", v) /\ peers' = peers /\ selected' = selected /\ exited' = exited /\ Unread
    BY <1>2 DEF connectToNet
  <2>2. FlagsInv' /\ applied' = applied
    BY <1>0, <2>1, FlagsUnread
  <2>3. ClientInv'
    BY <1>0, <2>1, <2>2, RequestStep DEF PeerCommands
  <2>4. ListInv'
    BY <1>0, <2>1, ListUnchanged
  <2> QED
    BY <2>2, <2>3, <2>4 DEF GuiInv
<1> QED
  BY <1>1, <1>2

\* The box: what it asks about, and its answers.
LEMMA BoxSlots ==
  ASSUME GuiInv,
         \/ \E i \in 1 .. Len(peers), what \in {"ban", "remove"} : contextMenuEvent(i, what)
         \/ BoxRefused
  PROVE  GuiInv'
<1>0. ClientInv /\ ListInv /\ FlagsInv
  BY DEF GuiInv
<1>1. UNCHANGED <<executors, node, peers, m_is_working, exited>> /\ Unread
  BY DEF contextMenuEvent, BoxRefused
<1>2. FlagsInv' /\ applied' = applied
  BY <1>0, <1>1, FlagsUnread
<1>3. ClientInv'
  BY <1>0, <1>1, <1>2, ClientUnchanged
<1>4. CASE BoxRefused
  <2>1. selected' = <<>>
    BY <1>4 DEF BoxRefused
  <2>2. ListInv'
    BY <1>0, <1>1, <2>1, ListUnchanged
  <2> QED
    BY <1>2, <1>3, <2>2 DEF GuiInv
<1>5. ASSUME NEW i \in 1 .. Len(peers), NEW what \in {"ban", "remove"}, contextMenuEvent(i, what)
      PROVE  GuiInv'
  <2>1. selected' = <<what, i, peers[i].vip>> /\ peers' = peers
    BY <1>5 DEF contextMenuEvent
  <2>2. peers \in Seq(Row) /\ peers[i] \in Row /\ i \in Nat \ {0} /\ i <= Len(peers)
    BY <1>0 DEF ListInv
  <2>3. peers[i].vip \in Vips
    BY <2>2 DEF Row
  <2>4. SelectedOK'
    BY <2>1, <2>2, <2>3 DEF SelectedOK
  <2>5. SelectionHolds'
    BY <2>1, <2>2 DEF SelectionHolds
  <2>6. ListInv'
    BY <1>0, <2>1, <2>4, <2>5 DEF ListInv, OneRowPerPeer
  <2> QED
    BY <1>2, <1>3, <2>6 DEF GuiInv
<1> QED
  BY <1>4, <1>5

\* The box is answered with Yes.
LEMMA AnsweredSlots ==
  ASSUME GuiInv, banActionSlot \/ removeActionSlot
  PROVE  GuiInv'
<1> DEFINE i == selected[2]
           started == startActionOnIndex(peers, i)
<1>0. ClientInv /\ ListInv /\ FlagsInv /\ OneRow(peers)
  BY DEF GuiInv, ListInv, OneRow, OneRowPerPeer
<1>1. selected # <<>> /\ selected' = <<>> /\ exited' = exited /\ Unread
  BY DEF banActionSlot, removeActionSlot
<1>2. FlagsInv' /\ applied' = applied
  BY <1>0, <1>1, FlagsUnread
<1>3. selected[3] \in Vips /\ i \in 1 .. Len(peers) /\ peers[i].vip = selected[3]
  <2>1. i \in Nat \ {0} /\ selected[3] \in Vips /\ peers \in Seq(Row)
    BY <1>0, <1>1 DEF ListInv, SelectedOK
  <2>2. i <= Len(peers) /\ peers[i].vip = selected[3]
    BY <1>0, <1>1 DEF ListInv, SelectionHolds
  <2> QED
    BY <2>1, <2>2
<1>4. OneRow(started)
  BY <1>0, <1>3, StartRow
<1> HIDE DEF i, started
<1>5. CASE banActionSlot
  <2>1. peers' = confirmBanPeer(started, selected[3]) /\ Request("ban_peer", selected[3])
    BY <1>5 DEF banActionSlot, i, started
  <2>2. ClientInv'
    BY <1>0, <1>2, <1>3, <2>1, RequestStep DEF PeerCommands
  <2>3. OneRow(peers')
    BY <1>3, <1>4, <2>1, BanRow
  <2>4. ListInv'
    BY <1>0, <1>1, <2>3, RowsStay
  <2> QED
    BY <1>2, <2>2, <2>4 DEF GuiInv
<1>6. CASE removeActionSlot
  <2>1. Request("delete_peer", peers[i].vip) /\ peers' = confirmDeletePeer(started, peers[i].vip)
    BY <1>6 DEF removeActionSlot, i, started
  <2>2. ClientInv'
    BY <1>0, <1>2, <1>3, <2>1, RequestStep DEF PeerCommands
  <2>3. OneRow(peers')
    BY <1>3, <1>4, <2>1, DeleteRow
  <2>4. ListInv'
    BY <1>0, <1>1, <2>3, RowsStay
  <2> QED
    BY <1>2, <2>2, <2>4 DEF GuiInv
<1> QED
  BY <1>5, <1>6

\* The slots for all peers, and the ping.
LEMMA PlainSlots ==
  ASSUME GuiInv, banAllSlot \/ deleteAllSlot \/ on_ping_clicked
  PROVE  GuiInv'
<1>0. ClientInv /\ ListInv /\ FlagsInv /\ OneRow(peers)
  BY DEF GuiInv, ListInv, OneRow, OneRowPerPeer
<1>1. CASE banAllSlot
  <2>1. peers' = banAllPeers(peers) /\ PlainRequest("ban_all_peers") /\ selected' = selected /\ Unread
    BY <1>1 DEF banAllSlot
  <2>2. ClientInv' /\ FlagsInv'
    BY <1>0, <2>1, PlainStep DEF PlainCommands
  <2>3. ListInv'
    BY <1>0, <2>1, BanRows, RowsStay
  <2> QED
    BY <2>2, <2>3 DEF GuiInv
<1>2. CASE deleteAllSlot
  <2>1. peers' = <<>> /\ PlainRequest("delete_all_peers") /\ selected' = selected /\ Unread /\ selected = <<>>
    BY <1>2 DEF deleteAllSlot, deletaAllPeers, Free
  <2>2. ClientInv' /\ FlagsInv'
    BY <1>0, <2>1, PlainStep DEF PlainCommands
  <2>3. OneRow(peers')
    BY <2>1 DEF OneRow
  <2>4. ListInv'
    BY <1>0, <2>1, <2>3, RowsStay
  <2> QED
    BY <2>2, <2>4 DEF GuiInv
<1>3. CASE on_ping_clicked
  <2>1. peers' = peers /\ PlainRequest("ping") /\ selected' = selected /\ Unread
    BY <1>3 DEF on_ping_clicked
  <2>2. ClientInv' /\ FlagsInv'
    BY <1>0, <2>1, PlainStep DEF PlainCommands
  <2>3. ListInv'
    BY <1>0, <2>1, ListUnchanged
  <2> QED
    BY <2>2, <2>3 DEF GuiInv
<1> QED
  BY <1>1, <1>2, <1>3

\* hello of executor e keeps a client that is well.
LEMMA SayHello ==
  ASSUME NEW c \in Clients, NEW e \in DOMAIN c.ex, NEW done \in Seq(Nat), ClientOK(c, done), CounterOK(c)
  PROVE  LET d == sendCommand(c, e, "hello", NoPeer)
         IN  d \in Clients /\ DOMAIN d.ex = DOMAIN c.ex /\ ClientOK(d, done) /\ CounterOK(d)
             /\ \A f \in DOMAIN c.ex : c.ex[f].clash => d.ex[f].clash
<1> DEFINE d == sendCommand(c, e, "hello", NoPeer)
<1>1. "hello" \in Commands /\ "hello" \notin NamesPeer /\ NoPeer \in Vips \cup {NoPeer}
  BY DEF Commands, NamesPeer
<1>2. /\ d \in Clients /\ DOMAIN d.ex = DOMAIN c.ex /\ ClientOK(d, done)
      /\ (\A f \in DOMAIN c.ex : c.ex[f].clash => d.ex[f].clash)
      /\ (\A f \in DOMAIN c.ex \ {e} : c.ex[f].m_client_name # 0 => c.ex[f].m_counter > 0)
           /\ (c.ex[e].m_client_name # 0 => c.ex[e].m_counter > 0 \/ "hello" # "hello")
           => CounterOK(d)
  BY <1>1, SendKeeps
<1>3. CounterOK(d)
  BY <1>2 DEF CounterOK
<1> QED
  BY <1>2, <1>3

\* What changes no clash, for the compositions below.
LEMMA ShrinksClash ==
  ASSUME NEW c \in Clients, NEW done \in Seq(Nat), NEW d, ClientOK(c, done), CounterOK(c), Shrinks(c, d)
  PROVE  /\ d \in Clients /\ DOMAIN d.ex = DOMAIN c.ex /\ ClientOK(d, done) /\ CounterOK(d) /\ OwnConns(d)
         /\ \A f \in DOMAIN c.ex : d.ex[f].clash = c.ex[f].clash
<1>1. ClientOK(d, done) /\ CounterOK(d)
  BY ShrinksKeeps
<1> QED
  BY <1>1 DEF Shrinks, Same

\* The connect button.
LEMMA ResetStep ==
  ASSUME ClientInv, resetConnection, applied' = applied
  PROVE  ClientInv'
<1> DEFINE a == closeConnection(Client, 1)
           b == [a EXCEPT !.working = FALSE]
           s == sendCommand(b, 1, "hello", NoPeer)
           d == [s EXCEPT !.working = FALSE]
<1>1. Client \in Clients /\ applied \in Seq(Nat) /\ ClientOK(Client, applied) /\ CounterOK(Client)
      /\ Client.ex = executors /\ 1 \in DOMAIN executors /\ OwnConns(Client)
  BY CurExists DEF ClientInv, Client, ClientOK
<1>2. Becomes(d)
  BY DEF resetConnection
<1>3. Shrinks(Client, a)
  BY <1>1, CloseEffect
<1> HIDE DEF a, s
<1>4. /\ a \in Clients /\ DOMAIN a.ex = DOMAIN executors /\ ClientOK(a, applied) /\ CounterOK(a) /\ OwnConns(a)
      /\ \A f \in DOMAIN executors : a.ex[f].clash = executors[f].clash
  BY <1>1, <1>3, ShrinksClash
<1>5. Shrinks(a, b)
  <2>1. FALSE \in BOOLEAN
    OBVIOUS
  <2> QED
    BY <1>4, <2>1, SetWorking
<1> HIDE DEF b
<1>6. /\ b \in Clients /\ DOMAIN b.ex = DOMAIN executors /\ ClientOK(b, applied) /\ CounterOK(b) /\ OwnConns(b)
      /\ \A f \in DOMAIN executors : b.ex[f].clash = executors[f].clash
  BY <1>1, <1>4, <1>5, ShrinksClash
<1>7. s \in Clients /\ DOMAIN s.ex = DOMAIN executors /\ ClientOK(s, applied) /\ CounterOK(s)
      /\ \A f \in DOMAIN executors : executors[f].clash => s.ex[f].clash
  BY <1>1, <1>6, SayHello DEF s
<1>8. Shrinks(s, d)
  <2>1. FALSE \in BOOLEAN /\ OwnConns(s)
    BY <1>7 DEF ClientOK
  <2> QED
    BY <1>7, <2>1, SetWorking
<1> HIDE DEF d
<1>9. /\ d \in Clients /\ DOMAIN d.ex = DOMAIN executors /\ ClientOK(d, applied) /\ CounterOK(d)
      /\ \A f \in DOMAIN executors : executors[f].clash => d.ex[f].clash
  BY <1>1, <1>7, <1>8, ShrinksClash
<1>10. Client' = d
  BY <1>2, <1>9, BecomesClient
<1> QED
  BY <1>9, <1>10, ClientStays

\* The settings.
LEMMA SettingsStep ==
  ASSUME ClientInv, startNewCrpcConnection, applied' = applied
  PROVE  ClientInv'
<1> DEFINE e == Cur + 1
           n == [Client EXCEPT !.ex = Append(@, commandExecutor)]
           made == startCommunication(n, e)
           a == IF is_connected(made, e) THEN closeConnection(made, e) ELSE made
           b == startConnect(a, e)
           d == sendCommand(b, e, "hello", NoPeer)
<1>1. Client \in Clients /\ applied \in Seq(Nat) /\ ClientOK(Client, applied) /\ CounterOK(Client)
      /\ Client.ex = executors /\ executors \in Seq(Executor)
  BY CurExists DEF ClientInv, Client
<1>2. Becomes(d)
  BY Zenon DEF startNewCrpcConnection
<1>3. n \in Clients /\ Len(n.ex) = Len(executors) + 1 /\ ClientOK(n, applied) /\ CounterOK(n)
      /\ \A f \in DOMAIN executors : n.ex[f] = executors[f]
  BY <1>1, NewExecutorKeeps
<1> HIDE DEF n
<1>4. e \in DOMAIN n.ex /\ DOMAIN executors \subseteq DOMAIN n.ex
  <2>1. n.ex \in Seq(Executor)
    BY <1>3, ClientForm
  <2> QED
    BY <1>1, <1>3, <2>1 DEF Cur
<1> HIDE DEF e
<1>5. made \in Clients /\ DOMAIN made.ex = DOMAIN n.ex /\ ClientOK(made, applied) /\ CounterOK(made)
      /\ \A f \in DOMAIN n.ex : made.ex[f].clash = n.ex[f].clash
  BY <1>1, <1>3, <1>4, HelloKeeps
<1> HIDE DEF made
<1>6. Shrinks(made, a)
  <2>1. OwnConns(made) /\ made.nd.requests \in Nat
    BY <1>5, ClientForm DEF ClientOK
  <2>2. Shrinks(made, made)
    BY <1>5, <2>1 DEF Shrinks, Same
  <2>3. Shrinks(made, closeConnection(made, e))
    BY <1>4, <1>5, <2>1, CloseEffect
  <2> QED
    BY <2>2, <2>3
<1> HIDE DEF a
<1>7. /\ a \in Clients /\ DOMAIN a.ex = DOMAIN n.ex /\ ClientOK(a, applied) /\ CounterOK(a) /\ OwnConns(a)
      /\ \A f \in DOMAIN n.ex : a.ex[f].clash = n.ex[f].clash
  BY <1>1, <1>5, <1>6, ShrinksClash
<1>8. Shrinks(a, b)
  BY <1>4, <1>7, NewConn
<1> HIDE DEF b
<1>9. /\ b \in Clients /\ DOMAIN b.ex = DOMAIN n.ex /\ ClientOK(b, applied) /\ CounterOK(b)
      /\ \A f \in DOMAIN n.ex : b.ex[f].clash = n.ex[f].clash
  BY <1>1, <1>7, <1>8, ShrinksClash
<1>10. d \in Clients /\ DOMAIN d.ex = DOMAIN n.ex /\ ClientOK(d, applied) /\ CounterOK(d)
       /\ \A f \in DOMAIN n.ex : n.ex[f].clash => d.ex[f].clash
  BY <1>1, <1>4, <1>9, SayHello
<1> HIDE DEF d
<1>11. Client' = d
  BY <1>2, <1>10, BecomesClient
<1>12. \A f \in DOMAIN executors : executors[f].clash => d.ex[f].clash
  BY <1>3, <1>4, <1>10
<1> QED
  BY <1>4, <1>10, <1>11, <1>12, ClientStays

\* The slots that touch connections only.
LEMMA ConnectionSlots ==
  ASSUME GuiInv, resetConnection \/ startNewCrpcConnection \/ \E e \in 1 .. Len(executors) : timer_slot(e)
  PROVE  GuiInv'
<1>0. ClientInv /\ ListInv /\ FlagsInv
  BY DEF GuiInv
<1>1. peers' = peers /\ selected' = selected /\ exited' = exited /\ Unread
  BY DEF resetConnection, startNewCrpcConnection, timer_slot
<1>2. FlagsInv' /\ applied' = applied
  BY <1>0, <1>1, FlagsUnread
<1>3. ListInv'
  BY <1>0, <1>1, ListUnchanged
<1>4. ASSUME NEW e \in 1 .. Len(executors), timer_slot(e) PROVE ClientInv'
  <2>1. Becomes(sendCommand(Client, e, "get_status", NoPeer))
    BY <1>4 DEF timer_slot
  <2>2. "get_status" \in Commands /\ "get_status" \notin NamesPeer /\ NoPeer \in Vips \cup {NoPeer}
    BY DEF Commands, PlainCommands, NamesPeer
  <2>3. e \in DOMAIN executors
    BY <1>0, CurExists
  <2> QED
    BY <1>0, <1>2, <2>1, <2>2, <2>3, CommandStep
<1>5. ClientInv'
  BY <1>0, <1>2, <1>4, ResetStep, SettingsStep
<1> QED
  BY <1>2, <1>3, <1>5 DEF GuiInv

\* The node touches connection k only.
OnlyConn(k) ==
  /\ executors' = executors /\ Len(node'.conns) = Len(node.conns)
  /\ \A j \in 1 .. Len(node.conns) : j # k => node'.conns[j] = node.conns[j]

\* Connection g becomes h when the answer m is put on its stream.
Answered(g, h, m) ==
  /\ g.open /\ m.nr = g.sent + 1 /\ h.sent = g.sent + 1
  /\ h.stream = g.stream \o <<<<"head", m>>, <<"tail", m>>>>

\* Connection g becomes h when its session ends and cuts what is on the way.
SessionCut(g, h) == ~h.open /\ \E n \in 0 .. Len(g.stream) : h.stream = SubSeq(g.stream, 1, n)

\* An answer carries what was asked.
LEMMA AnswerStep ==
  ASSUME ClientInv, NEW k \in 1 .. Len(node.conns), NodeAnswer(k)
  PROVE  /\ ClientInv' /\ OnlyConn(k)
         /\ \E m \in Reply : m.conn = k /\ Answered(node.conns[k], node'.conns[k], m)
<1> DEFINE g == node.conns[k]
           req == Head(g.asks)
<1>1. Client \in Clients /\ OwnConns(Client) /\ Client.nd = node /\ Client.ex = executors
      /\ Client.working = m_is_working
  BY DEF ClientInv, ClientOK, Client
<1>2. node \in Node /\ node.conns \in Seq(Conn) /\ g \in Conn /\ g.asks \in Seq(Ask) /\ g.stream \in Seq(Unit)
      /\ g.sid \in Nat /\ g.sent \in Nat /\ g.open \in BOOLEAN
  <2>1. node \in Node /\ node.conns \in Seq(Conn)
    BY <1>1, ClientForm
  <2>2. g \in Conn
    BY <2>1
  <2> QED
    BY <2>1, <2>2 DEF Conn
<1>3. g.open /\ g.asks # <<>> /\ UNCHANGED <<executors, m_is_working>> /\ applied' = applied
  BY DEF NodeAnswer, Unread
<1>4. PICK state \in States(req.cmd) :
        LET m == [cmd |-> req.cmd, state |-> state, re |-> req.id, n |-> req.n,
                  sid |-> g.sid, conn |-> k, nr |-> g.sent + 1]
        IN  node' = [node EXCEPT !.conns[k].asks = Tail(@), !.conns[k].sent = @ + 1,
                                 !.conns[k].stream = @ \o <<<<"head", m>>, <<"tail", m>>>>]
  BY Zenon DEF NodeAnswer
<1> DEFINE m == [cmd |-> req.cmd, state |-> state, re |-> req.id, n |-> req.n,
                 sid |-> g.sid, conn |-> k, nr |-> g.sent + 1]
           units == <<<<"head", m>>, <<"tail", m>>>>
<1>5. req \in Range(g.asks) /\ Tail(g.asks) \in Seq(Ask) /\ Range(Tail(g.asks)) \subseteq Range(g.asks)
  BY <1>2, <1>3, RangeOfTail
<1>6. req \in Ask
  BY <1>2, <1>5, UnitsOfSeq
<1>7. node' = [node EXCEPT !.conns[k].asks = Tail(@), !.conns[k].sent = @ + 1,
                           !.conns[k].stream = @ \o units]
  BY <1>4, Zenon
<1> HIDE DEF req
<1>8. m \in Reply /\ m.cmd = req.cmd /\ m.re = req.id /\ m.n = req.n
      /\ m.conn = k /\ m.nr = g.sent + 1
  <2>1. state \in {"ok", "blocked", "error", "nothing_done"}
    BY <1>4 DEF States
  <2> QED
    BY <1>2, <1>6, <2>1 DEF Reply, Ask
<1> HIDE DEF m
<1>9. units \in Seq(Unit) /\ \A u \in Range(units) : Asked(u) = req
  <2>1. <<"head", m>> \in Unit /\ <<"tail", m>> \in Unit
    BY <1>8 DEF Unit
  <2>2. Asked(<<"head", m>>) = req /\ Asked(<<"tail", m>>) = req
    BY <1>6, <1>8 DEF Asked, Ask
  <2>3. units \in Seq(Unit) /\ Range(units) = {<<"head", m>>, <<"tail", m>>}
    BY <2>1 DEF Range
  <2> QED
    BY <2>2, <2>3
<1> HIDE DEF units
<1>10. g.stream \o units \in Seq(Unit) /\ Range(g.stream \o units) \subseteq Range(g.stream) \cup Range(units)
  BY <1>2, <1>9, RangeOfConcat
<1> DEFINE r == Tail(g.asks)
           t == g.sent + 1
           s == g.stream \o units
           g1 == [g EXCEPT !.asks = r]
           g2 == [g1 EXCEPT !.sent = t]
           h == [g2 EXCEPT !.stream = s]
           n1 == [node EXCEPT !.conns[k].asks = r]
           n2 == [n1 EXCEPT !.conns[k].sent = t]
<1>11. h \in Conn /\ h.asks = r /\ h.stream = s /\ h.sent = t
  <2>1. r \in Seq(Ask) /\ t \in Nat /\ s \in Seq(Unit)
    BY <1>2, <1>5, <1>10
  <2> HIDE DEF r, t, s, g
  <2>2. g1 \in Conn /\ g1.asks = r
    BY <1>2, <2>1 DEF Conn
  <2> HIDE DEF g1
  <2>3. g2 \in Conn /\ g2.asks = r /\ g2.sent = t
    BY <2>1, <2>2 DEF Conn
  <2> HIDE DEF g2
  <2> QED
    BY <2>1, <2>3 DEF Conn
<1>12. /\ node' \in Node /\ node'.requests = node.requests /\ Len(node'.conns) = Len(node.conns)
       /\ node'.conns[k] = h
       /\ \A j \in 1 .. Len(node.conns) : j # k => node'.conns[j] = node.conns[j]
  <2>1. r \in Seq(Ask) /\ t \in Nat /\ s \in Seq(Unit)
    BY <1>2, <1>5, <1>10
  <2>2. node' = [n2 EXCEPT !.conns[k].stream = n2.conns[k].stream \o units]
        /\ n1 = [node EXCEPT !.conns = [node.conns EXCEPT ![k] = g1]]
        /\ g1 \in Conn /\ g1.stream = g.stream /\ g1.sent = g.sent
    <3>1. n1 = [node EXCEPT !.conns = [node.conns EXCEPT ![k] = g1]]
      BY <1>2 DEF Node
    <3> HIDE DEF r
    <3>2. g1 \in Conn /\ g1.stream = g.stream /\ g1.sent = g.sent
      BY <1>2, <2>1 DEF Conn
    <3>3. n1.conns[k].sent = g.sent
      BY <1>2, <3>1, <3>2 DEF Node
    <3>4. node' = [[[node EXCEPT !.conns[k].asks = Tail(@)] EXCEPT !.conns[k].sent = @ + 1]
                      EXCEPT !.conns[k].stream = @ \o units]
      BY <1>7, ZenonT(60)
    <3>5. [node EXCEPT !.conns[k].asks = Tail(@)] = n1
      BY DEF r
    <3> HIDE DEF n1, t
    <3>6. node' = [[n1 EXCEPT !.conns[k].sent = @ + 1] EXCEPT !.conns[k].stream = @ \o units]
      BY <3>4, <3>5
    <3>7. [n1 EXCEPT !.conns[k].sent = @ + 1] = n2
      BY <3>3 DEF t
    <3> HIDE DEF n2
    <3>8. node' = [n2 EXCEPT !.conns[k].stream = n2.conns[k].stream \o units]
      BY <3>6, <3>7
    <3> QED
      BY <3>1, <3>2, <3>8
  <2> HIDE DEF r, t, s, g1, n1, g
  <2>3. /\ n1 \in Node /\ n1.requests = node.requests /\ Len(n1.conns) = Len(node.conns) /\ n1.conns[k] = g1
        /\ \A j \in 1 .. Len(node.conns) : j # k => n1.conns[j] = node.conns[j]
    BY <1>2, <2>2, PutConn
  <2>4. n2 = [n1 EXCEPT !.conns = [n1.conns EXCEPT ![k] = g2]] /\ n1.conns \in Seq(Conn)
    BY <2>3 DEF Node
  <2>5. g2 \in Conn /\ g2.stream = g1.stream
    BY <2>1, <2>2 DEF Conn
  <2> HIDE DEF n2, g2
  <2>6. /\ n2 \in Node /\ n2.requests = node.requests /\ Len(n2.conns) = Len(node.conns) /\ n2.conns[k] = g2
        /\ \A j \in 1 .. Len(node.conns) : j # k => n2.conns[j] = node.conns[j]
    <3>1. /\ n2 \in Node /\ n2.requests = n1.requests /\ Len(n2.conns) = Len(n1.conns) /\ n2.conns[k] = g2
          /\ \A j \in 1 .. Len(n1.conns) : j # k => n2.conns[j] = n1.conns[j]
      BY <2>3, <2>4, <2>5, PutConn
    <3> QED
      BY <2>3, <3>1
  <2>7. n2.conns[k].stream \o units = s
    BY <2>2, <2>5, <2>6 DEF s
  <2>8. node' = [n2 EXCEPT !.conns = [n2.conns EXCEPT ![k] = h]]
    <3>1. n2.conns \in Seq(Conn)
      BY <2>6 DEF Node
    <3>2. node' = [n2 EXCEPT !.conns[k].stream = s]
      BY <2>2, <2>7
    <3> QED
      BY <2>6, <3>1, <3>2 DEF Node
  <2> HIDE DEF h
  <2>9. /\ node' \in Node /\ node'.requests = n2.requests /\ Len(node'.conns) = Len(n2.conns) /\ node'.conns[k] = h
        /\ \A j \in 1 .. Len(n2.conns) : j # k => node'.conns[j] = n2.conns[j]
    BY <1>11, <2>6, <2>8, PutConn
  <2> QED
    BY <2>6, <2>9
<1>13. OnConn(h) \subseteq OnConn(g)
  BY <1>5, <1>9, <1>10, <1>11 DEF OnConn
<1>18. Answered(g, h, m)
  BY <1>3, <1>8, <1>11 DEF Answered, units
<1> HIDE DEF h
<1> DEFINE d == [ex |-> executors, nd |-> node', working |-> m_is_working]
<1>14. Client' = d
  BY <1>3 DEF Client
<1>15. d.nd = node'
  OBVIOUS
<1>16. d = [ex |-> Client.ex, nd |-> d.nd, working |-> Client.working]
  BY <1>1, <1>15, Zenon
<1> HIDE DEF d
<1>17. Shrinks(Client, d)
  BY <1>1, <1>11, <1>12, <1>13, <1>15, <1>16, ConnStep
<1>19. ClientInv'
  BY <1>3, <1>14, <1>17, ShrinksStep
<1>20. OnlyConn(k) /\ Answered(node.conns[k], node'.conns[k], m)
  BY <1>3, <1>12, <1>18 DEF OnlyConn
<1> QED
  BY <1>8, <1>19, <1>20

\* A session that ends loses what it carries.
LEMMA CloseStep ==
  ASSUME ClientInv, NEW k \in 1 .. Len(node.conns), NodeClose(k)
  PROVE  ClientInv' /\ OnlyConn(k) /\ SessionCut(node.conns[k], node'.conns[k])
<1> DEFINE g == node.conns[k]
<1>1. Client \in Clients /\ OwnConns(Client) /\ Client.nd = node /\ Client.ex = executors
      /\ Client.working = m_is_working
  BY DEF ClientInv, ClientOK, Client
<1>2. node \in Node /\ node.conns \in Seq(Conn) /\ g \in Conn
  <2>1. node \in Node /\ node.conns \in Seq(Conn)
    BY <1>1, ClientForm
  <2> QED
    BY <2>1
<1>3. UNCHANGED <<executors, m_is_working>> /\ applied' = applied
  BY DEF NodeClose, Unread
<1>4. PICK n \in 0 .. Len(g.stream) :
        node' = [node EXCEPT !.conns[k] = [Ended(g) EXCEPT !.stream = SubSeq(@, 1, n)]]
  BY Zenon DEF NodeClose
<1> DEFINE y == Ended(g)
           s == SubSeq(y.stream, 1, n)
           h == [y EXCEPT !.stream = s]
<1>5. node' = [node EXCEPT !.conns = [node.conns EXCEPT ![k] = h]]
  <2>1. node' = [node EXCEPT !.conns[k] = h]
    BY <1>4
  <2> HIDE DEF h
  <2> QED
    BY <1>2, <2>1 DEF Node
<1> HIDE DEF g
<1>6. y \in Conn /\ y.asks = <<>> /\ y.stream = g.stream /\ ~y.open
  BY <1>2, EndedForm DEF Ended, Conn
<1> HIDE DEF y
<1>7. s \in Seq(Unit) /\ Range(s) \subseteq Range(g.stream)
  <2>1. y.stream \in Seq(Unit) /\ n \in Nat /\ n <= Len(y.stream) /\ 1 \in Nat \ {0}
    BY <1>4, <1>6 DEF Conn
  <2> QED
    BY <1>6, <2>1, RangeOfSubSeq
<1> HIDE DEF s
<1>8. h \in Conn /\ h.asks = <<>> /\ h.stream = s /\ ~h.open
  BY <1>6, <1>7 DEF Conn
<1> HIDE DEF h
<1>9. OnConn(h) \subseteq OnConn(g)
  BY <1>7, <1>8, RangeOfEmpty DEF OnConn
<1>10. /\ node' \in Node /\ node'.requests = node.requests /\ Len(node'.conns) = Len(node.conns)
       /\ node'.conns[k] = h
       /\ \A j \in 1 .. Len(node.conns) : j # k => node'.conns[j] = node.conns[j]
  BY <1>2, <1>5, <1>8, PutConn
<1> DEFINE d == [ex |-> executors, nd |-> node', working |-> m_is_working]
<1>14. Client' = d
  BY <1>3 DEF Client
<1>15. d.nd = node'
  OBVIOUS
<1>16. d = [ex |-> Client.ex, nd |-> d.nd, working |-> Client.working]
  BY <1>1, <1>15, Zenon
<1> HIDE DEF d
<1>17. Shrinks(Client, d)
  BY <1>1, <1>8, <1>9, <1>10, <1>15, <1>16, ConnStep DEF g
<1>18. ClientInv'
  BY <1>3, <1>14, <1>17, ShrinksStep
<1>19. OnlyConn(k) /\ SessionCut(node.conns[k], node'.conns[k])
  BY <1>3, <1>4, <1>6, <1>8, <1>10 DEF OnlyConn, SessionCut, s, g
<1> QED
  BY <1>18, <1>19

\* A restart of the node changes no connection.
LEMMA RestartStep ==
  ASSUME ClientInv, NodeRestart
  PROVE  ClientInv'
<1>1. Client \in Clients /\ OwnConns(Client) /\ Client.nd = node /\ Client.ex = executors
      /\ Client.working = m_is_working
  BY DEF ClientInv, ClientOK, Client
<1>2. node \in Node /\ node.requests \in Nat /\ executors \in Seq(Executor)
  BY <1>1, ClientForm
<1>3. UNCHANGED <<executors, m_is_working>> /\ applied' = applied
      /\ node' = [node EXCEPT !.up = ~@, !.sessions = 0]
  BY DEF NodeRestart, Unread
<1>4. node' \in Node
  <2> DEFINE u == ~node.up
  <2>1. u \in BOOLEAN /\ node' = [node EXCEPT !.up = u, !.sessions = 0] /\ 0 \in Nat
    BY <1>3
  <2> HIDE DEF u
  <2> QED
    BY <1>2, <2>1, Zenon DEF Node
<1>5. node'.requests = node.requests /\ node'.conns = node.conns
  BY <1>2, <1>3 DEF Node
<1> DEFINE d == Client'
<1>6. d.ex = executors /\ d.nd = node' /\ d.working = m_is_working
      /\ d = [ex |-> d.ex, nd |-> d.nd, working |-> d.working]
  BY <1>3 DEF Client
<1>7. d.working \in BOOLEAN
  BY <1>1, <1>6, ClientForm
<1> HIDE DEF d
<1>8. d \in Clients
  BY <1>2, <1>4, <1>6, <1>7 DEF Clients
<1>9. OwnConns(d) /\ \A f \in DOMAIN executors : Carried(d, f) = Carried(Client, f)
  BY <1>1, <1>5, <1>6 DEF OwnConns, Carried
<1>10. d.nd.requests >= Client.nd.requests
  BY <1>1, <1>2, <1>5, <1>6
<1>11. Shrinks(Client, d)
  BY <1>1, <1>6, <1>8, <1>9, <1>10 DEF Shrinks, Same
<1> QED
  BY <1>3, <1>11, ShrinksStep DEF d

\* The steps of the node.
LEMMA NodeSteps ==
  ASSUME GuiInv, \/ \E k \in 1 .. Len(node.conns) : NodeAnswer(k) \/ NodeClose(k)
                 \/ NodeRestart
  PROVE  GuiInv'
<1>0. ClientInv /\ ListInv /\ FlagsInv
  BY DEF GuiInv
<1>1. peers' = peers /\ selected' = selected /\ exited' = exited /\ Unread
  BY DEF NodeAnswer, NodeClose, NodeRestart
<1>2. FlagsInv'
  BY <1>0, <1>1, FlagsUnread
<1>3. ListInv'
  BY <1>0, <1>1, ListUnchanged
<1>4. ClientInv'
  BY <1>0, AnswerStep, CloseStep, RestartStep
<1> QED
  BY <1>2, <1>3, <1>4 DEF GuiInv

\* A client that has read, and the reply m it has got: the request of m is one it carries.
Has(c, e, m) ==
  /\ Shrinks(Client, c) /\ e \in DOMAIN c.ex /\ m \in Reply
  /\ [cmd |-> m.cmd, id |-> m.re, n |-> m.n] \in Carried(c, e)

\* What the invariant says of a client that has read.
LEMMA HasForm ==
  ASSUME ClientInv, NEW c, NEW e, NEW m, Has(c, e, m)
  PROVE  /\ c \in Clients /\ DOMAIN c.ex = DOMAIN executors /\ ClientOK(c, applied) /\ CounterOK(c)
         /\ applied \in Seq(Nat) /\ e \in DOMAIN c.ex /\ c.ex[e].m_orders \in Orders
         /\ \A f \in DOMAIN executors : c.ex[f].clash = executors[f].clash
<1>1. Client \in Clients /\ applied \in Seq(Nat) /\ ClientOK(Client, applied) /\ CounterOK(Client)
      /\ Client.ex = executors
  BY DEF ClientInv, Client
<1>2. /\ c \in Clients /\ DOMAIN c.ex = DOMAIN executors /\ ClientOK(c, applied) /\ CounterOK(c)
      /\ \A f \in DOMAIN executors : c.ex[f].clash = executors[f].clash
  BY <1>1, ShrinksClash DEF Has
<1>3. e \in DOMAIN c.ex
  BY DEF Has
<1>4. c.ex[e].m_orders \in Orders
  BY <1>2, <1>3, ClientForm, ExecutorForm
<1> QED
  BY <1>1, <1>2, <1>3, <1>4

\* Nothing but the reading.
LEMMA ReadOnly ==
  ASSUME ClientInv, NEW c, Shrinks(Client, c), Becomes(c), applied' = applied
  PROVE  ClientInv'
<1>1. Client' = c
  BY BecomesClient DEF Shrinks
<1> QED
  BY <1>1, ShrinksStep

\* The order of an answer is handed out; the answer may be applied to a row.
LEMMA TakenStep ==
  ASSUME ClientInv, NEW c, NEW e, NEW m, Has(c, e, m), m.cmd # "get_status", ~NoOrder(c, e, m),
         Becomes(getOrder(c, e, m.re)), applied' \in {applied, Append(applied, m.n)}
  PROVE  ClientInv'
<1> DEFINE r == [cmd |-> m.cmd, id |-> m.re, n |-> m.n]
           d == getOrder(c, e, m.re)
<1>1. /\ c \in Clients /\ DOMAIN c.ex = DOMAIN executors /\ ClientOK(c, applied) /\ CounterOK(c)
      /\ applied \in Seq(Nat) /\ e \in DOMAIN c.ex
      /\ \A f \in DOMAIN executors : c.ex[f].clash = executors[f].clash
  BY HasForm
<1>2. r \in Carried(c, e) /\ r.cmd # "get_status" /\ r.id = m.re /\ r.n = m.n
      /\ r.id \in DOMAIN c.ex[e].m_orders
  BY DEF Has, NoOrder
<1> HIDE DEF r
<1>3. /\ d \in Clients /\ DOMAIN d.ex = DOMAIN executors /\ CounterOK(d)
      /\ ClientOK(d, applied) /\ ClientOK(d, Append(applied, m.n)) /\ Append(applied, m.n) \in Seq(Nat)
      /\ (\A f \in DOMAIN executors : d.ex[f].clash = executors[f].clash)
      /\ (~executors[e].clash => m.n \notin Range(applied))
  BY <1>1, <1>2, TakeOrder
<1> HIDE DEF d
<1>4. Client' = d
  BY <1>3, BecomesClient DEF d
<1>5. CASE applied' = applied
  BY <1>3, <1>4, <1>5, ClientStays
<1>6. CASE applied' = Append(applied, m.n)
  <2>1. executors' = d.ex /\ executors \in Seq(Executor) /\ executors' \in Seq(Executor) /\ executors # <<>>
    BY <1>3, <1>4, CurExists, ClientForm DEF Client, ClientInv
  <2>2. DOMAIN executors' = 1 .. Len(executors') /\ DOMAIN executors = 1 .. Len(executors)
    BY <2>1
  <2>3. executors' # <<>>
    <3>1. 1 \in DOMAIN executors
      BY CurExists
    <3>2. 1 \in 1 .. Len(executors')
      BY <1>3, <2>1, <2>2, <3>1
    <3> QED
      BY <2>1, <3>2
  <2>4. ASSUME RpcIdsUnique' PROVE \A i, j \in 1 .. Len(applied') : applied'[i] = applied'[j] => i = j
    <3>1. \A f \in DOMAIN executors : ~executors[f].clash
      BY <1>3, <2>1, <2>2, <2>4 DEF RpcIdsUnique
    <3>2. RpcIdsUnique
      BY <2>2, <3>1 DEF RpcIdsUnique
    <3>3. \A i, j \in 1 .. Len(applied) : applied[i] = applied[j] => i = j
      BY <3>2 DEF ClientInv, AppliedOnce
    <3>4. m.n \notin Range(applied)
      BY <1>1, <1>3, <3>1
    <3>5. \A i \in 1 .. Len(applied) : applied[i] # m.n
      BY <1>1, <3>4, UnitsOfSeq
    <3> QED
      BY <1>1, <1>6, <3>3, <3>5
  <2>5. AppliedOnce'
    BY <2>4 DEF AppliedOnce
  <2>6. ClientOK(Client', applied') /\ CounterOK(Client') /\ Client' \in Clients /\ applied' \in Seq(Nat)
    BY <1>3, <1>4, <1>6
  <2> QED
    BY <2>3, <2>5, <2>6 DEF ClientInv
<1> QED
  BY <1>5, <1>6

\* The peer of an order that names one.
LEMMA OrderPeer ==
  ASSUME ClientInv, NEW c, NEW e, NEW m, Has(c, e, m), ~NoOrder(c, e, m),
         c.ex[e].m_orders[m.re].cmd \in NamesPeer
  PROVE  getPeerName(c, e, m) \in Vips
<1> DEFINE f == c.ex[e].m_orders
<1>1. f \in Orders
  BY HasForm
<1>2. m.re \in DOMAIN f
  BY DEF NoOrder
<1> HIDE DEF f
<1>3. f[m.re] \in Order
  BY <1>1, <1>2, OrdersForm
<1>4. f[m.re].peer \in Vips
  BY <1>3 DEF Order, RowOrder, OtherOrder, f
<1> QED
  BY <1>4 DEF getPeerName, f

\* A reply leaves the list in order, and its rows where they are.
Applies == ClientInv' /\ OneRow(peers') /\ KeepsRows(peers, peers')

\* The answers about one peer.
LEMMA PeerAnswers ==
  ASSUME ClientInv, OneRow(peers), NEW c, NEW e, NEW m, Has(c, e, m),
         \/ m.cmd = "add_peer" /\ ApplyAddPeer(c, e, m)
         \/ m.cmd = "ban_peer" /\ ApplyBanPeer(c, e, m)
         \/ m.cmd = "delete_peer" /\ ApplyDeletePeer(c, e, m)
         \/ m.cmd \in PlainCommands /\ ApplyPlain(c)
  PROVE  Applies
<1> DEFINE f == c.ex[e].m_orders
<1>0. Shrinks(Client, c) /\ KeepsRows(peers, peers)
  BY DEF Has, KeepsRows, OneRow
<1>1. ASSUME Becomes(c), UNCHANGED <<peers, applied>> PROVE Applies
  <2>1. ClientInv'
    BY <1>0, <1>1, ReadOnly
  <2> QED
    BY <1>0, <1>1, <2>1 DEF Applies
<1>2. ASSUME ~NoOrder(c, e, m), Becomes(getOrder(c, e, m.re)), m.cmd # "get_status",
             UNCHANGED <<peers, applied>>
      PROVE  Applies
  <2>1. ClientInv'
    BY <1>2, TakenStep
  <2> QED
    BY <1>0, <1>2, <2>1 DEF Applies
<1>3. CASE m.cmd = "add_peer" /\ ApplyAddPeer(c, e, m)
  <2>1. CASE m.state = "error" \/ NoOrder(c, e, m)
    BY <1>1, <1>3, <2>1 DEF ApplyAddPeer
  <2>2. CASE ~(m.state = "error" \/ NoOrder(c, e, m)) /\ f[m.re].cmd # "add_peer"
    BY <1>2, <1>3, <2>2 DEF ApplyAddPeer
  <2>3. CASE ~(m.state = "error" \/ NoOrder(c, e, m)) /\ f[m.re].cmd = "add_peer"
    <3>1. Becomes(getOrder(c, e, m.re)) /\ peers' = confirmAddPeer(peers, getPeerName(c, e, m))
          /\ applied' = Append(applied, m.n)
      BY <1>3, <2>3 DEF ApplyAddPeer
    <3>2. getPeerName(c, e, m) \in Vips
      BY <2>3, OrderPeer DEF NamesPeer
    <3>3. ClientInv'
      BY <1>3, <2>3, <3>1, TakenStep
    <3> QED
      BY <3>1, <3>2, <3>3, ConfirmAddRow DEF Applies
  <2> QED
    BY <2>1, <2>2, <2>3
<1>4. CASE m.cmd = "ban_peer" /\ ApplyBanPeer(c, e, m)
  <2>1. CASE m.state # "ok" \/ NoOrder(c, e, m)
    BY <1>1, <1>4, <2>1 DEF ApplyBanPeer
  <2>2. CASE ~(m.state # "ok" \/ NoOrder(c, e, m)) /\ f[m.re].cmd # "ban_peer"
    BY <1>2, <1>4, <2>2 DEF ApplyBanPeer
  <2>3. CASE ~(m.state # "ok" \/ NoOrder(c, e, m)) /\ f[m.re].cmd = "ban_peer"
    <3>1. Becomes(getOrder(c, e, m.re)) /\ peers' = confirmBanPeer(peers, getPeerName(c, e, m))
          /\ applied' = Append(applied, m.n)
      BY <1>4, <2>3 DEF ApplyBanPeer
    <3>2. getPeerName(c, e, m) \in Vips
      BY <2>3, OrderPeer DEF NamesPeer
    <3>3. ClientInv'
      BY <1>4, <2>3, <3>1, TakenStep
    <3> QED
      BY <3>1, <3>2, <3>3, BanRow DEF Applies
  <2> QED
    BY <2>1, <2>2, <2>3
<1>5. CASE m.cmd = "delete_peer" /\ ApplyDeletePeer(c, e, m)
  <2>1. NoOrder(c, e, m)
    <3> DEFINE r == [cmd |-> m.cmd, id |-> m.re, n |-> m.n]
    <3>1. r \in Carried(c, e) /\ r.cmd = "delete_peer" /\ r.id = m.re
      BY <1>5 DEF Has
    <3>2. DeletesHaveNoId(c) /\ e \in DOMAIN c.ex /\ f \in Orders
      BY HasForm DEF ClientOK
    <3> HIDE DEF r, f
    <3>3. m.re = NoId
      BY <3>1, <3>2 DEF DeletesHaveNoId
    <3>4. DOMAIN f \subseteq Id /\ NoId \notin Id
      BY <3>2, OrdersForm, IdForm
    <3> QED
      BY <3>3, <3>4 DEF NoOrder, f
  <2> QED
    BY <1>1, <1>5, <2>1 DEF ApplyDeletePeer
<1>6. CASE m.cmd \in PlainCommands /\ ApplyPlain(c)
  BY <1>1, <1>6 DEF ApplyPlain
<1> QED
  BY <1>3, <1>4, <1>5, <1>6

\* The answer to hello, which may end the program.
LEMMA HelloAnswer ==
  ASSUME ClientInv, OneRow(peers), NEW c, NEW e, NEW m, Has(c, e, m), ApplyHello(c, e, m)
  PROVE  Applies /\ exited' \in {TRUE, exited}
<1>0. Shrinks(Client, c) /\ KeepsRows(peers, peers) /\ peers' = peers /\ applied' = applied
  BY DEF Has, KeepsRows, OneRow, ApplyHello
<1>1. CASE exited' = TRUE /\ Becomes(c)
  <2>1. ClientInv'
    BY <1>0, <1>1, ReadOnly
  <2> QED
    BY <1>0, <1>1, <2>1 DEF Applies
<1>2. CASE exited' = exited /\ Becomes(setSenderRpcName(c, e, m.sid))
  <2> DEFINE d == setSenderRpcName(c, e, m.sid)
  <2>1. /\ c \in Clients /\ DOMAIN c.ex = DOMAIN executors /\ ClientOK(c, applied) /\ CounterOK(c)
        /\ applied \in Seq(Nat) /\ e \in DOMAIN c.ex
        /\ \A f \in DOMAIN executors : c.ex[f].clash = executors[f].clash
    BY HasForm
  <2>2. m.sid \in Nat
    BY DEF Has, Reply
  <2>3. /\ d \in Clients /\ DOMAIN d.ex = DOMAIN executors /\ ClientOK(d, applied) /\ CounterOK(d)
        /\ \A f \in DOMAIN executors : executors[f].clash => d.ex[f].clash
    BY <2>1, <2>2, NameKeeps
  <2> HIDE DEF d
  <2>4. Client' = d
    BY <1>2, <2>3, BecomesClient DEF d
  <2>5. ClientInv'
    BY <1>0, <2>3, <2>4, ClientStays
  <2> QED
    BY <1>0, <1>2, <2>5 DEF Applies
<1> QED
  BY <1>1, <1>2 DEF ApplyHello

\* readyRead.
LEMMA ReceiveStep ==
  ASSUME GuiInv, NEW e \in 1 .. Len(executors), NEW n \in 1 .. 3, onTcpReceive(e, n)
  PROVE  GuiInv'
<1> DEFINE k == executors[e].conn
<1>0. ClientInv /\ ListInv /\ FlagsInv /\ OneRow(peers)
  BY DEF GuiInv, ListInv, OneRow, OneRowPerPeer
<1>1. Client \in Clients /\ OwnConns(Client) /\ Client.nd = node /\ Client.ex = executors
      /\ Client.working = m_is_working /\ e \in DOMAIN executors
  BY <1>0, CurExists DEF ClientInv, ClientOK, Client
<1>2. k # 0 /\ n <= Len(node.conns[k].stream) /\ selected' = selected
  BY DEF onTcpReceive
<1>3. PICK x \in Fed(executors[e], SubSeq(node.conns[k].stream, 1, n)) :
        LET c == [Client EXCEPT !.ex[e] = x, !.nd.conns[k].stream = SubSeq(@, n + 1, Len(@))]
            m == x.back[1][2]
        IN  \/ /\ x.back = <<>>
               /\ Becomes(c)
               /\ UNCHANGED <<peers, exited>> /\ Unread
            \/ /\ x.back # <<>> /\ ~check_auth(x.back)
               /\ Becomes(closeConnection(c, e))
               /\ misframed' = TRUE
               /\ UNCHANGED <<peers, exited, applied, executed>>
            \/ /\ x.back # <<>> /\ check_auth(x.back)
               /\ parseAndExecMsg(c, e, m)
               /\ executed' = [executed EXCEPT ![m.conn] = m.nr]
               /\ UNCHANGED misframed
  BY Zenon DEF onTcpReceive
<1> DEFINE c == [Client EXCEPT !.ex[e] = x, !.nd.conns[k].stream = SubSeq(@, n + 1, Len(@))]
           m == x.back[1][2]
<1>4. Shrinks(Client, c) /\ c.ex[e] = x /\ x \in Executor
  <2> DEFINE j == Client.ex[e].conn
             d == [Client EXCEPT !.ex[e] = x, !.nd.conns[j].stream = SubSeq(@, n + 1, Len(@))]
  <2>1. j = k /\ e \in DOMAIN Client.ex
    BY <1>1
  <2>2. j # 0 /\ n <= Len(Client.nd.conns[j].stream)
        /\ x \in Fed(Client.ex[e], SubSeq(Client.nd.conns[j].stream, 1, n))
    BY <1>1, <1>2, <1>3, <2>1
  <2>3. Shrinks(Client, d) /\ d.ex[e] = x /\ x \in Executor
    BY <1>1, <2>1, <2>2, Received
  <2>4. c = d
    <3> HIDE DEF j, k
    <3> QED
      BY <2>1
  <2> HIDE DEF c, d
  <2> QED
    BY <2>3, <2>4
<1> HIDE DEF c
<1>5. c \in Clients /\ OwnConns(c) /\ DOMAIN c.ex = DOMAIN executors
  BY <1>1, <1>4 DEF Shrinks
<1>6. CASE x.back = <<>> /\ Becomes(c) /\ UNCHANGED <<peers, exited>> /\ Unread
  <2>1. FlagsInv' /\ applied' = applied
    BY <1>0, <1>6, FlagsUnread
  <2>2. ClientInv'
    BY <1>0, <1>4, <1>6, <2>1, ReadOnly
  <2>3. ListInv'
    BY <1>0, <1>2, <1>6, ListUnchanged
  <2> QED
    BY <2>1, <2>2, <2>3 DEF GuiInv
<1>7. CASE Becomes(closeConnection(c, e)) /\ misframed' = TRUE /\ UNCHANGED <<peers, exited, applied, executed>>
  <2>1. FlagsInv'
    BY <1>0, <1>7 DEF FlagsInv
  <2>2. Shrinks(c, closeConnection(c, e))
    BY <1>1, <1>5, CloseEffect
  <2>3. Shrinks(Client, closeConnection(c, e))
    BY <1>1, <1>4, <2>2, ShrinksTwice
  <2>4. ClientInv'
    BY <1>0, <1>7, <2>3, ReadOnly
  <2>5. ListInv'
    BY <1>0, <1>2, <1>7, ListUnchanged
  <2> QED
    BY <2>1, <2>4, <2>5 DEF GuiInv
<1>8. CASE /\ x.back # <<>> /\ check_auth(x.back) /\ parseAndExecMsg(c, e, m)
           /\ executed' = [executed EXCEPT ![m.conn] = m.nr] /\ misframed' = misframed
  <2> DEFINE u == x.back[1]
  <2>1. x.back \in Seq(Unit) /\ 1 \in 1 .. Len(x.back)
    BY <1>4, <1>8, ExecutorForm
  <2>2. u \in Range(x.back) /\ u \in Unit
    BY <2>1, UnitsOfSeq
  <2>3. m \in Reply /\ Asked(u) = [cmd |-> m.cmd, id |-> m.re, n |-> m.n]
    BY <2>2 DEF Unit, Asked
  <2>4. Asked(u) \in Carried(c, e)
    <3>1. Asked(u) \in InReader(x)
      BY <2>2 DEF InReader
    <3> QED
      BY <1>4, <3>1 DEF Carried
  <2> HIDE DEF u, m
  <2>5. Has(c, e, m)
    BY <1>1, <1>4, <1>5, <2>3, <2>4 DEF Has
  <2>6. Applies /\ exited' \in {TRUE, exited}
    <3>1. CASE m.cmd = "hello" /\ ApplyHello(c, e, m)
      BY <1>0, <2>5, <3>1, HelloAnswer
    <3>2. CASE ~(m.cmd = "hello" /\ ApplyHello(c, e, m))
      <4>1. /\ exited' = exited
            /\ \/ m.cmd = "add_peer" /\ ApplyAddPeer(c, e, m)
               \/ m.cmd = "ban_peer" /\ ApplyBanPeer(c, e, m)
               \/ m.cmd = "delete_peer" /\ ApplyDeletePeer(c, e, m)
               \/ m.cmd \in PlainCommands /\ ApplyPlain(c)
        BY <1>8, <3>2 DEF parseAndExecMsg
      <4>2. Applies
        BY <1>0, <2>5, <4>1, PeerAnswers
      <4> QED
        BY <4>1, <4>2
    <3> QED
      BY <3>1, <3>2
  <2>7. ListInv'
    BY <1>0, <1>2, <2>6, RowsStay DEF Applies
  <2>8. FlagsInv'
    <3>1. m.nr \in Nat
      BY <2>3 DEF Reply
    <3>2. executed' \in [1 .. MaxConn -> Nat]
      BY <1>0, <1>8, <3>1 DEF FlagsInv
    <3>3. exited' \in BOOLEAN /\ misframed' \in BOOLEAN
      BY <1>0, <1>8, <2>6, Zenon DEF FlagsInv
    <3> QED
      BY <3>2, <3>3 DEF FlagsInv
  <2> QED
    BY <2>6, <2>7, <2>8 DEF GuiInv, Applies
<1> QED
  BY <1>3, <1>6, <1>7, <1>8, Zenon DEF c

-----------------------------------------------------------------------------
\* The client the program starts with.
LEMMA FirstClient ==
  ASSUME NEW up \in BOOLEAN
  PROVE  LET c == [ex |-> <<commandExecutor>>, working |-> FALSE,
                   nd |-> [up |-> up, sessions |-> 0, requests |-> 0, conns |-> <<>>]]
         IN  c \in Clients /\ DOMAIN c.ex = {1} /\ ClientOK(c, <<>>) /\ CounterOK(c)
             /\ ~c.ex[1].clash
<1> DEFINE x == commandExecutor
           n == [up |-> up, sessions |-> 0, requests |-> 0, conns |-> <<>>]
           c == [ex |-> <<x>>, working |-> FALSE, nd |-> n]
<1>1. x \in Executor /\ x.conn = 0 /\ InReader(x) = {} /\ x.m_client_name = 0 /\ x.m_counter = 0
  BY NewExecutorForm
<1>2. x.clash = FALSE
  BY DEF commandExecutor
<1> HIDE DEF x
<1>3. n \in Node /\ n.requests = 0 /\ n.conns = <<>>
  <2>1. <<>> \in Seq(Conn) /\ 0 \in Nat
    OBVIOUS
  <2>2. n \in Node
    BY <2>1, Zenon DEF Node
  <2> QED
    BY <2>2
<1> HIDE DEF n
<1>4. <<x>> \in Seq(Executor) /\ DOMAIN <<x>> = {1} /\ <<x>>[1] = x
  BY <1>1
<1> DEFINE s == <<x>>
<1> HIDE DEF s
<1>5. [ex |-> s, working |-> FALSE, nd |-> n] \in Clients
  <2>1. FALSE \in BOOLEAN /\ s \in Seq(Executor)
    BY <1>4 DEF s
  <2> QED
    BY <1>3, <2>1, Zenon DEF Clients
<1>6. c \in Clients /\ c.nd = n /\ DOMAIN c.ex = {1} /\ c.ex[1] = x
  BY <1>4, <1>5 DEF s
<1> HIDE DEF c
<1>7. OwnConns(c)
  BY <1>1, <1>3, <1>6 DEF OwnConns
<1>8. \A e \in DOMAIN c.ex : Carried(c, e) = {}
  BY <1>1, <1>6 DEF Carried
<1>9. OwnNumbers(c) /\ DeletesHaveNoId(c)
  BY <1>8 DEF OwnNumbers, DeletesHaveNoId
<1>10. IdsOK(c)
  BY <1>1, <1>6, <1>8 DEF IdsOK, FirstOK
<1>11. AppliedOK(c, <<>>)
  BY <1>8 DEF AppliedOK
<1>12. CounterOK(c)
  BY <1>1, <1>6 DEF CounterOK
<1>13. ClientOK(c, <<>>)
  BY <1>7, <1>9, <1>10, <1>11 DEF ClientOK
<1>14. ~c.ex[1].clash
  BY <1>2, <1>6
<1> QED
  BY <1>6, <1>12, <1>13, <1>14 DEF c, x, n

\* The client starts well.
LEMMA GuiStart ==
  ASSUME GuiInit
  PROVE  GuiInv
<1>1. PICK up \in BOOLEAN :
        LET c == startCommunication([ex |-> <<commandExecutor>>, working |-> FALSE,
                   nd |-> [up |-> up, sessions |-> 0, requests |-> 0, conns |-> <<>>]], 1)
        IN  executors = c.ex /\ node = c.nd /\ m_is_working = c.working
  BY Zenon DEF GuiInit
<1> DEFINE a == [ex |-> <<commandExecutor>>, working |-> FALSE,
                 nd |-> [up |-> up, sessions |-> 0, requests |-> 0, conns |-> <<>>]]
           c == startCommunication(a, 1)
<1>2. executors = c.ex /\ node = c.nd /\ m_is_working = c.working
  BY <1>1
<1>3. a \in Clients /\ DOMAIN a.ex = {1} /\ ClientOK(a, <<>>) /\ CounterOK(a)
  BY FirstClient
<1> HIDE DEF a
<1>4. peers = <<>> /\ selected = <<>> /\ exited = FALSE /\ applied = <<>> /\ misframed = FALSE
      /\ executed = [k \in 1 .. MaxConn |-> 0]
  BY DEF GuiInit
<1>5. c \in Clients /\ DOMAIN c.ex = {1} /\ ClientOK(c, <<>>) /\ CounterOK(c)
  <2>1. <<>> \in Seq(Nat) /\ 1 \in DOMAIN a.ex
    BY <1>3
  <2> QED
    BY <1>3, <2>1, HelloKeeps
<1> HIDE DEF c
<1>6. Client = c
  BY <1>2, <1>5, ClientForm DEF Client
<1>7. executors # <<>>
  BY <1>2, <1>5
<1>8. ClientInv
  BY <1>4, <1>5, <1>6, <1>7 DEF ClientInv, AppliedOnce
<1>9. ListInv
  BY <1>4 DEF ListInv, OneRowPerPeer, SelectedOK, SelectionHolds
<1>10. FlagsInv
  BY <1>4 DEF FlagsInv
<1> QED
  BY <1>8, <1>9, <1>10 DEF GuiInv

\* The invariant is inductive.
LEMMA GuiStep ==
  ASSUME GuiInv, [GuiNext]_guiVars
  PROVE  GuiInv'
<1>1. CASE UNCHANGED guiVars
  <2>1. UNCHANGED <<executors, node, peers, m_is_working, selected, exited, applied, executed, misframed>>
    BY <1>1 DEF guiVars
  <2>2. ClientInv'
    BY <2>1, ClientUnchanged DEF GuiInv
  <2>3. ListInv'
    BY <2>1, ListUnchanged DEF GuiInv
  <2>4. FlagsInv'
    BY <2>1 DEF GuiInv, FlagsInv
  <2> QED
    BY <2>2, <2>3, <2>4 DEF GuiInv
<1>2. CASE User
  <2>1. ASSUME NEW v \in Vips, addActionSlot(v) \/ connectToNet(v) PROVE GuiInv'
    BY <2>1, PeerSlots
  <2>2. ASSUME \E i \in 1 .. Len(peers), what \in {"ban", "remove"} : contextMenuEvent(i, what) PROVE GuiInv'
    BY <2>2, BoxSlots
  <2> QED
    BY <1>2, <2>1, <2>2, BoxSlots, AnsweredSlots, PlainSlots, ConnectionSlots DEF User
<1>3. CASE \E e \in 1 .. Len(executors) : timer_slot(e) \/ \E n \in 1 .. 3 : onTcpReceive(e, n)
  BY <1>3, ConnectionSlots, ReceiveStep
<1>4. CASE \/ \E k \in 1 .. Len(node.conns) : NodeAnswer(k) \/ NodeClose(k)
           \/ NodeRestart
  BY <1>4, NodeSteps
<1> QED
  BY <1>1, <1>2, <1>3, <1>4 DEF GuiNext

\* The Qt client never leaves GuiInv, with any number of executors, connections and requests.
THEOREM GuiInvariant == GuiSpec => []GuiInv
<1>1. GuiInit => GuiInv
  BY GuiStart
<1>2. GuiInv /\ [GuiNext]_guiVars => GuiInv'
  BY GuiStep
<1> QED
  BY <1>1, <1>2, PTL DEF GuiSpec

\* Both ends of the interface behave as they do alone.
LEMMA BothEnds == Spec => RpcSpec /\ GuiSpec
<1>1. Init => RpcInit /\ GuiInit
  BY DEF Init
<1>2. [Next]_<<rpcVars, guiVars, part>> => [RpcNext]_rpcVars /\ [GuiNext]_guiVars
  BY DEF Next, RpcPart, GuiPart
<1> QED
  BY <1>1, <1>2, PTL DEF Spec, RpcSpec, GuiSpec

\* However additions by the user, additions the node confirms and removals interleave, a
\* peer has one row of the list (peersmodel.cpp:112).
THEOREM OneRowAlways == Spec => []OneRowPerPeer
<1>1. GuiInv => OneRowPerPeer
  BY DEF GuiInv, ListInv
<1> QED
  BY <1>1, BothEnds, GuiInvariant, PTL

\* The row that a ban or remove box asks about is still that peer's when it is answered
\* (peerlistform.cpp:129): of the replies that are executed meanwhile only that of
\* delete_peer would remove a row, and it never finds its order.
THEOREM SelectionAlwaysHolds == Spec => []SelectionHolds
<1>1. GuiInv => SelectionHolds
  BY DEF GuiInv, ListInv
<1> QED
  BY <1>1, BothEnds, GuiInvariant, PTL

\* As long as no id was used twice, a reply changes the list at most once, although a
\* frame is executed by every readyRead until the next one is complete (dataeater.cpp:49).
THEOREM AppliedAtMostOnce == Spec => []AppliedOnce
<1>1. GuiInv => AppliedOnce
  BY DEF GuiInv, ClientInv
<1> QED
  BY <1>1, BothEnds, GuiInvariant, PTL

\* Sessions, streams, executors and rows of both ends keep their shape.
THEOREM RpcGuiTypes == Spec => []TypeOK
<1>1. GuiInv => GuiTypeOK
  <2> SUFFICES ASSUME GuiInv PROVE GuiTypeOK
    OBVIOUS
  <2>1. Client \in Clients /\ OwnConns(Client) /\ Client.ex = executors /\ Client.nd = node
        /\ Client.working = m_is_working
    BY DEF GuiInv, ClientInv, ClientOK, Client
  <2>2. executors \in Seq(Executor) /\ node.conns \in Seq(Conn) /\ m_is_working \in BOOLEAN
    BY <2>1, ClientForm
  <2>3. ASSUME NEW e \in 1 .. Len(executors)
        PROVE  executors[e].conn \in 0 .. Len(node.conns) /\ executors[e].missing \in 0 .. 2
    <3>1. executors[e] \in Executor /\ e \in DOMAIN Client.ex
      BY <2>1, <2>2
    <3>2. executors[e].conn \in Nat /\ executors[e].missing \in 0 .. 2
      BY <3>1, ExecutorForm
    <3>3. executors[e].conn <= Len(node.conns)
      BY <2>1, <3>1 DEF OwnConns
    <3> QED
      BY <2>2, <3>2, <3>3
  <2> QED
    BY <2>2, <2>3 DEF GuiTypeOK, GuiInv, ListInv, FlagsInv
<1>2. GuiTypeOK /\ RpcTypeOK => TypeOK
  BY DEF TypeOK
<1> QED
  BY <1>1, <1>2, BothEnds, GuiInvariant, RpcTypes, PTL

-----------------------------------------------------------------------------
\* The order of the replies.  What executor e has still to execute is what its reader
\* holds, then what its connection has for it.
Held(x) == x.m_last_command \o x.m_internal_buffer
OnWay(c, e) == IF c.ex[e].conn = 0 THEN <<>> ELSE c.nd.conns[c.ex[e].conn].stream
Flow(c, e) == Held(c.ex[e]) \o OnWay(c, e)

\* A tail follows its head, a head the tail of the reply before it; a connection that
\* is new may start after anything, since the one before it may have been cut.
Follows(u, v) ==
  \/ u[1] = "head" /\ v = <<"tail", u[2]>>
  \/ u[1] = "tail" /\ v[1] = "head" /\ v[2].conn = u[2].conn /\ v[2].nr = u[2].nr + 1
  \/ v[1] = "head" /\ v[2].conn > u[2].conn /\ v[2].nr = 1

\* The units s continue the replies that are executed, last[k] of connection k.
InOrder(s, last) ==
  /\ s # <<>> => s[1][1] = "head" /\ s[1][2].nr = last[s[1][2].conn] + 1
  /\ \A i \in 1 .. Len(s) : i + 1 <= Len(s) => Follows(s[i], s[i + 1])
  /\ \A i, j \in 1 .. Len(s) : i <= j => s[i][2].conn <= s[j][2].conn
  /\ \A i \in 1 .. Len(s) : s[i][2].conn > s[1][2].conn => last[s[i][2].conn] = 0

\* The next answer g of connection k continues s.
Tip(s, k, g, last) ==
  g.open =>
    \/ s = <<>> /\ last[k] = g.sent
    \/ /\ s # <<>> /\ s[Len(s)][1] = "tail"
       /\ s[Len(s)][2].conn = k /\ s[Len(s)][2].nr = g.sent
    \/ s # <<>> /\ s[Len(s)][2].conn < k /\ g.sent = 0 /\ last[k] = 0

\* The connections whose units are in s.
Tags(s) == { s[i][2].conn : i \in 1 .. Len(s) }
Numbers(c, e) == Tags(Flow(c, e)) \cup Tags(c.ex[e].back)

\* A frame that is begun lacks its tail, the newest frame is the last reply executed.
ReaderOK(x, last) ==
  /\ x.missing \in {0, 1} /\ Len(x.m_last_command) = x.missing
  /\ x.back # <<>> => check_auth(x.back) /\ last[x.back[1][2].conn] = x.back[1][2].nr

RepliesOK(c, last) ==
  /\ \A j \in 1 .. MaxConn : j > Len(c.nd.conns) => last[j] = 0
  /\ \A e \in DOMAIN c.ex :
       /\ ReaderOK(c.ex[e], last)
       /\ InOrder(Flow(c, e), last)
       /\ c.ex[e].conn # 0 => Tip(Flow(c, e), c.ex[e].conn, c.nd.conns[c.ex[e].conn], last)
       /\ Numbers(c, e) \subseteq 1 .. Len(c.nd.conns)
       /\ \A f \in DOMAIN c.ex :
            f # e => Numbers(c, e) \cap Numbers(c, f) = {} /\ c.ex[f].conn \notin Numbers(c, e)

\* The replies are in order until a frame that is none has been read.
RepliesInv == ~misframed /\ Len(node.conns) <= MaxConn => RepliesOK(Client, executed)

\* A unit names a connection and a number.
LEMMA UnitForm ==
  ASSUME NEW u \in Unit
  PROVE  u[1] \in {"head", "tail"} /\ u[2] \in Reply /\ u[2].conn \in Nat /\ u[2].nr \in Nat
         /\ u = <<u[1], u[2]>>
<1>1. u[1] \in {"head", "tail"} /\ u[2] \in Reply /\ u = <<u[1], u[2]>>
  BY DEF Unit
<1>2. u[2].conn \in Nat /\ u[2].nr \in Nat
  BY <1>1 DEF Reply
<1> QED
  BY <1>1, <1>2

\* s is the beginning of t.
Starts(s, t) == Len(s) <= Len(t) /\ \A i \in 1 .. Len(s) : s[i] = t[i]

\* Units that are cut off the end disturb no order.
LEMMA StartInOrder ==
  ASSUME NEW s \in Seq(Unit), NEW t \in Seq(Unit), NEW last, Starts(s, t), InOrder(t, last)
  PROVE  InOrder(s, last) /\ Tags(s) \subseteq Tags(t)
<1>1. Len(s) \in Nat /\ Len(t) \in Nat /\ Len(s) <= Len(t) /\ \A i \in 1 .. Len(s) : s[i] = t[i] /\ i \in 1 .. Len(t)
  BY DEF Starts
<1>2. s # <<>> => 1 \in 1 .. Len(s) /\ t # <<>>
  BY <1>1
<1>3. s # <<>> => s[1][1] = "head" /\ s[1][2].nr = last[s[1][2].conn] + 1
  BY <1>1, <1>2 DEF InOrder
<1>4. ASSUME NEW i \in 1 .. Len(s), i + 1 <= Len(s) PROVE Follows(s[i], s[i + 1])
  <2>1. i + 1 \in 1 .. Len(s) /\ i + 1 <= Len(t)
    BY <1>1, <1>4
  <2> QED
    BY <1>1, <2>1 DEF InOrder
<1>5. \A i, j \in 1 .. Len(s) : i <= j => s[i][2].conn <= s[j][2].conn
  BY <1>1 DEF InOrder
<1>6. \A i \in 1 .. Len(s) : s[i][2].conn > s[1][2].conn => last[s[i][2].conn] = 0
  <2>1. \A i \in 1 .. Len(s) : 1 \in 1 .. Len(s)
    BY <1>1
  <2> QED
    BY <1>1, <2>1 DEF InOrder
<1>7. Tags(s) \subseteq Tags(t)
  BY <1>1 DEF Tags
<1> QED
  BY <1>3, <1>4, <1>5, <1>6, <1>7 DEF InOrder

\* What is cut from the end of a stream, or the whole of it.
LEMMA StartOfConcat ==
  ASSUME NEW r \in Seq(Unit), NEW g \in Seq(Unit), NEW n \in 0 .. Len(g)
  PROVE  /\ r \o g \in Seq(Unit) /\ r \o <<>> = r
         /\ Starts(r, r \o g)
         /\ r \o SubSeq(g, 1, n) \in Seq(Unit) /\ Starts(r \o SubSeq(g, 1, n), r \o g)
<1>1. r \o g \in Seq(Unit) /\ r \o <<>> = r /\ Starts(r, r \o g)
  BY DEF Starts
<1> DEFINE a == SubSeq(g, 1, n)
<1>2. a \in Seq(Unit) /\ Len(a) = n /\ \A i \in 1 .. n : a[i] = g[i]
  OBVIOUS
<1> HIDE DEF a
<1>3. r \o a \in Seq(Unit) /\ Len(r \o a) = Len(r) + n /\ Len(r \o g) = Len(r) + Len(g) /\ n <= Len(g)
  BY <1>2
<1>4. ASSUME NEW i \in 1 .. Len(r) + n PROVE (r \o a)[i] = (r \o g)[i]
  <2>1. CASE i <= Len(r)
    BY <2>1, <1>2, <1>3
  <2>2. CASE i > Len(r)
    <3>1. i - Len(r) \in 1 .. n
      BY <2>2
    <3>2. (r \o a)[i] = a[i - Len(r)] /\ (r \o g)[i] = g[i - Len(r)]
      BY <2>2, <1>2, <1>3
    <3> QED
      BY <1>2, <3>1, <3>2
  <2>3. i <= Len(r) \/ i > Len(r)
    OBVIOUS
  <2> QED
    BY <2>1, <2>2, <2>3
<1>5. Starts(r \o a, r \o g)
  BY <1>3, <1>4 DEF Starts
<1> QED
  BY <1>1, <1>3, <1>5 DEF a

\* t is what follows the first frame of s, which is a reply; the reply is executed.
AfterFrame(s, t) ==
  Len(s) = Len(t) + 2 /\ (\A i \in 1 .. Len(t) : t[i] = s[i + 2]) /\ s[2] = <<"tail", s[1][2]>>
Executes(last, m) == [last EXCEPT ![m.conn] = m.nr]

\* The first frame is taken out and executed.
LEMMA FrameInOrder ==
  ASSUME NEW s \in Seq(Unit), NEW t \in Seq(Unit), NEW last \in [1 .. MaxConn -> Nat], NEW more,
         InOrder(s, last), Tags(s) \subseteq 1 .. MaxConn, AfterFrame(s, t), more = Executes(last, s[1][2])
  PROVE  /\ InOrder(t, more) /\ Tags(t) \subseteq Tags(s)
         /\ s[1][1] = "head" /\ s[1][2].nr = last[s[1][2].conn] + 1
         /\ s[1][2].conn \in 1 .. MaxConn /\ s[1][2].conn \in Tags(s)
<1> DEFINE k == s[1][2].conn
<1> SUFFICES ASSUME Len(s) = Len(t) + 2, \A i \in 1 .. Len(t) : t[i] = s[i + 2],
                    s[2] = <<"tail", s[1][2]>>, more = [last EXCEPT ![s[1][2].conn] = s[1][2].nr]
             PROVE  /\ InOrder(t, more) /\ Tags(t) \subseteq Tags(s)
                    /\ s[1][1] = "head" /\ s[1][2].nr = last[s[1][2].conn] + 1
                    /\ s[1][2].conn \in 1 .. MaxConn /\ s[1][2].conn \in Tags(s)
  BY DEF AfterFrame, Executes
<1>1. Len(s) \in Nat /\ Len(t) \in Nat /\ s # <<>> /\ 1 \in 1 .. Len(s) /\ 2 \in 1 .. Len(s)
      /\ \A i \in 1 .. Len(t) : i + 2 \in 1 .. Len(s)
  OBVIOUS
<1>2. s[1][1] = "head" /\ s[1][2].nr = last[k] + 1
  BY <1>1 DEF InOrder
<1>3. k \in Tags(s) /\ \A i \in 1 .. Len(s) : s[i][2].conn \in 1 .. MaxConn
  BY <1>1 DEF Tags
<1>4. Tags(t) \subseteq Tags(s)
  <2>1. \A i \in 1 .. Len(t) : \E j \in 1 .. Len(s) : t[i][2].conn = s[j][2].conn
    BY <1>1
  <2> QED
    BY <2>1, SMTT(60) DEF Tags
<1>5. \A i \in 1 .. Len(s) : s[i] \in Unit
  OBVIOUS
<1>6. \A i \in 1 .. Len(s) : s[i][2].conn \in Nat /\ s[i][2].nr \in Nat /\ s[i][1] \in {"head", "tail"}
  BY <1>5, UnitForm
<1>7. more[k] = s[1][2].nr /\ \A j \in 1 .. MaxConn : j # k => more[j] = last[j]
  BY <1>3
<1>8. \A i \in 1 .. Len(t) : k <= t[i][2].conn /\ (t[i][2].conn > k => last[t[i][2].conn] = 0 /\ more[t[i][2].conn] = 0)
  <2> SUFFICES ASSUME NEW i \in 1 .. Len(t)
               PROVE  k <= t[i][2].conn /\ (t[i][2].conn > k => last[t[i][2].conn] = 0 /\ more[t[i][2].conn] = 0)
    OBVIOUS
  <2>1. t[i] = s[i + 2] /\ i + 2 \in 1 .. Len(s) /\ 1 <= i + 2
    BY <1>1
  <2>2. k <= s[i + 2][2].conn /\ (s[i + 2][2].conn > k => last[s[i + 2][2].conn] = 0)
    BY <1>1, <2>1 DEF InOrder
  <2> QED
    BY <1>3, <1>6, <1>7, <2>1, <2>2
<1>9. ASSUME t # <<>> PROVE t[1][1] = "head" /\ t[1][2].nr = more[t[1][2].conn] + 1
  <2>1. 1 \in 1 .. Len(t) /\ 2 + 1 <= Len(s) /\ t[1] = s[3] /\ 3 \in 1 .. Len(s)
    BY <1>1, <1>9
  <2>2. Follows(s[2], s[3])
    <3>1. \A i \in 1 .. Len(s) : i + 1 <= Len(s) => Follows(s[i], s[i + 1])
      BY DEF InOrder
    <3>2. ASSUME NEW i \in 1 .. Len(s), NEW j \in 1 .. Len(s), j = i + 1 PROVE Follows(s[i], s[j])
      <4>1. i + 1 <= Len(s)
        BY <3>2, <1>1
      <4> QED
        BY <3>1, <3>2, <4>1, Zenon
    <3>3. 3 = 2 + 1
      OBVIOUS
    <3> QED
      BY <1>1, <2>1, <3>2, <3>3
  <2>3. s[2][1] = "tail" /\ s[2][2] = s[1][2] /\ s[2][1] # "head"
    OBVIOUS
  <2>4. /\ t[1][1] = "head"
        /\ \/ t[1][2].conn = k /\ t[1][2].nr = s[1][2].nr + 1
           \/ t[1][2].conn > k /\ t[1][2].nr = 1
    BY <2>1, <2>2, <2>3 DEF Follows
  <2>5. t[1][2].conn > k => more[t[1][2].conn] = 0
    BY <1>8, <2>1
  <2> QED
    BY <1>7, <2>4, <2>5
<1>10. ASSUME NEW i \in 1 .. Len(t), i + 1 <= Len(t) PROVE Follows(t[i], t[i + 1])
  <2>1. i + 2 \in 1 .. Len(s) /\ (i + 2) + 1 <= Len(s) /\ t[i] = s[i + 2] /\ t[i + 1] = s[(i + 2) + 1]
    BY <1>1, <1>10
  <2> QED
    BY <2>1 DEF InOrder
<1>11. ASSUME NEW i \in 1 .. Len(t), NEW j \in 1 .. Len(t), i <= j PROVE t[i][2].conn <= t[j][2].conn
  <2>1. t[i] = s[i + 2] /\ t[j] = s[j + 2] /\ i + 2 \in 1 .. Len(s) /\ j + 2 \in 1 .. Len(s)
    BY <1>1
  <2>2. i + 2 <= j + 2
    BY <1>11
  <2>3. \A a, b \in 1 .. Len(s) : a <= b => s[a][2].conn <= s[b][2].conn
    BY DEF InOrder
  <2> QED
    BY <2>1, <2>2, <2>3, Zenon
<1>12. ASSUME NEW i \in 1 .. Len(t), t[i][2].conn > t[1][2].conn PROVE more[t[i][2].conn] = 0
  <2>1. 1 \in 1 .. Len(t) /\ t[i] = s[i + 2] /\ t[1] = s[3]
    BY <1>1
  <2>2. k <= t[1][2].conn /\ t[1][2].conn \in Nat /\ t[i][2].conn \in Nat /\ k \in Nat
    BY <1>1, <1>6, <1>8, <2>1
  <2>3. t[i][2].conn > k
    BY <1>12, <2>2
  <2> QED
    BY <1>8, <2>3
<1>13. InOrder(t, more)
  BY <1>9, <1>10, <1>11, <1>12 DEF InOrder
<1> QED
  BY <1>2, <1>3, <1>4, <1>13

\* The next answer of connection k continues what is on the way.
LEMMA AnswerInOrder ==
  ASSUME NEW s \in Seq(Unit), NEW t \in Seq(Unit), NEW last \in [1 .. MaxConn -> Nat], NEW k \in 1 .. MaxConn,
         NEW g \in Conn, NEW h, NEW m \in Reply, g.open, InOrder(s, last), Tip(s, k, g, last),
         m.conn = k, m.nr = g.sent + 1, h.sent = g.sent + 1,
         Len(t) = Len(s) + 2, \A i \in 1 .. Len(s) : t[i] = s[i],
         t[Len(s) + 1] = <<"head", m>>, t[Len(s) + 2] = <<"tail", m>>
  PROVE  InOrder(t, last) /\ Tip(t, k, h, last) /\ Tags(t) \subseteq Tags(s) \cup {k}
<1> DEFINE L == Len(s)
<1>1. L \in Nat /\ (s # <<>> => L \in 1 .. L /\ 1 \in 1 .. L) /\ (s = <<>> => L = 0) /\ g.sent \in Nat
  BY DEF Conn
<1>2. \A i \in 1 .. L : s[i] \in Unit
  OBVIOUS
<1>3. \A i \in 1 .. L : s[i][2].conn \in Nat /\ s[i][2].nr \in Nat
  BY <1>2, UnitForm
<1>4. s # <<>> => s[L][2].conn <= k /\ (s[L][2].conn < k => g.sent = 0 /\ last[k] = 0)
                  /\ (s[L][2].conn = k => s[L][1] = "tail" /\ s[L][2].nr = g.sent)
  BY <1>1, <1>3 DEF Tip
<1>5. s = <<>> => last[k] = g.sent
  BY DEF Tip
<1>6. \A i \in 1 .. L : s[i][2].conn <= k
  <2> SUFFICES ASSUME NEW i \in 1 .. L PROVE s[i][2].conn <= k
    OBVIOUS
  <2>1. s # <<>> /\ L \in 1 .. L /\ i <= L
    BY <1>1
  <2>2. s[i][2].conn <= s[L][2].conn
    BY <2>1 DEF InOrder
  <2> QED
    BY <1>3, <1>4, <2>1, <2>2
<1>7. \A i \in 1 .. Len(t) : i \in 1 .. L \/ i = L + 1 \/ i = L + 2
  BY <1>1
<1>8. t[L + 1][2].conn = k /\ t[L + 2][2].conn = k /\ t[L + 1][1] = "head" /\ t[L + 1][2].nr = g.sent + 1
  OBVIOUS
<1>9. t[1][1] = "head" /\ t[1][2].nr = last[t[1][2].conn] + 1
  <2>1. CASE s = <<>>
    BY <2>1, <1>1, <1>5, <1>8
  <2>2. CASE s # <<>>
    BY <2>2, <1>1 DEF InOrder
  <2> QED
    BY <2>1, <2>2
<1>10. ASSUME NEW i \in 1 .. Len(t), i + 1 <= Len(t) PROVE Follows(t[i], t[i + 1])
  <2>1. CASE i + 1 <= L
    <3>1. i \in 1 .. L /\ i + 1 \in 1 .. L
      BY <2>1, <1>1
    <3>2. Follows(s[i], s[i + 1])
      BY <2>1, <3>1 DEF InOrder
    <3> QED
      BY <3>1, <3>2
  <2>2. CASE i = L
    <3>1. s # <<>> /\ L \in 1 .. L /\ t[i] = s[L] /\ t[i + 1] = <<"head", m>>
      BY <2>2, <1>1
    <3>2. \/ s[L][1] = "tail" /\ s[L][2].conn = k /\ m.nr = s[L][2].nr + 1
          \/ s[L][2].conn < k /\ m.nr = 1
      BY <1>1, <1>3, <1>4, <3>1
    <3>3. <<"head", m>>[1] = "head" /\ <<"head", m>>[2] = m
      OBVIOUS
    <3>4. s[L][2].conn < k => m.conn > s[L][2].conn
      BY <1>3, <3>1
    <3> HIDE DEF L
    <3> QED
      BY <3>1, <3>2, <3>3, <3>4 DEF Follows
  <2>3. CASE i = L + 1
    <3>1. t[i] = <<"head", m>> /\ t[i + 1] = <<"tail", m>>
      BY <2>3, <1>1
    <3> QED
      BY <3>1 DEF Follows
  <2> QED
    BY <1>1, <1>10, <2>1, <2>2, <2>3
<1>11. ASSUME NEW i \in 1 .. Len(t), NEW j \in 1 .. Len(t), i <= j PROVE t[i][2].conn <= t[j][2].conn
  <2>1. CASE j \in 1 .. L
    <3>1. i \in 1 .. L
      BY <2>1, <1>11, <1>1
    <3> QED
      BY <2>1, <3>1, <1>11 DEF InOrder
  <2>2. CASE j = L + 1 \/ j = L + 2
    BY <2>2, <1>6, <1>7, <1>8
  <2> QED
    BY <1>7, <2>1, <2>2
<1>12. ASSUME NEW i \in 1 .. Len(t), t[i][2].conn > t[1][2].conn PROVE last[t[i][2].conn] = 0
  <2>1. s # <<>>
    <3>1. CASE s = <<>>
      <4>1. L = 0 /\ t[1][2].conn = k /\ t[i][2].conn = k
        BY <3>1, <1>1, <1>7, <1>8
      <4> QED
        BY <4>1, <1>12
    <3> QED
      BY <3>1
  <2>2. 1 \in 1 .. L /\ L \in 1 .. L /\ t[1] = s[1]
    BY <2>1, <1>1
  <2>3. \A j \in 1 .. L : s[j][2].conn > s[1][2].conn => last[s[j][2].conn] = 0
    BY DEF InOrder
  <2>4. CASE i \in 1 .. L
    BY <2>2, <2>3, <2>4, <1>12
  <2>5. CASE i = L + 1 \/ i = L + 2
    <3>1. t[i][2].conn = k /\ k > s[1][2].conn
      BY <2>2, <2>5, <1>8, <1>12
    <3>2. CASE s[L][2].conn < k
      BY <2>1, <3>1, <3>2, <1>4
    <3>3. CASE s[L][2].conn = k
      BY <2>2, <2>3, <3>1, <3>3
    <3> QED
      BY <2>1, <2>2, <3>2, <3>3, <1>3, <1>4, SMTT(60)
  <2> QED
    BY <1>7, <2>4, <2>5
<1>13. InOrder(t, last)
  BY <1>9, <1>10, <1>11, <1>12 DEF InOrder
<1>14. Tip(t, k, h, last)
  <2>1. Len(t) = L + 2 /\ t # <<>> /\ t[Len(t)] = <<"tail", m>>
    BY <1>1
  <2>2. t[Len(t)][1] = "tail" /\ t[Len(t)][2].conn = k /\ t[Len(t)][2].nr = h.sent
    BY <2>1
  <2> QED
    BY <2>1, <2>2 DEF Tip
<1>15. Tags(t) \subseteq Tags(s) \cup {k}
  <2>1. \A i \in 1 .. Len(t) : t[i][2].conn = k \/ \E j \in 1 .. Len(s) : t[i][2].conn = s[j][2].conn
    BY <1>7, <1>8
  <2> QED
    BY <2>1, SMTT(60) DEF Tags
<1> QED
  BY <1>13, <1>14, <1>15

-----------------------------------------------------------------------------
\* What no operation of the client but reading changes: the reader keeps its units, and a
\* connection is kept with what is on the way, dropped, or a new one that has nothing.
Reader(x) == <<x.m_last_command, x.m_internal_buffer, x.missing, x.back>>
Moved(c, d, f) ==
  /\ Reader(d.ex[f]) = Reader(c.ex[f])
  /\ LET k == d.ex[f].conn
     IN  \/ k = 0
         \/ k > Len(c.nd.conns) /\ d.nd.conns[k].stream = <<>> /\ d.nd.conns[k].sent = 0
         \/ /\ k = c.ex[f].conn /\ d.nd.conns[k].stream = c.nd.conns[k].stream
            /\ d.nd.conns[k].sent = c.nd.conns[k].sent
            /\ d.nd.conns[k].open => c.nd.conns[k].open
Moves(c, d) ==
  /\ DOMAIN d.ex = DOMAIN c.ex /\ Len(d.nd.conns) >= Len(c.nd.conns)
  /\ \A f \in DOMAIN c.ex : Moved(c, d, f)

\* Two such steps are one.
LEMMA MovesTwice ==
  ASSUME NEW c \in Clients, NEW d \in Clients, NEW g \in Clients, Moves(c, d), Moves(d, g)
  PROVE  Moves(c, g)
<1>1. Len(c.nd.conns) \in Nat /\ Len(d.nd.conns) \in Nat /\ Len(g.nd.conns) \in Nat
  BY ClientForm
<1>2. DOMAIN g.ex = DOMAIN c.ex /\ DOMAIN d.ex = DOMAIN c.ex
      /\ Len(d.nd.conns) >= Len(c.nd.conns) /\ Len(g.nd.conns) >= Len(d.nd.conns)
  BY DEF Moves
<1>3. ASSUME NEW f \in DOMAIN c.ex PROVE Moved(c, g, f)
  <2>1. Moved(c, d, f) /\ Moved(d, g, f)
    BY <1>2 DEF Moves
  <2>2. g.ex[f].conn \in Nat /\ d.ex[f].conn \in Nat
    BY <1>2, ClientForm, ExecutorForm
  <2>3. CASE g.ex[f].conn > Len(d.nd.conns)
    <3>1. g.ex[f].conn > Len(c.nd.conns)
      BY <1>1, <1>2, <2>2, <2>3
    <3>2. g.ex[f].conn # d.ex[f].conn \/ g.ex[f].conn = d.ex[f].conn
      OBVIOUS
    <3> QED
      BY <2>1, <2>3, <3>1 DEF Moved
  <2>4. CASE g.ex[f].conn <= Len(d.nd.conns)
    <3>1. ~(g.ex[f].conn > Len(d.nd.conns))
      BY <1>1, <2>2, <2>4
    <3> QED
      BY <2>1, <3>1 DEF Moved
  <2> QED
    BY <1>1, <2>2, <2>3, <2>4
<1>4. Len(g.nd.conns) >= Len(c.nd.conns)
  BY <1>1, <1>2
<1> QED
  BY <1>2, <1>3, <1>4 DEF Moves

\* One executor changes, and of the connections only its own.
LEMMA OneMoves ==
  ASSUME NEW c \in Clients, NEW d \in Clients, NEW e \in DOMAIN c.ex, OwnConns(c),
         DOMAIN d.ex = DOMAIN c.ex, \A f \in DOMAIN c.ex : f # e => d.ex[f] = c.ex[f],
         Len(d.nd.conns) >= Len(c.nd.conns),
         \A j \in 1 .. Len(c.nd.conns) : j # c.ex[e].conn => d.nd.conns[j] = c.nd.conns[j],
         Moved(c, d, e)
  PROVE  Moves(c, d)
<1>1. ASSUME NEW f \in DOMAIN c.ex, f # e PROVE Moved(c, d, f)
  <2>1. d.ex[f] = c.ex[f] /\ c.ex[f].conn \in Nat /\ c.ex[f].conn <= Len(c.nd.conns) /\ Len(c.nd.conns) \in Nat
    <3>1. c.ex[f] \in Executor /\ c.nd.conns \in Seq(Conn)
      BY ClientForm
    <3>2. c.ex[f].conn \in Nat /\ Len(c.nd.conns) \in Nat
      BY <3>1, ExecutorForm
    <3>3. c.ex[f].conn <= Len(c.nd.conns)
      BY DEF OwnConns
    <3> QED
      BY <1>1, <3>2, <3>3
  <2>2. c.ex[f].conn # 0 => c.ex[f].conn # c.ex[e].conn
    BY <1>1 DEF OwnConns
  <2>3. c.ex[f].conn # 0 => d.nd.conns[c.ex[f].conn] = c.nd.conns[c.ex[f].conn]
    BY <2>1, <2>2, SMTT(60)
  <2> QED
    BY <2>1, <2>3 DEF Moved
<1> QED
  BY <1>1 DEF Moves

\* A connection that has ended keeps what was sent.
LEMMA EndedSent ==
  ASSUME NEW g \in Conn
  PROVE  Ended(g).sent = g.sent /\ Ended(g).open = FALSE
  BY DEF Ended, Conn

\* closeConnection drops the connection.
LEMMA CloseMoves ==
  ASSUME NEW c \in Clients, NEW e \in DOMAIN c.ex, OwnConns(c)
  PROVE  Moves(c, closeConnection(c, e))
<1> DEFINE k == c.ex[e].conn
           y == c.ex[e]
           d == closeConnection(c, e)
           x == [y EXCEPT !.conn = 0]
           h == Ended(c.nd.conns[k])
<1>0. c.ex \in Seq(Executor) /\ c.nd.conns \in Seq(Conn) /\ y \in Executor
  BY ClientForm
<1>1. d \in Clients /\ DOMAIN d.ex = DOMAIN c.ex
  BY CloseEffect DEF Shrinks
<1>2. CASE k = 0
  <2>1. d = c
    BY <1>2 DEF closeConnection
  <2>2. Len(c.nd.conns) >= Len(c.nd.conns)
    BY <1>0
  <2> QED
    BY <2>1, <2>2 DEF Moves, Moved
<1>3. CASE k # 0
  <2>1. d = [c EXCEPT !.ex[e].conn = 0, !.nd.conns[k] = Ended(@)]
    BY <1>3 DEF closeConnection
  <2> HIDE DEF d
  <2>2. d.ex = [c.ex EXCEPT ![e] = x]
    BY <2>1 DEF Clients
  <2>3. d.nd.conns = [c.nd.conns EXCEPT ![k] = h]
    BY <2>1, <1>0 DEF Clients, Node
  <2>4. x.conn = 0 /\ Reader(x) = Reader(y)
    BY <1>0 DEF Executor, Reader
  <2> HIDE DEF x, h
  <2>5. d.ex[e] = x /\ \A f \in DOMAIN c.ex : f # e => d.ex[f] = c.ex[f]
    BY <2>2
  <2>6. Len(d.nd.conns) >= Len(c.nd.conns) /\ \A j \in 1 .. Len(c.nd.conns) : j # k => d.nd.conns[j] = c.nd.conns[j]
    BY <1>0, <2>3
  <2>7. Moved(c, d, e)
    BY <2>4, <2>5 DEF Moved
  <2>8. Moves(c, d)
    BY <1>1, <2>5, <2>6, <2>7, OneMoves DEF d
  <2> QED
    BY <2>8 DEF d
<1> QED
  BY <1>2, <1>3

\* startConnect gives a new connection, or none.
LEMMA ConnectMoves ==
  ASSUME NEW c \in Clients, NEW e \in DOMAIN c.ex, OwnConns(c)
  PROVE  Moves(c, startConnect(c, e))
<1> DEFINE y == c.ex[e]
           d == startConnect(c, e)
           N == Len(c.nd.conns) + 1
<1>0. c.ex \in Seq(Executor) /\ c.nd.conns \in Seq(Conn) /\ y \in Executor
  BY ClientForm
<1>1. d \in Clients /\ DOMAIN d.ex = DOMAIN c.ex
  BY NewConn DEF Shrinks
<1>2. CASE ~c.nd.up
  <2> DEFINE x == [y EXCEPT !.conn = 0]
  <2>1. d = [[c EXCEPT !.working = FALSE] EXCEPT !.ex[e].conn = 0]
    BY <1>2 DEF startConnect, onLostConnection
  <2> HIDE DEF d
  <2>2. d.ex = [c.ex EXCEPT ![e] = x] /\ d.nd = c.nd
    BY <2>1 DEF Clients
  <2>3. x.conn = 0 /\ Reader(x) = Reader(y)
    BY <1>0 DEF Executor, Reader
  <2> HIDE DEF x
  <2>4. d.ex[e] = x /\ \A f \in DOMAIN c.ex : f # e => d.ex[f] = c.ex[f]
    BY <2>2
  <2>5. Len(d.nd.conns) >= Len(c.nd.conns) /\ \A j \in 1 .. Len(c.nd.conns) : d.nd.conns[j] = c.nd.conns[j]
    BY <1>0, <2>2
  <2>6. Moved(c, d, e)
    BY <2>3, <2>4 DEF Moved
  <2>7. Moves(c, d)
    BY <1>1, <2>4, <2>5, <2>6, OneMoves DEF d
  <2> QED
    BY <2>7 DEF d
<1>3. CASE c.nd.up
  <2> DEFINE x == [y EXCEPT !.conn = N]
             g == [sid |-> c.nd.sessions + 1, open |-> TRUE, asks |-> <<>>, stream |-> <<>>, sent |-> 0]
  <2>1. d = [ex |-> [c.ex EXCEPT ![e].conn = N],
             nd |-> [c.nd EXCEPT !.sessions = @ + 1, !.conns = Append(@, g)], working |-> FALSE]
    BY <1>3, Zenon DEF startConnect
  <2> HIDE DEF d
  <2>2. d.ex = [c.ex EXCEPT ![e] = x]
    BY <2>1
  <2>3. g.stream = <<>> /\ g.sent = 0
    OBVIOUS
  <2> HIDE DEF g
  <2>4. d.nd.conns = Append(c.nd.conns, g)
    BY <2>1 DEF Clients, Node
  <2>5. x.conn = N /\ Reader(x) = Reader(y)
    BY <1>0 DEF Executor, Reader
  <2> HIDE DEF x
  <2>6. d.ex[e] = x /\ \A f \in DOMAIN c.ex : f # e => d.ex[f] = c.ex[f]
    BY <2>2
  <2>7. Len(d.nd.conns) >= Len(c.nd.conns) /\ d.nd.conns[N] = g /\ N > Len(c.nd.conns)
        /\ \A j \in 1 .. Len(c.nd.conns) : d.nd.conns[j] = c.nd.conns[j]
    BY <1>0, <2>4
  <2>8. Moved(c, d, e)
    BY <2>3, <2>5, <2>6, <2>7 DEF Moved
  <2>9. Moves(c, d)
    BY <1>1, <2>6, <2>7, <2>8, OneMoves DEF d
  <2> QED
    BY <2>9 DEF d
<1> QED
  BY <1>2, <1>3

\* A step that leaves every reader and every connection.
LEMMA StillMoves ==
  ASSUME NEW c \in Clients, NEW d \in Clients, DOMAIN d.ex = DOMAIN c.ex, d.nd.conns = c.nd.conns,
         \A f \in DOMAIN c.ex : d.ex[f].conn = c.ex[f].conn /\ Reader(d.ex[f]) = Reader(c.ex[f])
  PROVE  Moves(c, d)
<1>1. Len(c.nd.conns) \in Nat
  BY ClientForm
<1>2. Len(d.nd.conns) >= Len(c.nd.conns)
  BY <1>1
<1> QED
  BY <1>2 DEF Moves, Moved

\* A request, with the connection it may need.
LEMMA NetMoves ==
  ASSUME NEW c \in Clients, NEW e \in DOMAIN c.ex, OwnConns(c), NEW req \in Ask
  PROVE  Moves(c, sendNetRequest(c, e, req)) /\ sendNetRequest(c, e, req) \in Clients
         /\ OwnConns(sendNetRequest(c, e, req)) /\ DOMAIN sendNetRequest(c, e, req).ex = DOMAIN c.ex
<1> DEFINE lost == onLostConnection(c)
           conn == startConnect(lost, e)
           b == IF is_connected(c, e) THEN c ELSE conn
           q == [b EXCEPT !.nd.requests = @ + 1]
           d == send_msg(q, e, req)
<1>1. sendNetRequest(c, e, req) = d
  BY Zenon DEF sendNetRequest
<1>2. d \in Clients /\ DOMAIN d.ex = DOMAIN c.ex /\ OwnConns(d)
  BY <1>1, NetRequest DEF Asks
<1>3. Moves(c, b) /\ b \in Clients /\ OwnConns(b) /\ DOMAIN b.ex = DOMAIN c.ex
  <2>1. Moves(c, c)
    BY StillMoves
  <2>2. FALSE \in BOOLEAN
    OBVIOUS
  <2>3. Shrinks(c, lost) /\ lost.nd = c.nd /\ lost.ex = c.ex
    BY <2>2, SetWorking DEF onLostConnection
  <2>4. lost \in Clients /\ e \in DOMAIN lost.ex /\ OwnConns(lost)
    BY <2>3 DEF Shrinks
  <2>5. Moves(c, lost)
    BY <2>3, <2>4, StillMoves
  <2>6. Moves(lost, conn) /\ Shrinks(lost, conn)
    BY <2>4, ConnectMoves, NewConn
  <2>7. conn \in Clients /\ OwnConns(conn) /\ DOMAIN conn.ex = DOMAIN c.ex
    BY <2>3, <2>6 DEF Shrinks
  <2> HIDE DEF conn, lost
  <2>8. Moves(c, conn)
    BY <2>4, <2>5, <2>6, <2>7, MovesTwice
  <2> QED
    BY <2>1, <2>7, <2>8
<1> HIDE DEF b
<1>4. b.nd \in Node /\ b.nd.requests \in Nat /\ b.ex \in Seq(Executor) /\ b.working \in BOOLEAN
  BY <1>3, ClientForm
<1> DEFINE r == b.nd.requests + 1
<1>5. r \in Nat /\ q = [b EXCEPT !.nd.requests = r]
  BY <1>4
<1> HIDE DEF r, q
<1>6. q.ex = b.ex /\ q.nd = [b.nd EXCEPT !.requests = r] /\ q.working = b.working
      /\ q = [ex |-> q.ex, nd |-> q.nd, working |-> q.working]
  BY <1>3, <1>5 DEF Clients
<1>7. q.nd \in Node /\ q.nd.conns = b.nd.conns
  BY <1>4, <1>5, <1>6 DEF Node
<1>8. q \in Clients
  BY <1>4, <1>6, <1>7 DEF Clients
<1>9. Moves(b, q) /\ OwnConns(q)
  BY <1>3, <1>6, <1>7, <1>8, StillMoves DEF OwnConns
<1>10. Moves(q, d)
  <2>1. CASE ~is_connected(q, e)
    <3>1. d = q
      BY <2>1 DEF send_msg
    <3> QED
      BY <1>8, <3>1, StillMoves
  <2>2. CASE is_connected(q, e)
    <3> DEFINE k == q.ex[e].conn
               g == q.nd.conns[k]
               h == [g EXCEPT !.asks = Append(@, req)]
    <3>1. d = [q EXCEPT !.nd.conns[k].asks = Append(@, req)]
      BY <2>2 DEF send_msg
    <3>2. k \in 1 .. Len(q.nd.conns) /\ g \in Conn /\ q.nd.conns \in Seq(Conn)
      <4>1. q.ex[e] \in Executor /\ q.nd.conns \in Seq(Conn)
        BY <1>3, <1>6, <1>8, ClientForm
      <4>2. k \in Nat /\ k # 0
        BY <2>2, <4>1, ExecutorForm DEF is_connected
      <4>3. k <= Len(q.nd.conns)
        BY <1>3, <1>6, <1>9 DEF OwnConns
      <4> QED
        BY <4>1, <4>2, <4>3
    <3> HIDE DEF d
    <3>3. d.ex = q.ex /\ d.nd.conns = [q.nd.conns EXCEPT ![k] = h]
      BY <1>8, <3>1 DEF Clients, Node
    <3>4. h.stream = g.stream /\ h.sent = g.sent /\ h.open = g.open
      BY <3>2 DEF Conn
    <3> HIDE DEF h
    <3>5. Len(d.nd.conns) >= Len(q.nd.conns) /\ d.nd.conns[k] = h
          /\ \A j \in 1 .. Len(q.nd.conns) : j # k => d.nd.conns[j] = q.nd.conns[j]
      BY <3>2, <3>3
    <3>6. Moved(q, d, e)
      BY <3>3, <3>4, <3>5 DEF Moved
    <3> QED
      BY <1>2, <1>3, <1>6, <1>8, <1>9, <3>3, <3>5, <3>6, OneMoves
  <2> QED
    BY <2>1, <2>2
<1> HIDE DEF d
<1>11. Moves(c, q)
  BY <1>3, <1>8, <1>9, MovesTwice
<1>12. Moves(c, d)
  BY <1>2, <1>8, <1>10, <1>11, MovesTwice
<1> QED
  BY <1>1, <1>2, <1>12

\* A step that changes fields of one executor that are not its reader's.
LEMMA FieldMoves ==
  ASSUME NEW c \in Clients, NEW d \in Clients, NEW e \in DOMAIN c.ex, NEW x,
         d.ex = [c.ex EXCEPT ![e] = x], d.nd = c.nd, x.conn = c.ex[e].conn, Reader(x) = Reader(c.ex[e])
  PROVE  Moves(c, d)
<1>1. c.ex \in Seq(Executor)
  BY ClientForm
<1>2. DOMAIN d.ex = DOMAIN c.ex /\ \A f \in DOMAIN c.ex : d.ex[f] = IF f = e THEN x ELSE c.ex[f]
  BY <1>1
<1> QED
  BY <1>2, StillMoves

\* A command, sent or not.
LEMMA SendMoves ==
  ASSUME NEW c \in Clients, NEW e \in DOMAIN c.ex, OwnConns(c),
         NEW cmd \in Commands, NEW peer \in Vips \cup {NoPeer}, cmd \in NamesPeer => peer \in Vips
  PROVE  LET d == sendCommand(c, e, cmd, peer)
         IN  Moves(c, d) /\ d \in Clients /\ OwnConns(d) /\ DOMAIN d.ex = DOMAIN c.ex
<1> DEFINE id == NextId(c.ex[e], cmd)
           req == get_str(cmd, id, Serial(c))
           o == [cmd |-> cmd, n |-> Serial(c), peer |-> IF cmd = "delete_peer" THEN NoPeer ELSE peer]
           p == prepareCommand(c, e, cmd)
           s == sendNetRequest(p, e, req)
           d == addOrder(s, e, id, o)
           x == c.ex[e]
<1>1. CASE cmd # "hello" /\ x.m_client_name = 0
  <2>1. sendCommand(c, e, cmd, peer) = c
    BY <1>1 DEF sendCommand
  <2>2. Moves(c, c)
    BY StillMoves
  <2> QED
    BY <2>1, <2>2
<1>2. CASE ~(cmd # "hello" /\ x.m_client_name = 0)
  <2>1. sendCommand(c, e, cmd, peer) = d
    BY <1>2, Zenon DEF sendCommand
  <2>2. req \in Ask /\ d \in Clients /\ DOMAIN d.ex = DOMAIN c.ex /\ OwnConns(d)
    BY <1>2, <2>1, SentForm
  <2>3. x \in Executor /\ c.nd \in Node /\ c.ex \in Seq(Executor) /\ c.working \in BOOLEAN
    BY ClientForm
  <2>4. p \in Clients /\ DOMAIN p.ex = DOMAIN c.ex /\ OwnConns(p) /\ Moves(c, p)
    <3>1. CASE cmd = "hello"
      BY <3>1, StillMoves DEF prepareCommand
    <3>2. CASE cmd # "hello"
      <4> DEFINE z == x.m_counter + 1
                 y == [x EXCEPT !.m_counter = z]
      <4>1. p = [c EXCEPT !.ex[e].m_counter = @ + 1]
        BY <3>2 DEF prepareCommand
      <4>2. p.ex = [c.ex EXCEPT ![e] = y] /\ p.nd = c.nd /\ p.working = c.working
            /\ p = [ex |-> p.ex, nd |-> p.nd, working |-> p.working]
        BY <4>1 DEF Clients
      <4>3. z \in Nat
        BY <2>3, ExecutorForm
      <4> HIDE DEF z
      <4>4. y \in Executor /\ y.conn = x.conn /\ Reader(y) = Reader(x) /\ InReader(y) = InReader(x)
        BY <2>3, <4>3 DEF Executor, Reader, InReader
      <4> HIDE DEF y, p
      <4>5. p \in Clients /\ DOMAIN p.ex = DOMAIN c.ex /\ OwnConns(p)
        BY <2>3, <4>2, <4>4, OneExecutor
      <4> QED
        BY <4>2, <4>4, <4>5, FieldMoves
    <3> QED
      BY <3>1, <3>2
  <2> HIDE DEF p, req
  <2>5. Moves(p, s) /\ s \in Clients /\ DOMAIN s.ex = DOMAIN c.ex
    BY <2>2, <2>4, NetMoves
  <2> HIDE DEF s
  <2>6. Moves(s, d)
    <3>1. CASE id = NoId
      <4>1. d = s
        BY <3>1 DEF addOrder
      <4> QED
        BY <2>5, <4>1, StillMoves
    <3>2. CASE id # NoId
      <4>1. s.ex[e] \in Executor
        BY <2>5, ClientForm
      <4>2. PICK y : d.ex = [s.ex EXCEPT ![e] = y] /\ d.nd = s.nd /\ y.conn = s.ex[e].conn
                     /\ Reader(y) = Reader(s.ex[e])
        <5>1. CASE id \in DOMAIN s.ex[e].m_orders
          <6> DEFINE y == [s.ex[e] EXCEPT !.clash = TRUE]
          <6>1. d = [s EXCEPT !.ex[e].clash = TRUE]
            BY <3>2, <5>1 DEF addOrder
          <6>2. d.ex = [s.ex EXCEPT ![e] = y] /\ d.nd = s.nd
            BY <2>5, <6>1 DEF Clients
          <6>3. y.conn = s.ex[e].conn /\ Reader(y) = Reader(s.ex[e])
            BY <4>1 DEF Executor, Reader
          <6> QED
            BY <6>2, <6>3
        <5>2. CASE id \notin DOMAIN s.ex[e].m_orders
          <6> DEFINE m == s.ex[e].m_orders
                     w == [i \in DOMAIN m \cup {id} |-> IF i = id THEN o ELSE m[i]]
                     y == [s.ex[e] EXCEPT !.m_orders = w]
          <6>1. d = [s EXCEPT !.ex[e].m_orders = [i \in DOMAIN @ \cup {id} |-> IF i = id THEN o ELSE @[i]]]
            BY <3>2, <5>2 DEF addOrder
          <6>2. d.ex = [s.ex EXCEPT ![e] = y] /\ d.nd = s.nd
            BY <2>5, <6>1 DEF Clients
          <6> HIDE DEF w
          <6>3. y.conn = s.ex[e].conn /\ Reader(y) = Reader(s.ex[e])
            BY <4>1 DEF Executor, Reader
          <6> HIDE DEF y
          <6> QED
            BY <6>2, <6>3
        <5> QED
          BY <5>1, <5>2
      <4> HIDE DEF d
      <4> QED
        BY <2>2, <2>5, <4>2, FieldMoves
    <3> QED
      BY <3>1, <3>2
  <2> HIDE DEF d
  <2>7. Moves(c, s)
    BY <2>4, <2>5, MovesTwice
  <2>8. Moves(c, d)
    BY <2>2, <2>5, <2>6, <2>7, MovesTwice
  <2> QED
    BY <2>1, <2>2, <2>8
<1> QED
  BY <1>1, <1>2

\* hello of a new executor.
LEMMA HelloMoves ==
  ASSUME NEW c \in Clients, NEW e \in DOMAIN c.ex, NEW done \in Seq(Nat), ClientOK(c, done), CounterOK(c)
  PROVE  Moves(c, startCommunication(c, e))
<1> DEFINE req == [cmd |-> "hello", id |-> NoId, n |-> Serial(c)]
           s == sendNetRequest(c, e, req)
           x == [s.ex[e] EXCEPT !.m_wait_name_flag = TRUE]
           d == startCommunication(c, e)
<1>0. OwnConns(c) /\ c.nd.requests \in Nat
  BY ClientForm DEF ClientOK
<1>1. req \in Ask
  BY <1>0 DEF Ask, Serial, Commands
<1>2. d = [s EXCEPT !.ex[e].m_wait_name_flag = TRUE]
  BY Zenon DEF startCommunication
<1>3. d \in Clients
  BY HelloKeeps
<1> HIDE DEF req, d
<1>4. Moves(c, s) /\ s \in Clients /\ DOMAIN s.ex = DOMAIN c.ex
  BY <1>0, <1>1, NetMoves
<1> HIDE DEF s
<1>5. d.ex = [s.ex EXCEPT ![e] = x] /\ d.nd = s.nd
  BY <1>2, <1>4 DEF Clients
<1>6. s.ex[e] \in Executor
  BY <1>4, ClientForm
<1>7. x.conn = s.ex[e].conn /\ Reader(x) = Reader(s.ex[e])
  BY <1>6 DEF Executor, Reader
<1> HIDE DEF x
<1>8. Moves(s, d)
  BY <1>3, <1>4, <1>5, <1>7, FieldMoves
<1>9. Moves(c, d)
  BY <1>3, <1>4, <1>8, MovesTwice
<1> QED
  BY <1>9 DEF d

\* The answer to hello.
LEMMA NameMoves ==
  ASSUME NEW c \in Clients, NEW e \in DOMAIN c.ex, NEW done \in Seq(Nat), ClientOK(c, done), CounterOK(c),
         NEW name \in Nat
  PROVE  Moves(c, setSenderRpcName(c, e, name))
<1> DEFINE x == c.ex[e]
           y == [setRpcName(x, name) EXCEPT !.m_wait_name_flag = FALSE]
           v == onGetSessionId(c)
           b == [v EXCEPT !.ex[e] = [setRpcName(@, name) EXCEPT !.m_wait_name_flag = FALSE]]
           s == sendCommand(b, e, "get_status", NoPeer)
           z == [s.ex[e] EXCEPT !.m_timer = TRUE]
           d == setSenderRpcName(c, e, name)
<1>0. OwnConns(c) /\ x \in Executor /\ c.nd \in Node
  BY ClientForm DEF ClientOK
<1>1. d \in Clients
  BY NameKeeps
<1>2. d = [s EXCEPT !.ex[e].m_timer = TRUE]
  BY Zenon DEF setSenderRpcName
<1> HIDE DEF d
<1>3. y \in Executor /\ y.conn = x.conn /\ Reader(y) = Reader(x) /\ InReader(y) = InReader(x)
  <2>1. CASE x.m_client_name = name
    <3>1. y = [x EXCEPT !.m_wait_name_flag = FALSE]
      BY <2>1 DEF setRpcName
    <3> QED
      BY <1>0, <3>1 DEF Executor, InReader, Reader
  <2>2. CASE x.m_client_name # name
    <3> DEFINE u == [x EXCEPT !.m_client_name = name, !.m_counter = 0]
    <3>1. y = [u EXCEPT !.m_wait_name_flag = FALSE]
      BY <2>2 DEF setRpcName
    <3>2. u \in Executor /\ u.conn = x.conn /\ Reader(u) = Reader(x) /\ InReader(u) = InReader(x)
      BY <1>0 DEF Executor, InReader, Reader
    <3> HIDE DEF u
    <3>3. y \in Executor /\ y.conn = u.conn /\ Reader(y) = Reader(u) /\ InReader(y) = InReader(u)
      BY <3>1, <3>2 DEF Executor, InReader, Reader
    <3> QED
      BY <3>2, <3>3
  <2> QED
    BY <2>1, <2>2
<1>4. b.ex = [c.ex EXCEPT ![e] = y] /\ b.nd = c.nd /\ b.working = TRUE
      /\ b = [ex |-> b.ex, nd |-> b.nd, working |-> b.working]
  <2>1. v \in Clients /\ v.ex = c.ex /\ v.nd = c.nd /\ v.working = TRUE
    BY DEF Clients, onGetSessionId
  <2> DEFINE yy == [setRpcName(v.ex[e], name) EXCEPT !.m_wait_name_flag = FALSE]
  <2>2. yy = y
    BY <2>1
  <2>3. b = [v EXCEPT !.ex[e] = yy]
    BY Zenon
  <2> HIDE DEF v, y, yy, b
  <2>4. b.ex = [v.ex EXCEPT ![e] = yy] /\ b.nd = v.nd /\ b.working = v.working
        /\ b = [ex |-> b.ex, nd |-> b.nd, working |-> b.working]
    BY <2>1, <2>3 DEF Clients
  <2> QED
    BY <2>1, <2>2, <2>4
<1> HIDE DEF y, b
<1>5. b.working \in BOOLEAN
  BY <1>4
<1>6. b \in Clients /\ DOMAIN b.ex = DOMAIN c.ex /\ OwnConns(b)
  <2>1. y \in Executor /\ y.conn = c.ex[e].conn /\ InReader(y) \subseteq InReader(c.ex[e])
    BY <1>3
  <2> HIDE DEF x
  <2> QED
    BY <1>0, <1>4, <1>5, <2>1, OneExecutor
<1>7. Moves(c, b)
  BY <1>3, <1>4, <1>6, FieldMoves
<1>8. Moves(b, s) /\ s \in Clients /\ DOMAIN s.ex = DOMAIN c.ex
  <2>1. "get_status" \in Commands /\ "get_status" \notin NamesPeer /\ NoPeer \in Vips \cup {NoPeer}
    BY DEF Commands, PlainCommands, NamesPeer
  <2> QED
    BY <1>6, <2>1, SendMoves
<1> HIDE DEF s
<1>9. d.ex = [s.ex EXCEPT ![e] = z] /\ d.nd = s.nd
  BY <1>2, <1>8 DEF Clients
<1>10. s.ex[e] \in Executor
  BY <1>8, ClientForm
<1>11. z.conn = s.ex[e].conn /\ Reader(z) = Reader(s.ex[e])
  BY <1>10 DEF Executor, Reader
<1> HIDE DEF z
<1>12. Moves(s, d)
  BY <1>1, <1>8, <1>9, <1>11, FieldMoves
<1>13. Moves(c, s)
  BY <1>6, <1>7, <1>8, MovesTwice
<1>14. Moves(c, d)
  BY <1>1, <1>8, <1>12, <1>13, MovesTwice
<1> QED
  BY <1>14 DEF d

\* An order that is handed out.
LEMMA TakeMoves ==
  ASSUME NEW c \in Clients, NEW e \in DOMAIN c.ex, NEW id, getOrder(c, e, id) \in Clients
  PROVE  Moves(c, getOrder(c, e, id))
<1> DEFINE x == c.ex[e]
           m == x.m_orders
           w == [i \in DOMAIN m \ {id} |-> m[i]]
           y == [x EXCEPT !.m_orders = w]
           d == getOrder(c, e, id)
<1>1. x \in Executor
  BY ClientForm
<1>2. d = [c EXCEPT !.ex[e].m_orders = [i \in DOMAIN @ \ {id} |-> @[i]]]
  BY DEF getOrder
<1> HIDE DEF d
<1>3. d.ex = [c.ex EXCEPT ![e] = y] /\ d.nd = c.nd
  BY <1>2 DEF Clients
<1> HIDE DEF w
<1>4. y.conn = x.conn /\ Reader(y) = Reader(x)
  BY <1>1 DEF Executor, Reader
<1> HIDE DEF y
<1>5. Moves(c, d)
  BY <1>3, <1>4, FieldMoves DEF d
<1> QED
  BY <1>5 DEF d

\* The units of an executor.
LEMMA FlowForm ==
  ASSUME NEW c \in Clients, OwnConns(c), NEW e \in DOMAIN c.ex
  PROVE  /\ Held(c.ex[e]) \in Seq(Unit) /\ OnWay(c, e) \in Seq(Unit) /\ Flow(c, e) \in Seq(Unit)
         /\ c.ex[e].back \in Seq(Unit) /\ c.ex[e].conn \in 0 .. Len(c.nd.conns) /\ Len(c.nd.conns) \in Nat
         /\ c.ex[e].conn # 0 => c.nd.conns[c.ex[e].conn] \in Conn
<1>1. c.ex[e] \in Executor /\ c.nd.conns \in Seq(Conn)
  BY ClientForm
<1>2. /\ c.ex[e].conn \in Nat /\ c.ex[e].m_last_command \in Seq(Unit)
      /\ c.ex[e].m_internal_buffer \in Seq(Unit) /\ c.ex[e].back \in Seq(Unit)
  BY <1>1, ExecutorForm
<1>3. c.ex[e].conn <= Len(c.nd.conns)
  BY DEF OwnConns
<1>4. c.ex[e].conn \in 0 .. Len(c.nd.conns) /\ (c.ex[e].conn # 0 => c.nd.conns[c.ex[e].conn] \in Conn)
  BY <1>1, <1>2, <1>3
<1>5. Held(c.ex[e]) \in Seq(Unit)
  BY <1>2 DEF Held
<1>6. OnWay(c, e) \in Seq(Unit)
  BY <1>4 DEF OnWay, Conn
<1>7. Flow(c, e) \in Seq(Unit)
  BY <1>5, <1>6 DEF Flow
<1> QED
  BY <1>1, <1>2, <1>4, <1>5, <1>6, <1>7

\* Replies stay in order when connections are kept, dropped or made.
LEMMA MovesKeep ==
  ASSUME NEW c \in Clients, NEW d \in Clients, OwnConns(c), OwnConns(d), Moves(c, d),
         NEW last \in [1 .. MaxConn -> Nat], RepliesOK(c, last), Len(d.nd.conns) <= MaxConn
  PROVE  RepliesOK(d, last)
<1>0. MaxConn \in Nat /\ Len(c.nd.conns) \in Nat /\ Len(d.nd.conns) \in Nat
      /\ Len(d.nd.conns) >= Len(c.nd.conns) /\ DOMAIN d.ex = DOMAIN c.ex
  BY GuiConstants, ClientForm DEF Moves
<1>1. \A j \in 1 .. MaxConn : j > Len(d.nd.conns) => last[j] = 0
  BY <1>0 DEF RepliesOK
<1>2. ASSUME NEW e \in DOMAIN c.ex
      PROVE  /\ InOrder(Flow(d, e), last) /\ Numbers(d, e) \subseteq Numbers(c, e)
             /\ ReaderOK(d.ex[e], last)
             /\ d.ex[e].conn # 0 => Tip(Flow(d, e), d.ex[e].conn, d.nd.conns[d.ex[e].conn], last)
             /\ d.ex[e].conn \in {0, c.ex[e].conn} \/ d.ex[e].conn > Len(c.nd.conns)
             /\ Numbers(c, e) \subseteq 1 .. Len(c.nd.conns)
    <2> DEFINE k == d.ex[e].conn
               r == Held(c.ex[e])
               g == OnWay(c, e)
    <2>1. Moved(c, d, e)
      BY DEF Moves
    <2>2. Reader(d.ex[e]) = Reader(c.ex[e])
      BY <2>1 DEF Moved
    <2>3. Held(d.ex[e]) = r /\ d.ex[e].back = c.ex[e].back /\ d.ex[e].missing = c.ex[e].missing
          /\ d.ex[e].m_last_command = c.ex[e].m_last_command
      BY <2>2 DEF Reader, Held
    <2>4. /\ r \in Seq(Unit) /\ g \in Seq(Unit) /\ Flow(c, e) = r \o g /\ Flow(c, e) \in Seq(Unit)
          /\ Flow(d, e) \in Seq(Unit) /\ k \in 0 .. Len(d.nd.conns) /\ c.ex[e].conn \in 0 .. Len(c.nd.conns)
      BY <1>0, FlowForm DEF Flow
    <2>5. /\ ReaderOK(c.ex[e], last) /\ InOrder(Flow(c, e), last)
          /\ Numbers(c, e) \subseteq 1 .. Len(c.nd.conns)
          /\ c.ex[e].conn # 0 => Tip(Flow(c, e), c.ex[e].conn, c.nd.conns[c.ex[e].conn], last)
      BY DEF RepliesOK
    <2>6. ReaderOK(d.ex[e], last)
      BY <2>3, <2>5 DEF ReaderOK
    <2>7. 0 \in 0 .. Len(g)
      BY <2>4
    <2>8. Starts(r, Flow(c, e)) /\ r \o <<>> = r
      BY <2>4, <2>7, StartOfConcat
    <2>9. InOrder(r, last) /\ Tags(r) \subseteq Tags(Flow(c, e))
      BY <2>4, <2>5, <2>8, StartInOrder
    <2>10. CASE k = 0
      <3>1. Flow(d, e) = r
        BY <2>3, <2>8, <2>10 DEF Flow, OnWay
      <3> QED
        BY <2>3, <2>5, <2>6, <2>9, <2>10, <3>1 DEF Numbers
    <2>11. CASE k > Len(c.nd.conns) /\ d.nd.conns[k].stream = <<>> /\ d.nd.conns[k].sent = 0
      <3>0. k # 0 /\ k \in 1 .. MaxConn
        <4>1. k > Len(c.nd.conns) /\ k \in 0 .. Len(d.nd.conns) /\ Len(d.nd.conns) <= MaxConn
          BY <2>4, <2>11
        <4> HIDE DEF k
        <4> QED
          BY <1>0, <4>1
      <3>1. Flow(d, e) = r
        BY <2>3, <2>8, <2>11, <3>0 DEF Flow, OnWay
      <3>2. last[k] = 0
        BY <2>11, <3>0 DEF RepliesOK
      <3>3. ASSUME r # <<>> PROVE r[Len(r)][2].conn < k
        <4>1. Len(r) \in 1 .. Len(r)
          BY <2>4, <3>3
        <4>2. r[Len(r)][2].conn \in Tags(r)
          BY <4>1 DEF Tags
        <4>3. r[Len(r)][2].conn \in 1 .. Len(c.nd.conns)
          BY <2>5, <2>9, <4>2 DEF Numbers
        <4> DEFINE v == r[Len(r)][2].conn
                   N == Len(c.nd.conns)
        <4>4. v \in 1 .. N /\ k > N /\ N \in Nat /\ k \in Nat
          BY <1>0, <2>11, <3>0, <4>3
        <4> HIDE DEF v, N, k
        <4>5. v < k
          BY <4>4
        <4> QED
          BY <4>5 DEF v
      <3>4. Tip(r, k, d.nd.conns[k], last)
        BY <2>11, <3>2, <3>3 DEF Tip
      <3> QED
        BY <2>3, <2>5, <2>6, <2>9, <2>11, <3>1, <3>4 DEF Numbers
    <2>12. CASE /\ k # 0 /\ k = c.ex[e].conn /\ d.nd.conns[k].stream = c.nd.conns[k].stream
                /\ d.nd.conns[k].sent = c.nd.conns[k].sent
                /\ d.nd.conns[k].open => c.nd.conns[k].open
      <3>1. Flow(d, e) = Flow(c, e)
        BY <2>3, <2>12 DEF Flow, OnWay
      <3>2. Tip(Flow(d, e), k, d.nd.conns[k], last)
        BY <2>5, <2>12, <3>1 DEF Tip
      <3> QED
        BY <2>3, <2>5, <2>6, <2>12, <3>1, <3>2 DEF Numbers
    <2> QED
      BY <2>1, <2>10, <2>11, <2>12 DEF Moved
<1>3. ASSUME NEW e \in DOMAIN c.ex, NEW f \in DOMAIN c.ex, f # e
      PROVE  Numbers(d, e) \cap Numbers(d, f) = {} /\ d.ex[f].conn \notin Numbers(d, e)
  <2>1. Numbers(c, e) \cap Numbers(c, f) = {} /\ c.ex[f].conn \notin Numbers(c, e)
    BY <1>3 DEF RepliesOK
  <2>2. Numbers(d, e) \subseteq Numbers(c, e) /\ Numbers(d, f) \subseteq Numbers(c, f)
        /\ Numbers(c, e) \subseteq 1 .. Len(c.nd.conns)
    BY <1>2
  <2>3. d.ex[f].conn \notin 1 .. Len(c.nd.conns) \/ d.ex[f].conn = c.ex[f].conn
    BY <1>0, <1>2
  <2> QED
    BY <2>1, <2>2, <2>3
<1>4. \A e \in DOMAIN c.ex : Numbers(d, e) \subseteq 1 .. Len(d.nd.conns)
  <2>1. 1 .. Len(c.nd.conns) \subseteq 1 .. Len(d.nd.conns)
    BY <1>0
  <2> QED
    BY <1>2, <2>1
<1> QED
  BY <1>0, <1>1, <1>2, <1>3, <1>4 DEF RepliesOK

\* Units in a row may be grouped either way.
LEMMA Regroup ==
  ASSUME NEW r \in Seq(Unit), NEW s \in Seq(Unit), NEW t \in Seq(Unit)
  PROVE  (r \o s) \o t = r \o (s \o t)
  BY ConcatAssociative, SMT

\* The reader in order: a chunk completes the first frame, or begins it.
LEMMA FedOrder ==
  ASSUME NEW x \in Executor, NEW units \in Seq(Unit), units # <<>>, NEW z \in Fed(x, units),
         x.missing \in {0, 1}, Len(x.m_last_command) = x.missing,
         x.missing = 0 => (Held(x) \o units)[1][1] = "head"
  PROVE  /\ z.missing \in {0, 1} /\ Len(z.m_last_command) = z.missing
         /\ \/ z.back = x.back /\ Held(z) = Held(x) \o units
            \/ Len(z.back) = 2 /\ z.back \o Held(z) = Held(x) \o units
<1> DEFINE all == x.m_internal_buffer \o units
           More(len) == IF x.missing > 0 THEN x.missing ELSE len
           Cutoff(len) == IF More(len) > Len(all) THEN Len(all) ELSE More(len)
           Cut(len) == [x EXCEPT !.m_last_command = @ \o SubSeq(all, 1, Cutoff(len)),
                                 !.m_internal_buffer = SubSeq(all, Cutoff(len) + 1, Len(all)),
                                 !.missing = More(len) - Cutoff(len)]
           Done(y) == [y EXCEPT !.back = IF y.missing = 0 THEN y.m_last_command ELSE x.back,
                                !.m_last_command = IF y.missing = 0 THEN <<>> ELSE @]
           last == x.m_last_command
<1>1. x.m_internal_buffer \in Seq(Unit) /\ last \in Seq(Unit) /\ x.back \in Seq(Unit)
  BY ExecutorForm
<1>2. all \in Seq(Unit) /\ Len(all) \in Nat \ {0} /\ all # <<>>
  <2>1. all \in Seq(Unit) /\ Len(all) = Len(x.m_internal_buffer) + Len(units)
    BY <1>1, ConcatProperties
  <2>2. Len(units) \in Nat \ {0} /\ Len(x.m_internal_buffer) \in Nat
    BY <1>1, EmptySeq, LenProperties
  <2> QED
    BY <2>1, <2>2
<1>3. Held(x) \o units = last \o all
  BY <1>1, Regroup, Zenon DEF Held
<1>4. x.missing = 0 => all[1][1] = "head"
  <2> SUFFICES ASSUME x.missing = 0 PROVE all[1][1] = "head"
    OBVIOUS
  <2>1. last = <<>>
    BY <1>1, EmptySeq
  <2>2. last \o all = all
    BY <1>2, <2>1, ConcatEmptySeq
  <2> QED
    BY <1>3, <2>2
<1>5. PICK len \in IF all[1][1] = "head" THEN {2} ELSE 2 .. 3 : z = Done(Cut(len))
  <2>1. Fed(x, units) = { Done(y) : y \in { Cut(len) : len \in IF all[1][1] = "head" THEN {2} ELSE 2 .. 3 } }
    BY <1>2, Zenon DEF Fed
  <2> HIDE DEF Done, Cut
  <2>2. PICK y \in { Cut(len) : len \in IF all[1][1] = "head" THEN {2} ELSE 2 .. 3 } : z = Done(y)
    BY <2>1
  <2>3. PICK len \in IF all[1][1] = "head" THEN {2} ELSE 2 .. 3 : y = Cut(len)
    BY <2>2
  <2> QED
    BY <2>2, <2>3
<1>6. len \in 2 .. 3 /\ (x.missing = 0 => len = 2)
  BY <1>4, <1>5
<1> DEFINE t == Cutoff(len)
           a == SubSeq(all, 1, t)
           rest == SubSeq(all, t + 1, Len(all))
           got == last \o a
           left == More(len) - t
           y == Cut(len)
<1> HIDE DEF all
<1>9. t \in 1 .. Len(all) /\ left \in {0, 1} /\ x.missing + t + left = 2
  <2>1. Len(all) \in Nat \ {0} /\ x.missing \in {0, 1}
    BY <1>2
  <2>2. CASE x.missing = 0
    BY <1>6, <2>1, <2>2
  <2>3. CASE x.missing = 1
    BY <2>1, <2>3
  <2> QED
    BY <2>1, <2>2, <2>3
<1>8. y = [x EXCEPT !.m_last_command = got, !.m_internal_buffer = rest, !.missing = left]
  BY DEF Executor
<1> HIDE DEF t, left, y, More, Cutoff
<1>10. a \in Seq(Unit) /\ Len(a) = t /\ rest \in Seq(Unit) /\ a \o rest = all
  <2>1. t \in Int /\ t + 1 \in Int /\ Len(all) \in Int /\ (\A i \in 1 .. t : all[i] \in Unit)
        /\ \A i \in t + 1 .. Len(all) : all[i] \in Unit
    BY <1>2, <1>9
  <2>2. a \in Seq(Unit) /\ Len(a) = t /\ rest \in Seq(Unit)
    BY <1>9, <2>1, SubSeqProperties
  <2>3. 1 \in 1 .. Len(all) + 1 /\ t \in 1 - 1 .. Len(all) /\ Len(all) \in t .. Len(all)
    BY <1>2, <1>9
  <2>4. a \o rest = SubSeq(all, 1, Len(all))
    BY <1>2, <2>3, ConcatAdjacentSubSeq
  <2> QED
    BY <1>2, <2>2, <2>4, SubSeqFull
<1> HIDE DEF a, rest
<1>11. got \in Seq(Unit) /\ Len(got) = x.missing + t /\ got \o rest = Held(x) \o units
  <2>1. got \in Seq(Unit) /\ Len(got) = Len(last) + Len(a)
    BY <1>1, <1>10, ConcatProperties
  <2>2. got \o rest = last \o (a \o rest)
    BY <1>1, <1>10, Regroup, ZenonT(60)
  <2> QED
    BY <1>3, <1>10, <2>1, <2>2
<1> HIDE DEF got
<1>12. y \in Executor /\ y.m_last_command = got /\ y.m_internal_buffer = rest /\ y.missing = left /\ y.back = x.back
  <2>1. left \in 0 .. 2
    BY <1>9
  <2> QED
    BY <2>1, <1>8, <1>10, <1>11 DEF Executor
<1> DEFINE b == IF left = 0 THEN got ELSE x.back
           l == IF left = 0 THEN <<>> ELSE got
<1>13. z = [y EXCEPT !.back = b, !.m_last_command = l]
  BY <1>5, <1>12 DEF y, Executor
<1> HIDE DEF b, l, Done, Cut
<1>14. z.back = b /\ z.m_last_command = l /\ z.m_internal_buffer = rest /\ z.missing = left
  BY <1>12, <1>13 DEF Executor
<1>15. CASE left = 0
  <2>1. b = got /\ l = <<>> /\ Len(got) = 2
    BY <1>9, <1>11, <1>15 DEF b, l
  <2>2. Held(z) = rest
    BY <1>10, <1>14, <2>1, ConcatEmptySeq DEF Held
  <2>3. Len(z.back) = 2 /\ z.back \o Held(z) = Held(x) \o units
    BY <1>11, <1>14, <2>1, <2>2, Zenon
  <2>4. z.missing = 0 /\ Len(z.m_last_command) = 0
    BY <1>14, <1>15, <2>1
  <2> QED
    BY <2>3, <2>4
<1>16. CASE left = 1
  <2>1. b = x.back /\ l = got /\ Len(got) = 1
    BY <1>1, <1>9, <1>11, <1>16 DEF b, l
  <2> QED
    BY <1>9, <1>11, <1>14, <1>16, <2>1 DEF Held
<1> QED
  BY <1>9, <1>15, <1>16

\* The client after a chunk: one executor and the stream of its connection differ.
Read(c, e, n, x) ==
  [c EXCEPT !.ex[e] = x, !.nd.conns[c.ex[e].conn].stream = SubSeq(@, n + 1, Len(@))]
Reads(c, e, n, x) ==
  /\ c \in Clients /\ OwnConns(c) /\ e \in DOMAIN c.ex /\ c.ex[e].conn # 0
  /\ n \in 1 .. 3 /\ n <= Len(c.nd.conns[c.ex[e].conn].stream)
  /\ x \in Fed(c.ex[e], SubSeq(c.nd.conns[c.ex[e].conn].stream, 1, n))

\* What differs.
ReadTo(c, d, e, n, x) ==
  LET k == c.ex[e].conn
      g == c.nd.conns[k]
  IN  /\ d \in Clients /\ OwnConns(d) /\ DOMAIN d.ex = DOMAIN c.ex
      /\ d.ex[e] = x /\ x \in Executor /\ x.conn = k
      /\ \A f \in DOMAIN c.ex : f # e => d.ex[f] = c.ex[f]
      /\ Len(d.nd.conns) = Len(c.nd.conns) /\ k \in 1 .. Len(c.nd.conns)
      /\ \A j \in 1 .. Len(c.nd.conns) : j # k => d.nd.conns[j] = c.nd.conns[j]
      /\ d.nd.conns[k].stream = SubSeq(g.stream, n + 1, Len(g.stream))
      /\ d.nd.conns[k].open = g.open /\ d.nd.conns[k].sent = g.sent
      /\ g \in Conn /\ g.stream \in Seq(Unit)
LEMMA ReadForm ==
  ASSUME NEW c, NEW e, NEW n, NEW x, Reads(c, e, n, x)
  PROVE  ReadTo(c, Read(c, e, n, x), e, n, x)
<1> DEFINE k == c.ex[e].conn
           g == c.nd.conns[k]
           rest == SubSeq(g.stream, n + 1, Len(g.stream))
           h == [g EXCEPT !.stream = rest]
           d == Read(c, e, n, x)
<1>0. c \in Clients /\ OwnConns(c) /\ e \in DOMAIN c.ex /\ k # 0 /\ n \in 1 .. 3 /\ n <= Len(g.stream)
      /\ x \in Fed(c.ex[e], SubSeq(g.stream, 1, n))
  BY DEF Reads
<1>1. Shrinks(c, d) /\ d.ex[e] = x /\ x \in Executor
  BY <1>0, Received DEF Read
<1>2. d \in Clients /\ OwnConns(d) /\ DOMAIN d.ex = DOMAIN c.ex
  BY <1>1 DEF Shrinks
<1>3. c.ex[e] \in Executor /\ c.nd.conns \in Seq(Conn) /\ c.ex \in Seq(Executor) /\ c.nd \in Node
  BY <1>0, ClientForm
<1>4. k \in 1 .. Len(c.nd.conns) /\ g \in Conn
  <2>1. k <= Len(c.nd.conns) /\ k \in Nat
    BY <1>0, <1>3, ExecutorForm DEF OwnConns
  <2> QED
    BY <1>0, <1>3, <2>1
<1>5. g.stream \in Seq(Unit) /\ n \in Nat \ {0} /\ n <= Len(g.stream)
  BY <1>0, <1>4 DEF Conn
<1>6. d.ex = [c.ex EXCEPT ![e] = x]
  BY <1>0 DEF Clients, Read
<1>7. d.nd.conns = [c.nd.conns EXCEPT ![k] = h]
  BY <1>0, <1>3, <1>4 DEF Clients, Node, Read
<1> HIDE DEF d
<1>8. h.stream = rest /\ h.open = g.open /\ h.sent = g.sent
  BY <1>4 DEF Conn
<1> HIDE DEF h, rest
<1>9. /\ Len(d.nd.conns) = Len(c.nd.conns) /\ d.nd.conns[k] = h
      /\ \A j \in 1 .. Len(c.nd.conns) : j # k => d.nd.conns[j] = c.nd.conns[j]
  BY <1>3, <1>4, <1>7
<1>10. \A f \in DOMAIN c.ex : f # e => d.ex[f] = c.ex[f]
  BY <1>3, <1>6
<1>11. x.conn = k
  <2> DEFINE units == SubSeq(g.stream, 1, n)
  <2>1. units \in Seq(Unit)
    BY <1>5, RangeOfSubSeq
  <2> HIDE DEF units
  <2> QED
    BY <1>0, <1>3, <2>1, FedForm DEF units
<1> QED
  BY <1>1, <1>2, <1>4, <1>5, <1>8, <1>9, <1>10, <1>11 DEF d, rest, ReadTo

\* No executor and no connection is made.
LEMMA ReadSize ==
  ASSUME NEW c, NEW e, NEW n, NEW x, Reads(c, e, n, x)
  PROVE  DOMAIN Read(c, e, n, x).ex = DOMAIN c.ex /\ Len(Read(c, e, n, x).nd.conns) = Len(c.nd.conns)
<1>1. ReadTo(c, Read(c, e, n, x), e, n, x)
  BY ReadForm
<1> QED
  BY <1>1 DEF ReadTo

\* The numbers that count for s.
LEMMA SameLast ==
  ASSUME NEW s \in Seq(Unit), NEW last, NEW more, InOrder(s, last), \A k \in Tags(s) : more[k] = last[k]
  PROVE  InOrder(s, more)
<1>1. \A i \in 1 .. Len(s) : more[s[i][2].conn] = last[s[i][2].conn]
  BY DEF Tags
<1>2. s # <<>> => 1 \in 1 .. Len(s)
  OBVIOUS
<1>3. s # <<>> => s[1][1] = "head" /\ s[1][2].nr = more[s[1][2].conn] + 1
  BY <1>1, <1>2 DEF InOrder
<1>4. \A i \in 1 .. Len(s) : s[i][2].conn > s[1][2].conn => more[s[i][2].conn] = 0
  BY <1>1 DEF InOrder
<1> QED
  BY <1>3, <1>4 DEF InOrder

\* A chunk moves units from the stream to the reader, and may complete the first frame.
LEMMA ReadFlow ==
  ASSUME NEW c, NEW e, NEW n, NEW x, Reads(c, e, n, x), NEW last, RepliesOK(c, last)
  PROVE  LET d == Read(c, e, n, x)
         IN  /\ x.missing \in {0, 1} /\ Len(x.m_last_command) = x.missing
             /\ \/ x.back = c.ex[e].back /\ Flow(d, e) = Flow(c, e)
                \/ Len(x.back) = 2 /\ Flow(c, e) = x.back \o Flow(d, e)
<1> DEFINE d == Read(c, e, n, x)
           k == c.ex[e].conn
           y == c.ex[e]
           s == c.nd.conns[k].stream
           units == SubSeq(s, 1, n)
           rest == SubSeq(s, n + 1, Len(s))
           r == Held(y)
<1>1. c \in Clients /\ OwnConns(c) /\ e \in DOMAIN c.ex /\ k # 0 /\ n \in 1 .. 3 /\ n <= Len(s) /\ x \in Fed(y, units)
  BY DEF Reads
<1>2. /\ d.ex[e] = x /\ x \in Executor /\ x.conn = k /\ d.nd.conns[k].stream = rest /\ s \in Seq(Unit)
      /\ y \in Executor /\ r \in Seq(Unit) /\ Flow(c, e) = r \o s
  <2>0. ReadTo(c, d, e, n, x)
    BY ReadForm
  <2>1. /\ d.ex[e] = x /\ x \in Executor /\ x.conn = k /\ d.nd.conns[k].stream = rest /\ s \in Seq(Unit)
    BY <2>0 DEF ReadTo
  <2>2. y \in Executor
    BY <1>1, ClientForm
  <2>3. r \in Seq(Unit) /\ Flow(c, e) = r \o s
    BY <1>1, FlowForm DEF Flow, OnWay
  <2> QED
    BY <2>1, <2>2, <2>3
<1>3. Flow(d, e) = Held(x) \o rest
  BY <1>1, <1>2 DEF Flow, OnWay
<1>4. ReaderOK(y, last) /\ InOrder(Flow(c, e), last)
  BY <1>1 DEF RepliesOK
<1>5. x.back \in Seq(Unit) /\ Held(x) \in Seq(Unit)
  <2>1. x.m_last_command \in Seq(Unit) /\ x.m_internal_buffer \in Seq(Unit) /\ x.back \in Seq(Unit)
    BY <1>2, ExecutorForm
  <2> QED
    BY <2>1, ConcatProperties DEF Held
<1> HIDE DEF d, k, y, s
<1>6. units \in Seq(Unit) /\ Len(units) = n /\ rest \in Seq(Unit) /\ units \o rest = s
  <2>1. n \in Int /\ n + 1 \in Int /\ Len(s) \in Int /\ (\A i \in 1 .. n : s[i] \in Unit)
        /\ \A i \in n + 1 .. Len(s) : s[i] \in Unit
    BY <1>1, <1>2
  <2>2. units \in Seq(Unit) /\ Len(units) = n /\ rest \in Seq(Unit)
    BY <1>1, <2>1, SubSeqProperties
  <2>3. 1 \in 1 .. Len(s) + 1 /\ n \in 1 - 1 .. Len(s) /\ Len(s) \in n .. Len(s)
    BY <1>1, <1>2
  <2>4. units \o rest = SubSeq(s, 1, Len(s))
    BY <1>2, <2>3, ConcatAdjacentSubSeq
  <2> QED
    BY <1>2, <2>2, <2>4, SubSeqFull
<1> HIDE DEF units, rest, r
<1>7. Flow(c, e) = (r \o units) \o rest /\ r \o units \in Seq(Unit) /\ Len(r \o units) \in Nat \ {0}
  <2>0. r \in Seq(Unit) /\ units \in Seq(Unit) /\ rest \in Seq(Unit)
    BY <1>2, <1>6
  <2>1. (r \o units) \o rest = r \o (units \o rest)
    BY <2>0, Regroup, Zenon
  <2>2. r \o units \in Seq(Unit) /\ Len(r \o units) = Len(r) + Len(units)
    BY <2>0, ConcatProperties
  <2> QED
    BY <1>1, <1>2, <1>6, <2>1, <2>2
<1>8. (r \o units)[1][1] = "head"
  <2> DEFINE w == r \o units
  <2> HIDE DEF w
  <2>1. w \in Seq(Unit) /\ Len(w) \in Nat \ {0} /\ Flow(c, e) = w \o rest
    BY <1>7 DEF w
  <2>2. (w \o rest)[1] = w[1] /\ w \o rest # <<>>
    BY <1>6, <2>1
  <2>3. (w \o rest)[1][1] = "head"
    BY <1>4, <2>1, <2>2 DEF InOrder
  <2> QED
    BY <2>2, <2>3 DEF w
<1>9. units # <<>>
  BY <1>1, <1>6
<1>10. /\ x.missing \in {0, 1} /\ Len(x.m_last_command) = x.missing
       /\ \/ x.back = y.back /\ Held(x) = r \o units
          \/ Len(x.back) = 2 /\ x.back \o Held(x) = r \o units
  <2>1. y.missing \in {0, 1} /\ Len(y.m_last_command) = y.missing
    BY <1>4 DEF ReaderOK
  <2>2. y \in Executor /\ units \in Seq(Unit) /\ units # <<>> /\ x \in Fed(y, units)
    BY <1>1, <1>2, <1>6, <1>9
  <2>3. y.missing = 0 => (Held(y) \o units)[1][1] = "head"
    BY <1>8 DEF r
  <2> QED
    BY <2>1, <2>2, <2>3, FedOrder, ZenonT(60) DEF r
<1>11. CASE x.back = y.back /\ Held(x) = r \o units
  BY <1>3, <1>7, <1>10, <1>11 DEF d, y
<1>12. CASE Len(x.back) = 2 /\ x.back \o Held(x) = r \o units
  <2>1. (x.back \o Held(x)) \o rest = x.back \o (Held(x) \o rest)
    BY <1>5, <1>6, Regroup, Zenon
  <2>2. Flow(c, e) = x.back \o Flow(d, e)
    BY <1>3, <1>7, <1>12, <2>1, Zenon
  <2> QED
    BY <1>10, <1>12, <2>2 DEF d
<1> QED
  BY <1>10, <1>11, <1>12

\* The other executors are as they were.
LEMMA ReadOthers ==
  ASSUME NEW c, NEW e, NEW n, NEW x, Reads(c, e, n, x), NEW f \in DOMAIN c.ex, f # e
  PROVE  LET d == Read(c, e, n, x)
         IN  /\ d.ex[f] = c.ex[f] /\ Flow(d, f) = Flow(c, f) /\ Numbers(d, f) = Numbers(c, f)
             /\ c.ex[f].conn # 0 => d.nd.conns[c.ex[f].conn] = c.nd.conns[c.ex[f].conn]
<1> DEFINE d == Read(c, e, n, x)
<1>0. ReadTo(c, d, e, n, x)
  BY ReadForm
<1>1. /\ d.ex[f] = c.ex[f]
      /\ \A j \in 1 .. Len(c.nd.conns) : j # c.ex[e].conn => d.nd.conns[j] = c.nd.conns[j]
  BY <1>0 DEF ReadTo
<1>2. c \in Clients /\ OwnConns(c) /\ e \in DOMAIN c.ex
  BY DEF Reads
<1>3. c.ex[f].conn # 0 => c.ex[f].conn \in 1 .. Len(c.nd.conns) /\ c.ex[f].conn # c.ex[e].conn
  <2>1. c.ex[f].conn \in 0 .. Len(c.nd.conns) /\ Len(c.nd.conns) \in Nat
    BY <1>2, FlowForm
  <2>2. c.ex[f].conn # 0 => c.ex[f].conn # c.ex[e].conn
    BY <1>2 DEF OwnConns
  <2> QED
    BY <2>1, <2>2
<1>4. c.ex[f].conn # 0 => d.nd.conns[c.ex[f].conn] = c.nd.conns[c.ex[f].conn]
  BY <1>1, <1>3
<1> HIDE DEF d
<1>5. Flow(d, f) = Flow(c, f)
  BY <1>1, <1>4 DEF Flow, OnWay
<1> QED
  BY <1>1, <1>4, <1>5 DEF Numbers, d

\* A chunk that completes no frame.
LEMMA ReadSame ==
  ASSUME NEW c, NEW e, NEW n, NEW x, Reads(c, e, n, x), NEW last, RepliesOK(c, last),
         x.missing \in {0, 1}, Len(x.m_last_command) = x.missing,
         x.back = c.ex[e].back, Flow(Read(c, e, n, x), e) = Flow(c, e)
  PROVE  RepliesOK(Read(c, e, n, x), last)
<1> DEFINE d == Read(c, e, n, x)
           k == c.ex[e].conn
<1>1. /\ DOMAIN d.ex = DOMAIN c.ex /\ d.ex[e] = x /\ x.conn = k /\ Len(d.nd.conns) = Len(c.nd.conns)
      /\ d.nd.conns[k].open = c.nd.conns[k].open /\ d.nd.conns[k].sent = c.nd.conns[k].sent
  <2>0. ReadTo(c, d, e, n, x)
    BY ReadForm
  <2>1. DOMAIN d.ex = DOMAIN c.ex /\ d.ex[e] = x /\ x.conn = k
    BY <2>0 DEF ReadTo
  <2>2. Len(d.nd.conns) = Len(c.nd.conns)
    BY <2>0 DEF ReadTo
  <2>3. d.nd.conns[k].open = c.nd.conns[k].open /\ d.nd.conns[k].sent = c.nd.conns[k].sent
    BY <2>0 DEF ReadTo
  <2> QED
    BY <2>1, <2>2, <2>3
<1>2. \A f \in DOMAIN c.ex : f # e =>
        /\ d.ex[f] = c.ex[f] /\ Flow(d, f) = Flow(c, f) /\ Numbers(d, f) = Numbers(c, f)
        /\ c.ex[f].conn # 0 => d.nd.conns[c.ex[f].conn] = c.nd.conns[c.ex[f].conn]
  BY ReadOthers
<1>3. e \in DOMAIN c.ex /\ Flow(d, e) = Flow(c, e)
  BY DEF Reads
<1> HIDE DEF d
<1>4. Numbers(d, e) = Numbers(c, e)
  BY <1>1, <1>3 DEF Numbers
<1>5. \A f \in DOMAIN c.ex : d.ex[f].conn = c.ex[f].conn /\ Numbers(d, f) = Numbers(c, f)
  BY <1>1, <1>2, <1>4
<1>6. ASSUME NEW f \in DOMAIN c.ex
      PROVE  /\ ReaderOK(d.ex[f], last) /\ InOrder(Flow(d, f), last)
             /\ d.ex[f].conn # 0 => Tip(Flow(d, f), d.ex[f].conn, d.nd.conns[d.ex[f].conn], last)
  <2>1. /\ ReaderOK(c.ex[f], last) /\ InOrder(Flow(c, f), last)
        /\ c.ex[f].conn # 0 => Tip(Flow(c, f), c.ex[f].conn, c.nd.conns[c.ex[f].conn], last)
    BY DEF RepliesOK
  <2>2. CASE f = e
    <3>1. ReaderOK(x, last)
      BY <2>1, <2>2 DEF ReaderOK
    <3>2. k # 0 => Tip(Flow(d, e), k, d.nd.conns[k], last)
      BY <1>1, <1>3, <2>1, <2>2 DEF Tip
    <3> QED
      BY <1>1, <1>3, <2>1, <2>2, <3>1, <3>2
  <2>3. CASE f # e
    BY <1>2, <2>1, <2>3
  <2> QED
    BY <2>2, <2>3
<1> HIDE DEF k
<1>7. RepliesOK(d, last)
  BY <1>1, <1>5, <1>6 DEF RepliesOK
<1> QED
  BY <1>7 DEF d

\* The answer after the frames that are left.
LEMMA FrameTip ==
  ASSUME NEW s \in Seq(Unit), NEW t \in Seq(Unit), NEW last \in [1 .. MaxConn -> Nat], NEW more,
         NEW k \in 1 .. MaxConn, NEW g, NEW h, InOrder(s, last), Tip(s, k, g, last),
         h.open = g.open, h.sent = g.sent,
         Len(s) = Len(t) + 2, \A i \in 1 .. Len(t) : t[i] = s[i + 2],
         s[2] = <<"tail", s[1][2]>>, s[1][2].conn \in 1 .. MaxConn,
         more = [last EXCEPT ![s[1][2].conn] = s[1][2].nr]
  PROVE  Tip(t, k, h, more)
<1> DEFINE L == Len(s)
           m == s[1][2]
<1> SUFFICES ASSUME g.open PROVE Tip(t, k, h, more)
  BY DEF Tip
<1>1. L \in Nat /\ L >= 2 /\ Len(t) \in Nat /\ L = Len(t) + 2 /\ s # <<>> /\ MaxConn \in Nat
  BY GuiConstants
<1>2. m.conn \in 1 .. MaxConn /\ s[L][2].conn \in Nat /\ m.conn <= s[L][2].conn
  <2>1. 1 \in 1 .. L /\ L \in 1 .. L /\ 1 <= L
    BY <1>1
  <2>2. s[L] \in Unit
    BY <2>1
  <2>3. s[L][2].conn \in Nat
    BY <2>2, UnitForm
  <2>4. m.conn <= s[L][2].conn
    BY <2>1 DEF InOrder
  <2> QED
    BY <2>3, <2>4
<1>3. t # <<>> => t[Len(t)] = s[L]
  <2> SUFFICES ASSUME t # <<>> PROVE t[Len(t)] = s[L]
    OBVIOUS
  <2>1. Len(t) \in 1 .. Len(t)
    BY <1>1
  <2> QED
    BY <1>1, <2>1
<1>4. t = <<>> => L = 2 /\ s[L] = <<"tail", m>>
  BY <1>1
<1>5. more[m.conn] = m.nr /\ \A j \in 1 .. MaxConn : j # m.conn => more[j] = last[j]
  BY <1>2
<1>6. CASE s[L][1] = "tail" /\ s[L][2].conn = k /\ s[L][2].nr = g.sent
  <2>1. CASE t = <<>>
    <3>1. s[L][2] = m
      BY <1>4, <2>1
    <3>2. more[k] = g.sent
      BY <1>5, <1>6, <3>1
    <3> QED
      BY <2>1, <3>2 DEF Tip
  <2>2. CASE t # <<>>
    BY <1>3, <1>6, <2>2 DEF Tip
  <2> QED
    BY <2>1, <2>2
<1>7. CASE s[L][2].conn < k /\ g.sent = 0 /\ last[k] = 0
  <2>1. m.conn # k
    BY <1>2, <1>7
  <2>2. more[k] = 0
    BY <1>5, <1>7, <2>1
  <2> QED
    BY <1>3, <1>7, <2>2 DEF Tip
<1>8. \/ s[L][1] = "tail" /\ s[L][2].conn = k /\ s[L][2].nr = g.sent
      \/ s[L][2].conn < k /\ g.sent = 0 /\ last[k] = 0
  BY <1>1 DEF Tip
<1> QED
  BY <1>6, <1>7, <1>8

\* Two sequences in a row.
LEMMA ConcatForm ==
  ASSUME NEW S, NEW b \in Seq(S), NEW t \in Seq(S)
  PROVE  /\ Len(b \o t) = Len(t) + Len(b) /\ Len(b) \in Nat /\ Len(t) \in Nat
         /\ \A i \in 1 .. Len(t) : (b \o t)[i + Len(b)] = t[i]
         /\ \A i \in 1 .. Len(b) : (b \o t)[i] = b[i]
  OBVIOUS

\* A frame and what comes after it.
LEMMA FrameThen ==
  ASSUME NEW b \in Seq(Unit), NEW t \in Seq(Unit), Len(b) = 2
  PROVE  /\ Len(b \o t) = Len(t) + 2 /\ (\A i \in 1 .. Len(t) : t[i] = (b \o t)[i + 2])
         /\ (b \o t)[1] = b[1] /\ (b \o t)[2] = b[2]
<1> DEFINE s == b \o t
           N == Len(b)
<1>1. /\ Len(s) = Len(t) + N /\ N \in Nat /\ Len(t) \in Nat
      /\ (\A i \in 1 .. Len(t) : s[i + N] = t[i])
      /\ (\A i \in 1 .. N : s[i] = b[i])
  BY ConcatForm, Zenon
<1> HIDE DEF s
<1>2. 1 \in 1 .. 2 /\ 2 \in 1 .. 2
  OBVIOUS
<1> QED
  BY <1>1, <1>2, Zenon DEF s

\* The order after the first frame.
LEMMA AfterFrameOrder ==
  ASSUME NEW s \in Seq(Unit), NEW t \in Seq(Unit), NEW last \in [1 .. MaxConn -> Nat],
         NEW k \in 1 .. MaxConn, NEW g, NEW h, h.open = g.open, h.sent = g.sent,
         InOrder(s, last), Tags(s) \subseteq 1 .. MaxConn, Tip(s, k, g, last), AfterFrame(s, t)
  PROVE  LET m == s[1][2]
         IN  /\ InOrder(t, Executes(last, m)) /\ Tip(t, k, h, Executes(last, m)) /\ Tags(t) \subseteq Tags(s)
             /\ m.nr = last[m.conn] + 1 /\ m.conn \in 1 .. MaxConn /\ m.conn \in Tags(s)
<1> DEFINE more == Executes(last, s[1][2])
<1> HIDE DEF more
<1>3. /\ InOrder(t, more) /\ Tags(t) \subseteq Tags(s)
      /\ s[1][1] = "head" /\ s[1][2].nr = last[s[1][2].conn] + 1
      /\ s[1][2].conn \in 1 .. MaxConn /\ s[1][2].conn \in Tags(s)
  BY FrameInOrder DEF more
<1>4. Tip(t, k, h, more)
  <2>1. more = [last EXCEPT ![s[1][2].conn] = s[1][2].nr]
    BY DEF Executes, more
  <2>2. Len(s) = Len(t) + 2 /\ (\A i \in 1 .. Len(t) : t[i] = s[i + 2]) /\ s[2] = <<"tail", s[1][2]>>
    BY DEF AfterFrame
  <2> QED
    BY <1>3, <2>1, <2>2, FrameTip
<1> QED
  BY <1>3, <1>4 DEF more

\* The first frame of executor e is complete.
Completes(c, d, e) == Len(d.ex[e].back) = 2 /\ Flow(c, e) = d.ex[e].back \o Flow(d, e)

\* A chunk that completes a reply: it is the next one of its connection.
LEMMA ReadFrame ==
  ASSUME NEW c, NEW e, NEW n, NEW x, Reads(c, e, n, x), NEW last \in [1 .. MaxConn -> Nat],
         RepliesOK(c, last), Len(c.nd.conns) <= MaxConn,
         x.missing \in {0, 1}, Len(x.m_last_command) = x.missing,
         Completes(c, Read(c, e, n, x), e), check_auth(x.back)
  PROVE  LET m == x.back[1][2]
         IN  /\ m.conn \in 1 .. MaxConn /\ m.nr = last[m.conn] + 1
             /\ RepliesOK(Read(c, e, n, x), Executes(last, m))
<1> DEFINE d == Read(c, e, n, x)
           k == c.ex[e].conn
           m == x.back[1][2]
           s == Flow(c, e)
           t == Flow(d, e)
           more == Executes(last, m)
<1>0. c \in Clients /\ OwnConns(c) /\ e \in DOMAIN c.ex /\ k # 0 /\ MaxConn \in Nat
  BY GuiConstants DEF Reads
<1>1. /\ DOMAIN d.ex = DOMAIN c.ex /\ d.ex[e] = x /\ x.conn = k /\ Len(d.nd.conns) = Len(c.nd.conns)
      /\ d.nd.conns[k].open = c.nd.conns[k].open /\ d.nd.conns[k].sent = c.nd.conns[k].sent
      /\ d \in Clients /\ OwnConns(d) /\ x \in Executor /\ k \in 1 .. Len(c.nd.conns)
  <2>0. ReadTo(c, d, e, n, x)
    BY ReadForm
  <2>1. DOMAIN d.ex = DOMAIN c.ex /\ d.ex[e] = x /\ x.conn = k /\ d \in Clients /\ OwnConns(d) /\ x \in Executor
    BY <2>0 DEF ReadTo
  <2>2. Len(d.nd.conns) = Len(c.nd.conns) /\ k \in 1 .. Len(c.nd.conns)
    BY <2>0 DEF ReadTo
  <2>3. d.nd.conns[k].open = c.nd.conns[k].open /\ d.nd.conns[k].sent = c.nd.conns[k].sent
    BY <2>0 DEF ReadTo
  <2> QED
    BY <2>1, <2>2, <2>3
<1>2. \A f \in DOMAIN c.ex : f # e =>
        /\ d.ex[f] = c.ex[f] /\ Flow(d, f) = Flow(c, f) /\ Numbers(d, f) = Numbers(c, f)
        /\ c.ex[f].conn # 0 => d.nd.conns[c.ex[f].conn] = c.nd.conns[c.ex[f].conn]
  BY ReadOthers
<1> HIDE DEF d
<1>3. s \in Seq(Unit) /\ t \in Seq(Unit) /\ x.back \in Seq(Unit) /\ Len(c.nd.conns) \in Nat
  BY <1>0, <1>1, FlowForm
<1>4. s = x.back \o t /\ Len(x.back) = 2
  BY <1>1 DEF d, Completes
<1>5. /\ InOrder(s, last) /\ Numbers(c, e) \subseteq 1 .. Len(c.nd.conns)
      /\ Tip(s, k, c.nd.conns[k], last)
  BY <1>0 DEF RepliesOK
<1> HIDE DEF s, t
<1>6. /\ Len(s) = Len(t) + 2 /\ (\A i \in 1 .. Len(t) : t[i] = s[i + 2])
      /\ s[1] = x.back[1] /\ s[2] = x.back[2]
  <2> DEFINE b == x.back
  <2> HIDE DEF b
  <2>1. b \in Seq(Unit) /\ t \in Seq(Unit) /\ Len(b) = 2
    BY <1>3, <1>4 DEF b
  <2>2. s = b \o t
    BY <1>4 DEF b
  <2>3. /\ Len(b \o t) = Len(t) + 2 /\ (\A i \in 1 .. Len(t) : t[i] = (b \o t)[i + 2])
        /\ (b \o t)[1] = b[1] /\ (b \o t)[2] = b[2]
    BY <2>1, FrameThen, Zenon
  <2> QED
    BY <2>2, <2>3, Zenon DEF b
<1>7. s[2] = <<"tail", s[1][2]>> /\ m = s[1][2]
  BY <1>6 DEF check_auth
<1> HIDE DEF m
<1>8. Tags(s) \subseteq 1 .. Len(c.nd.conns) /\ Tags(s) \subseteq 1 .. MaxConn /\ Tags(s) \subseteq Numbers(c, e)
  <2>1. Tags(s) \subseteq Numbers(c, e)
    BY DEF Numbers, s
  <2>2. 1 .. Len(c.nd.conns) \subseteq 1 .. MaxConn
    BY <1>0, <1>3
  <2> QED
    BY <1>5, <2>1, <2>2
<1> HIDE DEF more
<1>10. /\ InOrder(t, more) /\ Tags(t) \subseteq Tags(s) /\ m.nr = last[m.conn] + 1
       /\ m.conn \in 1 .. MaxConn /\ m.conn \in Tags(s) /\ Tip(t, k, d.nd.conns[k], more)
  <2> DEFINE g == c.nd.conns[k]
             h == d.nd.conns[k]
             q == s[1][2]
  <2>1. AfterFrame(s, t)
    BY <1>6, <1>7 DEF AfterFrame
  <2>2. k \in 1 .. MaxConn
    BY <1>0, <1>1, <1>3
  <2>3. h.open = g.open /\ h.sent = g.sent /\ InOrder(s, last) /\ Tip(s, k, g, last)
        /\ Tags(s) \subseteq 1 .. MaxConn /\ s \in Seq(Unit) /\ t \in Seq(Unit)
    BY <1>1, <1>3, <1>5, <1>8
  <2> HIDE DEF g, h, k
  <2>4. /\ InOrder(t, Executes(last, q)) /\ Tip(t, k, h, Executes(last, q)) /\ Tags(t) \subseteq Tags(s)
        /\ q.nr = last[q.conn] + 1 /\ q.conn \in 1 .. MaxConn /\ q.conn \in Tags(s)
    BY <2>1, <2>2, <2>3, AfterFrameOrder
  <2> QED
    BY <1>7, <2>4 DEF more, h
<1>11. more[m.conn] = m.nr /\ \A j \in 1 .. MaxConn : j # m.conn => more[j] = last[j]
  BY <1>10 DEF more, Executes
<1>12. ReaderOK(x, more)
  BY <1>11 DEF ReaderOK, m
<1>14. Numbers(d, e) \subseteq Numbers(c, e)
  <2>1. Tags(x.back) \subseteq Tags(s)
    <3>1. \A i \in 1 .. Len(x.back) : i \in 1 .. Len(s) /\ x.back[i] = s[i]
      <4>1. Len(s) >= 2 /\ Len(s) \in Nat
        BY <1>3, <1>6
      <4>2. \A i \in 1 .. 2 : (i = 1 \/ i = 2) /\ i \in 1 .. Len(s)
        BY <4>1
      <4> QED
        BY <1>4, <1>6, <4>2
    <3> QED
      BY <3>1 DEF Tags
  <2> QED
    BY <1>1, <1>8, <1>10, <2>1 DEF Numbers, t
<1>15. ASSUME NEW f \in DOMAIN c.ex
       PROVE  /\ ReaderOK(d.ex[f], more) /\ InOrder(Flow(d, f), more)
              /\ d.ex[f].conn # 0 => Tip(Flow(d, f), d.ex[f].conn, d.nd.conns[d.ex[f].conn], more)
  <2>1. CASE f = e
    BY <1>1, <1>10, <1>12, <2>1 DEF t
  <2>2. CASE f # e
    <3>1. /\ ReaderOK(c.ex[f], last) /\ InOrder(Flow(c, f), last) /\ Numbers(c, f) \subseteq 1 .. Len(c.nd.conns)
          /\ c.ex[f].conn # 0 => Tip(Flow(c, f), c.ex[f].conn, c.nd.conns[c.ex[f].conn], last)
          /\ Numbers(c, e) \cap Numbers(c, f) = {} /\ c.ex[f].conn \notin Numbers(c, e)
      BY <1>0, <2>2 DEF RepliesOK
    <3>2. m.conn \notin Numbers(c, f) /\ c.ex[f].conn # m.conn
      BY <1>8, <1>10, <3>1
    <3>3. \A j \in Numbers(c, f) : more[j] = last[j]
      <4>1. Numbers(c, f) \subseteq 1 .. MaxConn
        BY <1>0, <1>3, <3>1
      <4> QED
        BY <1>11, <3>2, <4>1
    <3>4. Flow(c, f) \in Seq(Unit) /\ c.ex[f].back \in Seq(Unit) /\ c.ex[f].conn \in 0 .. Len(c.nd.conns)
      BY <1>0, FlowForm
    <3>5. InOrder(Flow(c, f), more)
      <4>1. \A j \in Tags(Flow(c, f)) : more[j] = last[j]
        BY <3>3 DEF Numbers
      <4> QED
        BY <3>1, <3>4, <4>1, SameLast
    <3>6. ReaderOK(c.ex[f], more)
      <4> DEFINE b == c.ex[f].back
      <4>0. b \in Seq(Unit)
        BY <3>4
      <4> HIDE DEF b
      <4>1. b # <<>> => b[1][2].conn \in Tags(b)
        BY <4>0 DEF Tags
      <4>2. b # <<>> => more[b[1][2].conn] = last[b[1][2].conn]
        BY <3>3, <4>1 DEF Numbers, b
      <4> QED
        BY <3>1, <4>2 DEF ReaderOK, b
    <3>7. c.ex[f].conn # 0 => Tip(Flow(c, f), c.ex[f].conn, c.nd.conns[c.ex[f].conn], more)
      <4>1. c.ex[f].conn # 0 => more[c.ex[f].conn] = last[c.ex[f].conn]
        <5>1. c.ex[f].conn # 0 => c.ex[f].conn \in 1 .. MaxConn
          <6> DEFINE j == c.ex[f].conn
                     N == Len(c.nd.conns)
          <6>1. j \in 0 .. N /\ N \in Nat /\ N <= MaxConn /\ MaxConn \in Nat
            BY <1>0, <1>3, <3>4
          <6> HIDE DEF j, N
          <6>2. j # 0 => j \in 1 .. MaxConn
            BY <6>1
          <6> QED
            BY <6>2 DEF j
        <5> QED
          BY <1>11, <3>2, <5>1
      <4> QED
        BY <3>1, <4>1 DEF Tip
    <3> QED
      BY <1>2, <2>2, <3>5, <3>6, <3>7
  <2> QED
    BY <2>1, <2>2
<1>16. \A f \in DOMAIN c.ex : Numbers(d, f) \subseteq Numbers(c, f) /\ d.ex[f].conn = c.ex[f].conn
  BY <1>1, <1>2, <1>14
<1>17. \A j \in 1 .. MaxConn : j > Len(d.nd.conns) => more[j] = 0
  <2>1. m.conn <= Len(c.nd.conns) /\ m.conn \in Nat
    BY <1>3, <1>8, <1>10
  <2>2. \A j \in 1 .. MaxConn : j > Len(c.nd.conns) => j # m.conn /\ last[j] = 0
    BY <1>3, <2>1 DEF RepliesOK
  <2> QED
    BY <1>1, <1>11, <2>2
<1>18. RepliesOK(d, more)
  <2>1. ASSUME NEW f \in DOMAIN c.ex PROVE Numbers(d, f) \subseteq 1 .. Len(d.nd.conns)
    BY <1>1, <1>16 DEF RepliesOK
  <2>2. ASSUME NEW f \in DOMAIN c.ex, NEW g \in DOMAIN c.ex, g # f
        PROVE  Numbers(d, f) \cap Numbers(d, g) = {} /\ d.ex[g].conn \notin Numbers(d, f)
    <3>1. Numbers(c, f) \cap Numbers(c, g) = {} /\ c.ex[g].conn \notin Numbers(c, f)
      BY <2>2 DEF RepliesOK
    <3> QED
      BY <1>16, <3>1
  <2> QED
    BY <1>1, <1>15, <1>17, <2>1, <2>2 DEF RepliesOK
<1> QED
  BY <1>10, <1>18 DEF d, more, m

\* A chunk, and the reply that is executed: the next one, or the last one again.
LEMMA ReadKeeps ==
  ASSUME NEW c, NEW e, NEW n, NEW x, Reads(c, e, n, x), NEW last \in [1 .. MaxConn -> Nat],
         RepliesOK(c, last), Len(c.nd.conns) <= MaxConn
  PROVE  LET d == Read(c, e, n, x)
             m == x.back[1][2]
         IN  /\ x.back = <<>> => RepliesOK(d, last)
             /\ x.back # <<>> /\ check_auth(x.back) =>
                  /\ m.conn \in 1 .. MaxConn /\ m.nr \in {last[m.conn], last[m.conn] + 1}
                  /\ RepliesOK(d, Executes(last, m))
<1> DEFINE d == Read(c, e, n, x)
           m == x.back[1][2]
<1>1. /\ x.missing \in {0, 1} /\ Len(x.m_last_command) = x.missing
      /\ \/ x.back = c.ex[e].back /\ Flow(d, e) = Flow(c, e)
         \/ Len(x.back) = 2 /\ Flow(c, e) = x.back \o Flow(d, e)
  BY ReadFlow
<1>2. d.ex[e] = x /\ e \in DOMAIN c.ex /\ c \in Clients /\ OwnConns(c)
  <2>0. ReadTo(c, d, e, n, x)
    BY ReadForm
  <2>1. d.ex[e] = x
    BY <2>0 DEF ReadTo
  <2> QED
    BY <2>1 DEF Reads
<1>3. ASSUME x.back = c.ex[e].back, Flow(d, e) = Flow(c, e)
      PROVE  RepliesOK(d, last)
  BY <1>1, <1>3, ReadSame
<1>4. ASSUME x.back = c.ex[e].back, x.back # <<>>
      PROVE  m.conn \in 1 .. MaxConn /\ m.nr = last[m.conn] /\ Executes(last, m) = last
  <2> DEFINE b == c.ex[e].back
  <2>1. ReaderOK(c.ex[e], last) /\ Numbers(c, e) \subseteq 1 .. Len(c.nd.conns) /\ b \in Seq(Unit)
        /\ Len(c.nd.conns) \in Nat /\ MaxConn \in Nat
    BY <1>2, FlowForm, GuiConstants DEF RepliesOK
  <2>2. m = b[1][2] /\ last[m.conn] = m.nr
    BY <1>4, <2>1 DEF ReaderOK
  <2>3. b[1][2].conn \in Tags(b)
    <3>1. b \in Seq(Unit) /\ b # <<>>
      BY <1>4, <2>1
    <3> HIDE DEF b
    <3>2. 1 \in 1 .. Len(b)
      BY <3>1
    <3> QED
      BY <3>2 DEF Tags
  <2>4. m.conn \in 1 .. Len(c.nd.conns)
    BY <2>1, <2>2, <2>3 DEF Numbers
  <2> HIDE DEF m, b
  <2>5. m.conn \in 1 .. MaxConn
    BY <2>1, <2>4
  <2>6. Executes(last, m) = last
    BY <2>2, <2>5 DEF Executes
  <2> QED
    BY <2>2, <2>5, <2>6
<1>5. ASSUME Len(x.back) = 2, Flow(c, e) = x.back \o Flow(d, e), check_auth(x.back)
      PROVE  m.conn \in 1 .. MaxConn /\ m.nr = last[m.conn] + 1 /\ RepliesOK(d, Executes(last, m))
  <2>1. Completes(c, d, e)
    BY <1>2, <1>5 DEF Completes
  <2> QED
    BY <1>1, <1>5, <2>1, ReadFrame, Zenon
<1>6. Len(x.back) = 2 => x.back # <<>>
  <2>1. Len(<<>>) = 0 /\ 0 # 2
    OBVIOUS
  <2> QED
    BY <2>1, Zenon
<1> HIDE DEF d, m
<1>7. CASE x.back = c.ex[e].back /\ Flow(d, e) = Flow(c, e)
  BY <1>3, <1>4, <1>7 DEF d, m
<1>8. CASE Len(x.back) = 2 /\ Flow(c, e) = x.back \o Flow(d, e)
  BY <1>5, <1>6, <1>8, Zenon DEF d, m
<1> QED
  BY <1>1, <1>7, <1>8

\* The client moves on from c, within the connections that are counted.
MovesOn(c) == Client' \in Clients /\ OwnConns(Client') /\ Moves(c, Client') /\ Len(Client'.nd.conns) <= MaxConn

\* A step that only gives the client another value.
LEMMA BecomesMoves ==
  ASSUME NEW c, NEW d, d \in Clients, OwnConns(d), Moves(c, d), Becomes(d)
  PROVE  MovesOn(c)
<1>1. Client' = d
  BY BecomesClient
<1>2. Len(d.nd.conns) <= MaxConn
  BY DEF Becomes
<1> QED
  BY <1>1, <1>2 DEF MovesOn

\* What a reply does to the client.
LEMMA ReplyMoves ==
  ASSUME ClientInv, NEW c, NEW e, NEW m, Has(c, e, m), parseAndExecMsg(c, e, m)
  PROVE  MovesOn(c)
<1>1. /\ c \in Clients /\ DOMAIN c.ex = DOMAIN executors /\ ClientOK(c, applied) /\ CounterOK(c)
      /\ applied \in Seq(Nat) /\ e \in DOMAIN c.ex
  BY HasForm
<1>2. OwnConns(c)
  BY <1>1 DEF ClientOK
<1>3. ASSUME Becomes(c) PROVE MovesOn(c)
  <2>1. Moves(c, c)
    BY <1>1, StillMoves
  <2> QED
    BY <1>1, <1>2, <1>3, <2>1, BecomesMoves
<1>4. ASSUME Becomes(getOrder(c, e, m.re)), m.cmd # "get_status", ~NoOrder(c, e, m) PROVE MovesOn(c)
  <2> DEFINE r == [cmd |-> m.cmd, id |-> m.re, n |-> m.n]
             d == getOrder(c, e, m.re)
  <2>1. r \in Carried(c, e) /\ r.cmd # "get_status" /\ r.id = m.re /\ r.id \in DOMAIN c.ex[e].m_orders
    BY <1>4 DEF Has, NoOrder
  <2> HIDE DEF r
  <2>2. d \in Clients /\ ClientOK(d, applied)
    BY <1>1, <2>1, TakeOrder
  <2>3. Moves(c, d)
    BY <1>1, <2>2, TakeMoves
  <2>4. OwnConns(d)
    BY <2>2 DEF ClientOK
  <2> QED
    BY <1>4, <2>2, <2>3, <2>4, BecomesMoves
<1>5. ASSUME Becomes(setSenderRpcName(c, e, m.sid)) PROVE MovesOn(c)
  <2> DEFINE d == setSenderRpcName(c, e, m.sid)
  <2>1. m.sid \in Nat
    BY DEF Has, Reply
  <2>2. d \in Clients /\ ClientOK(d, applied)
    BY <1>1, <2>1, NameKeeps
  <2>3. Moves(c, d)
    BY <1>1, <2>1, NameMoves
  <2>4. OwnConns(d)
    BY <2>2 DEF ClientOK
  <2> QED
    BY <1>5, <2>2, <2>3, <2>4, BecomesMoves
<1>6. CASE m.cmd = "hello" /\ ApplyHello(c, e, m)
  BY <1>3, <1>5, <1>6 DEF ApplyHello
<1>7. CASE m.cmd = "add_peer" /\ ApplyAddPeer(c, e, m)
  BY <1>3, <1>4, <1>7 DEF ApplyAddPeer
<1>8. CASE m.cmd = "ban_peer" /\ ApplyBanPeer(c, e, m)
  BY <1>3, <1>4, <1>8 DEF ApplyBanPeer
<1>9. CASE m.cmd = "delete_peer" /\ ApplyDeletePeer(c, e, m)
  BY <1>3, <1>4, <1>9 DEF ApplyDeletePeer
<1>10. CASE m.cmd \in PlainCommands /\ ApplyPlain(c)
  BY <1>3, <1>10 DEF ApplyPlain
<1> QED
  BY <1>6, <1>7, <1>8, <1>9, <1>10 DEF parseAndExecMsg

\* One step executes the next reply of a connection, or none, or the last one again.
OneMore ==
  ~misframed' => \A k \in DOMAIN executed : executed'[k] \in {executed[k], executed[k] + 1}

\* readyRead keeps the order.
LEMMA ReceiveOrder ==
  ASSUME GuiInv, RepliesInv, NEW e \in 1 .. Len(executors), NEW n \in 1 .. 3, onTcpReceive(e, n)
  PROVE  RepliesInv' /\ OneMore
<1> DEFINE k == executors[e].conn
<1>0. ClientInv /\ executed \in [1 .. MaxConn -> Nat]
  BY DEF GuiInv, FlagsInv
<1>1. Client \in Clients /\ OwnConns(Client) /\ Client.nd = node /\ Client.ex = executors
      /\ e \in DOMAIN executors
  BY <1>0, CurExists DEF ClientInv, ClientOK, Client
<1>2. k # 0 /\ n <= Len(node.conns[k].stream)
  BY DEF onTcpReceive
<1>3. PICK x \in Fed(executors[e], SubSeq(node.conns[k].stream, 1, n)) :
        LET c == [Client EXCEPT !.ex[e] = x, !.nd.conns[k].stream = SubSeq(@, n + 1, Len(@))]
            m == x.back[1][2]
        IN  \/ /\ x.back = <<>>
               /\ Becomes(c)
               /\ UNCHANGED <<peers, exited>> /\ Unread
            \/ /\ x.back # <<>> /\ ~check_auth(x.back)
               /\ Becomes(closeConnection(c, e))
               /\ misframed' = TRUE
               /\ UNCHANGED <<peers, exited, applied, executed>>
            \/ /\ x.back # <<>> /\ check_auth(x.back)
               /\ parseAndExecMsg(c, e, m)
               /\ executed' = [executed EXCEPT ![m.conn] = m.nr]
               /\ UNCHANGED misframed
  BY Zenon DEF onTcpReceive
<1> DEFINE c == Read(Client, e, n, x)
           m == x.back[1][2]
<1>4. Reads(Client, e, n, x)
  BY <1>1, <1>2, <1>3 DEF Reads
<1>5. \/ x.back = <<>> /\ Becomes(c) /\ Unread
      \/ misframed' = TRUE
      \/ /\ x.back # <<>> /\ check_auth(x.back) /\ parseAndExecMsg(c, e, m)
         /\ executed' = Executes(executed, m) /\ misframed' = misframed
  <2> DEFINE d == [Client EXCEPT !.ex[e] = x, !.nd.conns[k].stream = SubSeq(@, n + 1, Len(@))]
  <2>1. c = d
    <3> DEFINE j == Client.ex[e].conn
    <3>1. c = [Client EXCEPT !.ex[e] = x, !.nd.conns[j].stream = SubSeq(@, n + 1, Len(@))]
      BY DEF Read
    <3>2. j = k
      BY <1>1
    <3> HIDE DEF j, k, c
    <3> QED
      BY <3>1, <3>2
  <2>2. \/ x.back = <<>> /\ Becomes(d) /\ Unread
        \/ misframed' = TRUE
        \/ /\ x.back # <<>> /\ check_auth(x.back) /\ parseAndExecMsg(d, e, m)
           /\ executed' = Executes(executed, m) /\ misframed' = misframed
    BY <1>3, Zenon DEF Executes
  <2> HIDE DEF c, d
  <2> QED
    BY <2>1, <2>2
<1>6. c \in Clients /\ OwnConns(c) /\ c.ex[e] = x /\ x \in Executor
  <2>1. Shrinks(Client, c) /\ c.ex[e] = x /\ x \in Executor
    BY <1>1, <1>4, Received DEF Reads, Read
  <2> QED
    BY <2>1 DEF Shrinks
<1>7. Len(c.nd.conns) = Len(Client.nd.conns) /\ Len(Client.nd.conns) \in Nat /\ DOMAIN c.ex = DOMAIN executors
  <2>1. DOMAIN c.ex = DOMAIN Client.ex /\ Len(c.nd.conns) = Len(Client.nd.conns)
    BY <1>4, ReadSize, Zenon
  <2>3. Len(Client.nd.conns) \in Nat
    BY <1>1, ClientForm
  <2> QED
    BY <1>1, <2>1, <2>3
<1>8. SUFFICES ASSUME ~misframed' PROVE RepliesInv' /\ OneMore
  BY DEF RepliesInv, OneMore
<1>9. misframed' = misframed /\ ~misframed
  BY <1>5, <1>8 DEF Unread
<1>10. MovesOn(c)
  <2>1. CASE x.back = <<>> /\ Becomes(c) /\ Unread
    <3>1. Moves(c, c)
      BY <1>6, StillMoves
    <3> QED
      BY <1>6, <2>1, <3>1, BecomesMoves
  <2>2. CASE x.back # <<>> /\ check_auth(x.back) /\ parseAndExecMsg(c, e, m)
    <3> DEFINE u == x.back[1]
    <3>1. x.back \in Seq(Unit) /\ 1 \in 1 .. Len(x.back)
      BY <1>6, <2>2, ExecutorForm
    <3>2. u \in Range(x.back) /\ u \in Unit
      BY <3>1, UnitsOfSeq
    <3>3. m \in Reply /\ Asked(u) = [cmd |-> m.cmd, id |-> m.re, n |-> m.n]
      BY <3>2 DEF Unit, Asked
    <3>4. Asked(u) \in Carried(c, e)
      <4>1. Asked(u) \in InReader(x)
        BY <3>2 DEF InReader
      <4> QED
        BY <1>6, <4>1 DEF Carried
    <3>5. Shrinks(Client, c)
      BY <1>1, <1>4, Received DEF Reads, Read
    <3> HIDE DEF u, m, c
    <3>6. Has(c, e, m)
      BY <1>1, <1>7, <3>3, <3>4, <3>5 DEF Has
    <3> QED
      BY <1>0, <2>2, <3>6, ReplyMoves
  <2> QED
    BY <1>5, <1>8, <2>1, <2>2
<1>11. Client' \in Clients /\ OwnConns(Client') /\ Moves(c, Client') /\ Len(Client'.nd.conns) <= MaxConn
       /\ Client'.nd = node'
  BY <1>10 DEF MovesOn, Client
<1>12. Len(Client.nd.conns) <= MaxConn
  <2>1. Len(Client'.nd.conns) >= Len(c.nd.conns) /\ Len(Client'.nd.conns) \in Nat /\ MaxConn \in Nat
    BY <1>11, ClientForm, GuiConstants DEF Moves
  <2> QED
    BY <1>7, <1>11, <2>1
<1>13. RepliesOK(Client, executed)
  BY <1>1, <1>9, <1>12 DEF RepliesInv
<1>14. /\ x.back = <<>> => RepliesOK(c, executed)
       /\ x.back # <<>> /\ check_auth(x.back) =>
            /\ m.conn \in 1 .. MaxConn /\ m.nr \in {executed[m.conn], executed[m.conn] + 1}
            /\ RepliesOK(c, Executes(executed, m))
  BY <1>0, <1>4, <1>12, <1>13, ReadKeeps
<1> HIDE DEF c, m
<1>15. RepliesOK(c, executed') /\ executed' \in [1 .. MaxConn -> Nat]
       /\ \A j \in 1 .. MaxConn : executed'[j] \in {executed[j], executed[j] + 1}
  <2>1. CASE x.back = <<>> /\ Becomes(c) /\ Unread
    BY <1>0, <1>14, <2>1 DEF Unread
  <2>2. CASE x.back # <<>> /\ check_auth(x.back) /\ executed' = Executes(executed, m)
    <3>1. m.conn \in 1 .. MaxConn /\ m.nr \in {executed[m.conn], executed[m.conn] + 1} /\ RepliesOK(c, executed')
      BY <1>14, <2>2
    <3>2. executed' = [executed EXCEPT ![m.conn] = m.nr]
      BY <2>2 DEF Executes
    <3> QED
      BY <1>0, <3>1, <3>2
  <2> QED
    BY <1>5, <1>8, <2>1, <2>2
<1>16. RepliesOK(Client', executed')
  BY <1>6, <1>11, <1>15, MovesKeep
<1>17. RepliesInv'
  BY <1>16 DEF RepliesInv
<1>18. OneMore
  BY <1>0, <1>15 DEF OneMore
<1> QED
  BY <1>17, <1>18

-----------------------------------------------------------------------------
\* What a node does with one connection keeps the order when it keeps that of its executor.
LEMMA ConnOrder ==
  ASSUME NEW c \in Clients, NEW d \in Clients, OwnConns(c), OwnConns(d), d.ex = c.ex,
         Len(d.nd.conns) = Len(c.nd.conns), NEW k \in 1 .. Len(c.nd.conns),
         \A j \in 1 .. Len(c.nd.conns) : j # k => d.nd.conns[j] = c.nd.conns[j],
         NEW last, RepliesOK(c, last),
         \A e \in DOMAIN c.ex : c.ex[e].conn = k =>
           /\ InOrder(Flow(d, e), last) /\ Tip(Flow(d, e), k, d.nd.conns[k], last)
           /\ Tags(Flow(d, e)) \subseteq Tags(Flow(c, e)) \cup {k}
  PROVE  RepliesOK(d, last)
<1>1. ASSUME NEW e \in DOMAIN c.ex, c.ex[e].conn # k
      PROVE  /\ Flow(d, e) = Flow(c, e) /\ Numbers(d, e) = Numbers(c, e)
             /\ c.ex[e].conn # 0 => d.nd.conns[c.ex[e].conn] = c.nd.conns[c.ex[e].conn]
  <2>1. c.ex[e].conn \in 0 .. Len(c.nd.conns) /\ Len(c.nd.conns) \in Nat
    BY FlowForm
  <2>2. c.ex[e].conn # 0 => c.ex[e].conn \in 1 .. Len(c.nd.conns)
    <3> DEFINE j == c.ex[e].conn
               N == Len(c.nd.conns)
    <3>1. j \in 0 .. N /\ N \in Nat
      BY <2>1
    <3> HIDE DEF j, N
    <3>2. j # 0 => j \in 1 .. N
      BY <3>1
    <3> QED
      BY <3>2 DEF j, N
  <2>3. c.ex[e].conn # 0 => d.nd.conns[c.ex[e].conn] = c.nd.conns[c.ex[e].conn]
    BY <1>1, <2>2
  <2>4. Flow(d, e) = Flow(c, e)
    BY <2>3 DEF Flow, OnWay
  <2> QED
    BY <2>3, <2>4 DEF Numbers
<1>2. ASSUME NEW e \in DOMAIN c.ex
      PROVE  /\ ReaderOK(d.ex[e], last) /\ InOrder(Flow(d, e), last)
             /\ d.ex[e].conn # 0 => Tip(Flow(d, e), d.ex[e].conn, d.nd.conns[d.ex[e].conn], last)
             /\ Numbers(d, e) \subseteq Numbers(c, e) \cup {c.ex[e].conn}
             /\ Numbers(d, e) \subseteq 1 .. Len(d.nd.conns)
  <2>1. /\ ReaderOK(c.ex[e], last) /\ InOrder(Flow(c, e), last) /\ Numbers(c, e) \subseteq 1 .. Len(c.nd.conns)
        /\ c.ex[e].conn # 0 => Tip(Flow(c, e), c.ex[e].conn, c.nd.conns[c.ex[e].conn], last)
    BY DEF RepliesOK
  <2>2. CASE c.ex[e].conn = k
    <3>1. /\ InOrder(Flow(d, e), last) /\ Tip(Flow(d, e), k, d.nd.conns[k], last)
          /\ Tags(Flow(d, e)) \subseteq Tags(Flow(c, e)) \cup {k}
      BY <2>2
    <3>2. Numbers(d, e) \subseteq Numbers(c, e) \cup {k}
      BY <3>1 DEF Numbers
    <3> QED
      BY <2>1, <2>2, <3>1, <3>2
  <2>3. CASE c.ex[e].conn # k
    BY <1>1, <2>1, <2>3
  <2> QED
    BY <2>2, <2>3
<1>3. ASSUME NEW e \in DOMAIN c.ex, NEW f \in DOMAIN c.ex, f # e
      PROVE  Numbers(d, e) \cap Numbers(d, f) = {} /\ d.ex[f].conn \notin Numbers(d, e)
  <2>1. /\ Numbers(c, e) \cap Numbers(c, f) = {} /\ c.ex[f].conn \notin Numbers(c, e)
        /\ c.ex[e].conn \notin Numbers(c, f)
    BY <1>3 DEF RepliesOK
  <2>2. Numbers(d, e) \subseteq Numbers(c, e) \cup {c.ex[e].conn}
        /\ Numbers(d, f) \subseteq Numbers(c, f) \cup {c.ex[f].conn}
        /\ Numbers(d, e) \subseteq 1 .. Len(d.nd.conns) /\ Numbers(d, f) \subseteq 1 .. Len(d.nd.conns)
    BY <1>2
  <2>3. c.ex[e].conn = c.ex[f].conn => c.ex[e].conn = 0
    BY <1>3 DEF OwnConns
  <2>4. 0 \notin 1 .. Len(d.nd.conns)
    OBVIOUS
  <2> QED
    BY <2>1, <2>2, <2>3, <2>4, ZenonT(60)
<1>4. \A j \in 1 .. MaxConn : j > Len(d.nd.conns) => last[j] = 0
  BY DEF RepliesOK
<1> QED
  BY <1>2, <1>3, <1>4 DEF RepliesOK

\* Two units more.
LEMMA TwoMore ==
  ASSUME NEW s \in Seq(Unit), NEW a \in Unit, NEW b \in Unit
  PROVE  /\ s \o <<a, b>> \in Seq(Unit) /\ Len(s \o <<a, b>>) = Len(s) + 2
         /\ \A i \in 1 .. Len(s) : (s \o <<a, b>>)[i] = s[i]
         /\ (s \o <<a, b>>)[Len(s) + 1] = a /\ (s \o <<a, b>>)[Len(s) + 2] = b
<1> DEFINE w == <<a, b>>
           t == s \o w
<1>1. w \in Seq(Unit) /\ Len(w) = 2 /\ w[1] = a /\ w[2] = b
  OBVIOUS
<1> HIDE DEF w
<1>2. /\ Len(t) = Len(w) + Len(s) /\ Len(s) \in Nat /\ t \in Seq(Unit)
      /\ (\A i \in 1 .. Len(w) : t[i + Len(s)] = w[i]) /\ (\A i \in 1 .. Len(s) : t[i] = s[i])
  <2>1. w \in Seq(Unit)
    BY <1>1
  <2>2. t \in Seq(Unit)
    BY <2>1
  <2> QED
    BY <2>1, <2>2, ConcatForm, Zenon
<1> HIDE DEF t
<1>3. 1 \in 1 .. Len(w) /\ 2 \in 1 .. Len(w) /\ 1 + Len(s) = Len(s) + 1 /\ 2 + Len(s) = Len(s) + 2
  BY <1>1, <1>2
<1>4. t[1 + Len(s)] = w[1] /\ t[2 + Len(s)] = w[2]
  BY <1>2, <1>3
<1> QED
  BY <1>1, <1>2, <1>3, <1>4 DEF t, w

\* An answer continues what is on the way.
LEMMA AnswerKeeps ==
  ASSUME NEW c \in Clients, NEW d \in Clients, OwnConns(c), OwnConns(d), d.ex = c.ex,
         Len(d.nd.conns) = Len(c.nd.conns), NEW k \in 1 .. Len(c.nd.conns),
         \A j \in 1 .. Len(c.nd.conns) : j # k => d.nd.conns[j] = c.nd.conns[j],
         NEW last \in [1 .. MaxConn -> Nat], RepliesOK(c, last), Len(c.nd.conns) <= MaxConn,
         NEW m \in Reply, m.conn = k, Answered(c.nd.conns[k], d.nd.conns[k], m)
  PROVE  RepliesOK(d, last)
<1> DEFINE g == c.nd.conns[k]
           h == d.nd.conns[k]
           a == <<"head", m>>
           b == <<"tail", m>>
<1>0. g \in Conn /\ g.stream \in Seq(Unit) /\ k \in 1 .. MaxConn
  <2>0. g \in Conn
    BY ClientForm
  <2>1. g \in Conn /\ MaxConn \in Nat /\ Len(c.nd.conns) \in Nat
    BY <2>0, ClientForm, GuiConstants
  <2> QED
    BY <2>1 DEF Conn
<1>1. a \in Unit /\ b \in Unit
  BY DEF Unit
<1>2. g.open /\ m.nr = g.sent + 1 /\ h.sent = g.sent + 1 /\ h.stream = g.stream \o <<a, b>>
  BY DEF Answered
<1>3. ASSUME NEW e \in DOMAIN c.ex, c.ex[e].conn = k
      PROVE  /\ InOrder(Flow(d, e), last) /\ Tip(Flow(d, e), k, h, last)
             /\ Tags(Flow(d, e)) \subseteq Tags(Flow(c, e)) \cup {k}
  <2> DEFINE r == Held(c.ex[e])
             s == Flow(c, e)
             t == Flow(d, e)
  <2>1. r \in Seq(Unit) /\ s \in Seq(Unit) /\ k # 0
    BY <1>0, FlowForm
  <2>2. s = r \o g.stream /\ t = r \o h.stream
    BY <1>3, <2>1 DEF Flow, OnWay
  <2>3. InOrder(s, last) /\ Tip(s, k, g, last)
    BY <1>3, <2>1 DEF RepliesOK
  <2> HIDE DEF r, s, t, g, h, a, b
  <2>4. t = s \o <<a, b>>
    <3> DEFINE w == <<a, b>>
    <3>1. w \in Seq(Unit)
      BY <1>1
    <3>2. h.stream = g.stream \o w
      BY <1>2
    <3> HIDE DEF w
    <3>3. (r \o g.stream) \o w = r \o (g.stream \o w)
      BY <1>0, <2>1, <3>1, Regroup, Zenon
    <3>4. t = s \o w
      BY <2>2, <3>2, <3>3, Zenon
    <3> QED
      BY <3>4 DEF w
  <2>5. t \in Seq(Unit) /\ Len(t) = Len(s) + 2 /\ (\A i \in 1 .. Len(s) : t[i] = s[i])
        /\ t[Len(s) + 1] = <<"head", m>> /\ t[Len(s) + 2] = <<"tail", m>>
    <3> DEFINE z == s \o <<a, b>>
    <3>1. z \in Seq(Unit) /\ Len(z) = Len(s) + 2 /\ (\A i \in 1 .. Len(s) : z[i] = s[i])
          /\ z[Len(s) + 1] = a /\ z[Len(s) + 2] = b
      BY <1>1, <2>1, TwoMore
    <3> HIDE DEF z
    <3>2. t = z
      BY <2>4 DEF z
    <3> QED
      BY <3>1, <3>2, Zenon DEF a, b
  <2>6. InOrder(t, last) /\ Tip(t, k, h, last) /\ Tags(t) \subseteq Tags(s) \cup {k}
    BY <1>0, <1>2, <2>1, <2>3, <2>5, AnswerInOrder
  <2> QED
    BY <2>6 DEF t, s
<1> QED
  BY <1>3, ConnOrder

\* A connection ends, and what is left of its stream.
LEMMA CutKeeps ==
  ASSUME NEW c \in Clients, NEW d \in Clients, OwnConns(c), OwnConns(d), d.ex = c.ex,
         Len(d.nd.conns) = Len(c.nd.conns), NEW k \in 1 .. Len(c.nd.conns),
         \A j \in 1 .. Len(c.nd.conns) : j # k => d.nd.conns[j] = c.nd.conns[j],
         NEW last, RepliesOK(c, last), NEW n \in 0 .. Len(c.nd.conns[k].stream),
         ~d.nd.conns[k].open, d.nd.conns[k].stream = SubSeq(c.nd.conns[k].stream, 1, n)
  PROVE  RepliesOK(d, last)
<1> DEFINE g == c.nd.conns[k].stream
           h == SubSeq(g, 1, n)
<1>0. g \in Seq(Unit)
  <2>1. c.nd.conns[k] \in Conn
    BY ClientForm
  <2> QED
    BY <2>1 DEF Conn
<1>1. ASSUME NEW e \in DOMAIN c.ex, c.ex[e].conn = k
      PROVE  /\ InOrder(Flow(d, e), last) /\ Tip(Flow(d, e), k, d.nd.conns[k], last)
             /\ Tags(Flow(d, e)) \subseteq Tags(Flow(c, e)) \cup {k}
  <2> DEFINE r == Held(c.ex[e])
             s == Flow(c, e)
             t == Flow(d, e)
  <2>1. r \in Seq(Unit) /\ s \in Seq(Unit) /\ k # 0
    BY FlowForm
  <2>2. s = r \o g /\ t = r \o h
    BY <1>1, <2>1 DEF Flow, OnWay
  <2>3. InOrder(s, last)
    BY <1>1 DEF RepliesOK
  <2>4. n \in 0 .. Len(g)
    OBVIOUS
  <2> HIDE DEF r, s, t, g
  <2>5. t \in Seq(Unit) /\ Starts(t, s)
    BY <1>0, <2>1, <2>2, <2>4, StartOfConcat
  <2>6. InOrder(t, last) /\ Tags(t) \subseteq Tags(s)
    BY <2>1, <2>3, <2>5, StartInOrder
  <2>7. Tip(t, k, d.nd.conns[k], last)
    BY DEF Tip
  <2> QED
    BY <2>6, <2>7 DEF t, s
<1> QED
  BY <1>1, ConnOrder

\* What the invariant of the client says of both states.
LEMMA BothClients ==
  ASSUME GuiInv, GuiInv'
  PROVE  /\ Client \in Clients /\ OwnConns(Client) /\ Client.nd = node /\ Client.ex = executors
         /\ Client' \in Clients /\ OwnConns(Client') /\ Client'.nd = node' /\ Client'.ex = executors'
         /\ executed \in [1 .. MaxConn -> Nat] /\ Len(node.conns) \in Nat /\ Len(node'.conns) \in Nat
         /\ MaxConn \in Nat
<1>1. Client \in Clients /\ OwnConns(Client) /\ Client.nd = node /\ Client.ex = executors
  BY DEF GuiInv, ClientInv, ClientOK, Client
<1>2. Client' \in Clients /\ OwnConns(Client') /\ Client'.nd = node' /\ Client'.ex = executors'
  BY DEF GuiInv, ClientInv, ClientOK, Client
<1>3. Len(node.conns) \in Nat /\ Len(node'.conns) \in Nat
  BY <1>1, <1>2, ClientForm
<1> QED
  BY <1>1, <1>2, <1>3, GuiConstants DEF GuiInv, FlagsInv

\* A step of the client other than reading.
LEMMA MovesStep ==
  ASSUME GuiInv, GuiInv', RepliesInv, MovesOn(Client), Unread
  PROVE  RepliesInv'
<1>1. executed' = executed /\ misframed' = misframed
  BY DEF Unread
<1>2. SUFFICES ASSUME ~misframed PROVE RepliesOK(Client', executed)
  BY <1>1 DEF RepliesInv
<1>3. Len(node.conns) <= MaxConn /\ Len(Client'.nd.conns) <= MaxConn /\ Moves(Client, Client')
  BY BothClients DEF MovesOn, Moves
<1>4. RepliesOK(Client, executed)
  BY <1>2, <1>3 DEF RepliesInv
<1> QED
  BY <1>3, <1>4, BothClients, MovesKeep

\* A step that leaves the client alone.
LEMMA IdleStep ==
  ASSUME RepliesInv, UNCHANGED <<executors, node, m_is_working>>, Unread
  PROVE  RepliesInv'
  BY DEF RepliesInv, Unread, Client

\* The node keeps the order.
LEMMA NodeOrder ==
  ASSUME GuiInv, GuiInv', RepliesInv,
         \/ \E k \in 1 .. Len(node.conns) : NodeAnswer(k) \/ NodeClose(k)
         \/ NodeRestart
  PROVE  RepliesInv'
<1>0. executed' = executed /\ misframed' = misframed /\ ClientInv
  BY DEF NodeAnswer, NodeClose, NodeRestart, Unread, GuiInv
<1>1. SUFFICES ASSUME ~misframed, Len(node'.conns) <= MaxConn PROVE RepliesOK(Client', executed)
  BY <1>0 DEF RepliesInv
<1>2. ASSUME NEW k \in 1 .. Len(node.conns), OnlyConn(k)
      PROVE  /\ RepliesOK(Client, executed) /\ Client'.ex = Client.ex
             /\ Len(Client'.nd.conns) = Len(Client.nd.conns) /\ k \in 1 .. Len(Client.nd.conns)
             /\ Len(Client.nd.conns) <= MaxConn
             /\ \A j \in 1 .. Len(Client.nd.conns) : j # k => Client'.nd.conns[j] = Client.nd.conns[j]
  <2>1. Client.nd = node /\ Client.ex = executors /\ Client'.nd = node' /\ Client'.ex = executors'
    BY BothClients
  <2>2. Len(node.conns) <= MaxConn
    BY <1>1, <1>2 DEF OnlyConn
  <2> QED
    BY <1>1, <1>2, <2>1, <2>2 DEF OnlyConn, RepliesInv
<1>3. ASSUME NEW k \in 1 .. Len(node.conns), NodeAnswer(k) PROVE RepliesOK(Client', executed)
  <2>1. OnlyConn(k)
    BY <1>0, <1>3, AnswerStep
  <2>2. PICK m \in Reply : m.conn = k /\ Answered(node.conns[k], node'.conns[k], m)
    BY <1>0, <1>3, AnswerStep
  <2>3. Answered(Client.nd.conns[k], Client'.nd.conns[k], m)
    BY <2>2, BothClients
  <2> QED
    BY <1>2, <2>1, <2>2, <2>3, BothClients, AnswerKeeps
<1>4. ASSUME NEW k \in 1 .. Len(node.conns), NodeClose(k) PROVE RepliesOK(Client', executed)
  <2>1. OnlyConn(k) /\ SessionCut(node.conns[k], node'.conns[k])
    BY <1>0, <1>4, CloseStep
  <2>2. SessionCut(Client.nd.conns[k], Client'.nd.conns[k])
    BY <2>1, BothClients
  <2>3. PICK n \in 0 .. Len(Client.nd.conns[k].stream) :
          Client'.nd.conns[k].stream = SubSeq(Client.nd.conns[k].stream, 1, n)
    BY <2>2 DEF SessionCut
  <2>4. ~Client'.nd.conns[k].open
    BY <2>2 DEF SessionCut
  <2> QED
    BY <1>2, <2>1, <2>3, <2>4, BothClients, CutKeeps
<1>5. CASE NodeRestart
  <2>1. node \in Node /\ executors' = executors
        /\ node' = [node EXCEPT !.up = ~@, !.sessions = 0]
    BY <1>5, BothClients, ClientForm DEF NodeRestart
  <2>2. node'.conns = node.conns
    BY <2>1 DEF Node
  <2>3. Client'.ex = Client.ex /\ Client'.nd.conns = Client.nd.conns
    BY <2>1, <2>2, BothClients
  <2>4. Moves(Client, Client')
    BY <2>3, BothClients, StillMoves
  <2>5. RepliesOK(Client, executed) /\ Len(Client'.nd.conns) <= MaxConn
    BY <1>1, <2>2, BothClients DEF RepliesInv
  <2> QED
    BY <2>4, <2>5, BothClients, MovesKeep
<1> QED
  BY <1>3, <1>4, <1>5

\* A request, sent or not, keeps the order.
LEMMA SendOrder ==
  ASSUME GuiInv, GuiInv', RepliesInv, NEW e \in DOMAIN executors, NEW cmd \in Commands,
         NEW peer \in Vips \cup {NoPeer}, cmd \in NamesPeer => peer \in Vips,
         Becomes(sendCommand(Client, e, cmd, peer)), Unread
  PROVE  RepliesInv'
<1> DEFINE d == sendCommand(Client, e, cmd, peer)
<1>1. Client \in Clients /\ OwnConns(Client) /\ e \in DOMAIN Client.ex
  BY BothClients
<1>2. Moves(Client, d) /\ d \in Clients /\ OwnConns(d)
  BY <1>1, SendMoves
<1> HIDE DEF d
<1>3. MovesOn(Client)
  BY <1>2, BecomesMoves DEF d
<1> QED
  BY <1>3, MovesStep

\* The slots that ask the node for something.
LEMMA RequestOrder ==
  ASSUME GuiInv, GuiInv', RepliesInv, Unread,
         \/ \E cmd \in PeerCommands, v \in Vips : Request(cmd, v)
         \/ \E cmd \in PlainCommands : PlainRequest(cmd)
  PROVE  RepliesInv'
<1>1. Cur \in DOMAIN executors
  BY CurExists DEF GuiInv
<1>2. CASE UNCHANGED <<executors, node, m_is_working>>
  BY <1>2, IdleStep
<1>3. ASSUME NEW cmd \in PeerCommands, NEW v \in Vips, Becomes(sendCommand(Client, Cur, cmd, v))
      PROVE  RepliesInv'
  <2>1. cmd \in Commands /\ v \in Vips \cup {NoPeer}
    BY DEF Commands
  <2> QED
    BY <1>1, <1>3, <2>1, SendOrder
<1>4. ASSUME NEW cmd \in PlainCommands, Becomes(sendCommand(Client, Cur, cmd, NoPeer))
      PROVE  RepliesInv'
  <2>1. cmd \in Commands /\ NoPeer \in Vips \cup {NoPeer} /\ cmd \notin NamesPeer
    BY DEF Commands, PlainCommands, NamesPeer
  <2> QED
    BY <1>1, <1>4, <2>1, SendOrder
<1> QED
  BY <1>2, <1>3, <1>4 DEF Request, PlainRequest

\* The connect button keeps the order.
LEMMA ResetOrder ==
  ASSUME GuiInv, GuiInv', RepliesInv, resetConnection
  PROVE  RepliesInv'
<1> DEFINE a == closeConnection(Client, 1)
           b == [a EXCEPT !.working = FALSE]
           s == sendCommand(b, 1, "hello", NoPeer)
           d == [s EXCEPT !.working = FALSE]
<1>1. Client \in Clients /\ OwnConns(Client) /\ 1 \in DOMAIN Client.ex /\ FALSE \in BOOLEAN
  BY BothClients, CurExists DEF GuiInv
<1>2. Becomes(d) /\ Unread
  BY DEF resetConnection
<1>3. Moves(Client, a) /\ a \in Clients /\ OwnConns(a) /\ 1 \in DOMAIN a.ex
  BY <1>1, CloseEffect, CloseMoves DEF Shrinks
<1> HIDE DEF a
<1>4. b \in Clients /\ OwnConns(b) /\ b.ex = a.ex /\ b.nd = a.nd
  BY <1>1, <1>3, SetWorking DEF Shrinks
<1> HIDE DEF b
<1>5. Moves(a, b) /\ 1 \in DOMAIN b.ex
  BY <1>3, <1>4, StillMoves
<1>6. Moves(b, s) /\ s \in Clients /\ OwnConns(s)
  <2>1. "hello" \in Commands /\ NoPeer \in Vips \cup {NoPeer} /\ "hello" \notin NamesPeer
    BY DEF Commands, NamesPeer
  <2> QED
    BY <1>4, <1>5, <2>1, SendMoves
<1> HIDE DEF s
<1>7. d \in Clients /\ OwnConns(d) /\ d.ex = s.ex /\ d.nd = s.nd
  BY <1>1, <1>6, SetWorking DEF Shrinks
<1> HIDE DEF d
<1>8. Moves(s, d)
  BY <1>6, <1>7, StillMoves
<1>9. Moves(Client, b)
  BY <1>1, <1>3, <1>4, <1>5, MovesTwice
<1>10. Moves(Client, s)
  BY <1>1, <1>4, <1>6, <1>9, MovesTwice
<1>11. Moves(Client, d)
  BY <1>1, <1>6, <1>7, <1>8, <1>10, MovesTwice
<1>12. MovesOn(Client)
  BY <1>2, <1>7, <1>11, BecomesMoves
<1> QED
  BY <1>2, <1>12, MovesStep

\* An executor that is new has read nothing.
LEMMA NewExecutorOrder ==
  ASSUME NEW c \in Clients, NEW d \in Clients, OwnConns(c), OwnConns(d), d.nd = c.nd,
         NEW y, DOMAIN d.ex = DOMAIN c.ex \cup {y}, y \notin DOMAIN c.ex, d.ex[y] = commandExecutor,
         \A f \in DOMAIN c.ex : d.ex[f] = c.ex[f], NEW last, RepliesOK(c, last)
  PROVE  RepliesOK(d, last)
<1>1. \A f \in DOMAIN c.ex : Flow(d, f) = Flow(c, f) /\ Numbers(d, f) = Numbers(c, f)
  BY DEF Flow, OnWay, Numbers
<1>2. /\ d.ex[y].conn = 0 /\ d.ex[y].m_last_command = <<>> /\ d.ex[y].m_internal_buffer = <<>>
      /\ d.ex[y].back = <<>> /\ d.ex[y].missing = 0
  BY DEF commandExecutor
<1>3. Flow(d, y) = <<>> /\ Numbers(d, y) = {}
  <2>1. <<>> \o <<>> = <<>>
    OBVIOUS
  <2>2. Flow(d, y) = <<>>
    BY <1>2, <2>1 DEF Flow, OnWay, Held
  <2>3. Tags(<<>>) = {}
    BY DEF Tags
  <2> QED
    BY <1>2, <2>2, <2>3 DEF Numbers
<1>4. InOrder(<<>>, last) /\ ReaderOK(d.ex[y], last)
  BY <1>2 DEF InOrder, ReaderOK
<1>5. ASSUME NEW e \in DOMAIN d.ex
      PROVE  /\ ReaderOK(d.ex[e], last) /\ InOrder(Flow(d, e), last)
             /\ d.ex[e].conn # 0 => Tip(Flow(d, e), d.ex[e].conn, d.nd.conns[d.ex[e].conn], last)
             /\ Numbers(d, e) \subseteq 1 .. Len(d.nd.conns)
  BY <1>1, <1>2, <1>3, <1>4 DEF RepliesOK
<1>6. ASSUME NEW e \in DOMAIN d.ex, NEW f \in DOMAIN d.ex, f # e
      PROVE  Numbers(d, e) \cap Numbers(d, f) = {} /\ d.ex[f].conn \notin Numbers(d, e)
  <2>1. CASE e = y
    BY <1>3, <2>1
  <2>2. CASE f = y
    <3>1. 0 \notin Numbers(d, e)
      BY <1>5
    <3> QED
      BY <1>2, <1>3, <2>2, <3>1
  <2>3. CASE e # y /\ f # y
    BY <1>1, <1>6, <2>3 DEF RepliesOK
  <2> QED
    BY <2>1, <2>2, <2>3
<1> QED
  BY <1>5, <1>6 DEF RepliesOK

\* The settings keep the order.
LEMMA SettingsOrder ==
  ASSUME GuiInv, GuiInv', RepliesInv, startNewCrpcConnection
  PROVE  RepliesInv'
<1> DEFINE e == Cur + 1
           n == [Client EXCEPT !.ex = Append(@, commandExecutor)]
           made == startCommunication(n, e)
           a == IF is_connected(made, e) THEN closeConnection(made, e) ELSE made
           b == startConnect(a, e)
           d == sendCommand(b, e, "hello", NoPeer)
<1>1. /\ Client \in Clients /\ OwnConns(Client) /\ ClientOK(Client, applied) /\ CounterOK(Client)
      /\ applied \in Seq(Nat) /\ Client.ex = executors /\ executors \in Seq(Executor)
  BY CurExists DEF GuiInv, ClientInv, Client, ClientOK
<1>2. Becomes(d)
  BY Zenon DEF startNewCrpcConnection
<1>3. executed' = executed /\ misframed' = misframed
  BY DEF startNewCrpcConnection, Unread
<1>4. n \in Clients /\ ClientOK(n, applied) /\ CounterOK(n) /\ OwnConns(n)
      /\ \A f \in DOMAIN executors : n.ex[f] = executors[f]
  BY <1>1, NewExecutorKeeps DEF ClientOK
<1>5. DOMAIN n.ex = DOMAIN executors \cup {e} /\ e \notin DOMAIN executors /\ n.ex[e] = commandExecutor
      /\ n.nd = Client.nd
  <2>1. n.ex = Append(executors, commandExecutor) /\ n.nd = Client.nd
    BY <1>1, ClientForm
  <2>2. e = Len(executors) + 1 /\ Len(executors) \in Nat
    BY <1>1 DEF Cur
  <2> HIDE DEF n, e
  <2> QED
    BY <1>1, <2>1, <2>2, NewExecutorForm
<1> HIDE DEF n
<1>6. e \in DOMAIN n.ex
  BY <1>5
<1> HIDE DEF e
<1>7. made \in Clients /\ DOMAIN made.ex = DOMAIN n.ex /\ OwnConns(made) /\ Moves(n, made)
  BY <1>1, <1>4, <1>6, HelloKeeps, HelloMoves DEF ClientOK
<1> HIDE DEF made
<1>8. a \in Clients /\ DOMAIN a.ex = DOMAIN n.ex /\ OwnConns(a) /\ Moves(made, a)
  <2>1. Moves(made, made)
    BY <1>7, StillMoves
  <2>2. Moves(made, closeConnection(made, e))
    BY <1>6, <1>7, CloseMoves
  <2>3. Shrinks(made, closeConnection(made, e))
    BY <1>6, <1>7, CloseEffect
  <2> QED
    BY <1>7, <2>1, <2>2, <2>3 DEF Shrinks
<1> HIDE DEF a
<1>9. b \in Clients /\ DOMAIN b.ex = DOMAIN n.ex /\ OwnConns(b) /\ Moves(a, b)
  BY <1>6, <1>8, NewConn, ConnectMoves DEF Shrinks
<1> HIDE DEF b
<1>10. d \in Clients /\ OwnConns(d) /\ Moves(b, d)
  <2>1. "hello" \in Commands /\ NoPeer \in Vips \cup {NoPeer} /\ "hello" \notin NamesPeer
    BY DEF Commands, NamesPeer
  <2> QED
    BY <1>6, <1>9, <2>1, SendMoves
<1> HIDE DEF d
<1>11. Moves(n, a)
  BY <1>4, <1>7, <1>8, MovesTwice
<1>12. Moves(n, b)
  BY <1>4, <1>8, <1>9, <1>11, MovesTwice
<1>13. Moves(n, d)
  BY <1>4, <1>9, <1>10, <1>12, MovesTwice
<1>14. MovesOn(n)
  BY <1>2, <1>10, <1>13, BecomesMoves
<1>15. SUFFICES ASSUME ~misframed PROVE RepliesOK(Client', executed)
  BY <1>3 DEF RepliesInv
<1>16. Len(node.conns) <= MaxConn
  BY <1>5, <1>14, BothClients DEF MovesOn, Moves
<1>17. RepliesOK(Client, executed)
  BY <1>15, <1>16 DEF RepliesInv
<1>18. RepliesOK(n, executed)
  BY <1>1, <1>4, <1>5, <1>17, NewExecutorOrder
<1>19. executed \in [1 .. MaxConn -> Nat]
  BY BothClients
<1> QED
  BY <1>4, <1>14, <1>18, <1>19, MovesKeep DEF MovesOn

\* At the start nothing is on the way.
LEMMA RepliesStart ==
  ASSUME GuiInit
  PROVE  RepliesInv
<1>1. PICK up \in BOOLEAN :
        LET c == startCommunication([ex |-> <<commandExecutor>>, working |-> FALSE,
                   nd |-> [up |-> up, sessions |-> 0, requests |-> 0, conns |-> <<>>]], 1)
        IN  executors = c.ex /\ node = c.nd /\ m_is_working = c.working
  BY Zenon DEF GuiInit
<1> DEFINE n == [up |-> up, sessions |-> 0, requests |-> 0, conns |-> <<>>]
           a == [ex |-> <<commandExecutor>>, working |-> FALSE, nd |-> n]
           c == startCommunication(a, 1)
<1>2. executors = c.ex /\ node = c.nd /\ m_is_working = c.working
  BY <1>1
<1>3. a \in Clients /\ DOMAIN a.ex = {1} /\ ClientOK(a, <<>>) /\ CounterOK(a)
  BY FirstClient
<1>4. a.ex[1] = commandExecutor /\ a.nd.conns = <<>>
  OBVIOUS
<1> HIDE DEF a
<1>5. executed = [k \in 1 .. MaxConn |-> 0]
  BY DEF GuiInit
<1>6. /\ c \in Clients /\ OwnConns(c) /\ OwnConns(a) /\ Moves(a, c)
  <2>1. <<>> \in Seq(Nat) /\ 1 \in DOMAIN a.ex
    BY <1>3
  <2> QED
    BY <1>3, <2>1, HelloKeeps, HelloMoves DEF ClientOK
<1> HIDE DEF c
<1>7. Client = c
  BY <1>2, <1>6, ClientForm DEF Client
<1>8. RepliesOK(a, executed)
  <2>1. /\ commandExecutor.conn = 0 /\ commandExecutor.m_last_command = <<>>
        /\ commandExecutor.m_internal_buffer = <<>>
        /\ commandExecutor.back = <<>> /\ commandExecutor.missing = 0
    BY DEF commandExecutor
  <2>2. <<>> \o <<>> = <<>>
    OBVIOUS
  <2>3. Flow(a, 1) = <<>>
    BY <1>4, <2>1, <2>2 DEF Flow, OnWay, Held
  <2>4. Tags(<<>>) = {}
    BY DEF Tags
  <2>5. Numbers(a, 1) = {}
    BY <1>4, <2>1, <2>3, <2>4 DEF Numbers
  <2>6. InOrder(<<>>, executed) /\ ReaderOK(a.ex[1], executed)
    BY <1>4, <2>1 DEF InOrder, ReaderOK
  <2>7. \A j \in 1 .. MaxConn : executed[j] = 0
    BY <1>5
  <2> QED
    BY <1>3, <1>4, <2>1, <2>3, <2>5, <2>6, <2>7 DEF RepliesOK
<1>9. executed \in [1 .. MaxConn -> Nat]
  BY <1>5
<1>10. ASSUME Len(node.conns) <= MaxConn PROVE RepliesOK(Client, executed)
  BY <1>2, <1>3, <1>6, <1>7, <1>8, <1>9, <1>10, MovesKeep
<1> QED
  BY <1>10 DEF RepliesInv

\* Every step keeps the order, and executes the next reply or none.
LEMMA RepliesStep ==
  ASSUME GuiInv, RepliesInv, [GuiNext]_guiVars
  PROVE  RepliesInv' /\ OneMore
<1>0. GuiInv' /\ ClientInv /\ ListInv
  BY GuiStep DEF GuiInv
<1>1. ASSUME Unread, RepliesInv' PROVE RepliesInv' /\ OneMore
  <2>1. executed' = executed
    BY <1>1 DEF Unread
  <2> QED
    BY <1>1, <2>1 DEF OneMore
<1>2. CASE UNCHANGED guiVars
  <2>1. UNCHANGED <<executors, node, m_is_working>> /\ Unread
    BY <1>2 DEF guiVars, Unread
  <2> QED
    BY <1>1, <2>1, IdleStep
<1>3. CASE User
  <2>1. Unread
    BY <1>3 DEF User, addActionSlot, connectToNet, contextMenuEvent, banActionSlot, removeActionSlot,
                BoxRefused, banAllSlot, deleteAllSlot, on_ping_clicked, resetConnection,
                startNewCrpcConnection
  <2>2. CASE \/ \E cmd \in PeerCommands, v \in Vips : Request(cmd, v)
             \/ \E cmd \in PlainCommands : PlainRequest(cmd)
    BY <1>0, <1>1, <2>1, <2>2, RequestOrder
  <2>3. CASE \E v \in Vips : addActionSlot(v) \/ connectToNet(v)
    BY <2>2, <2>3 DEF addActionSlot, connectToNet, PeerCommands
  <2>4. CASE \/ \E i \in 1 .. Len(peers), what \in {"ban", "remove"} : contextMenuEvent(i, what)
             \/ BoxRefused
    <3>1. UNCHANGED <<executors, node, m_is_working>>
      BY <2>4 DEF contextMenuEvent, BoxRefused
    <3> QED
      BY <1>1, <2>1, <3>1, IdleStep
  <2>5. CASE banActionSlot \/ removeActionSlot
    <3>1. selected # <<>>
      BY <2>5 DEF banActionSlot, removeActionSlot
    <3>2. selected[3] \in Vips /\ peers[selected[2]].vip = selected[3]
      BY <1>0, <3>1 DEF ListInv, SelectedOK, SelectionHolds
    <3>3. CASE banActionSlot
      BY <2>2, <3>2, <3>3 DEF banActionSlot, PeerCommands
    <3>4. CASE removeActionSlot
      BY <2>2, <3>2, <3>4 DEF removeActionSlot, PeerCommands
    <3> QED
      BY <2>5, <3>3, <3>4
  <2>6. CASE banAllSlot \/ deleteAllSlot \/ on_ping_clicked
    BY <2>2, <2>6 DEF banAllSlot, deleteAllSlot, on_ping_clicked, PlainCommands
  <2>7. CASE resetConnection \/ startNewCrpcConnection
    BY <1>0, <1>1, <2>1, <2>7, ResetOrder, SettingsOrder
  <2> QED
    BY <1>3, <2>3, <2>4, <2>5, <2>6, <2>7 DEF User
<1>4. ASSUME NEW e \in 1 .. Len(executors), timer_slot(e) PROVE RepliesInv' /\ OneMore
  <2>1. Becomes(sendCommand(Client, e, "get_status", NoPeer)) /\ Unread
    BY <1>4 DEF timer_slot
  <2>2. "get_status" \in Commands /\ "get_status" \notin NamesPeer /\ NoPeer \in Vips \cup {NoPeer}
    BY DEF Commands, PlainCommands, NamesPeer
  <2>3. e \in DOMAIN executors
    BY <1>0, CurExists
  <2>4. RepliesInv'
    BY <1>0, <2>1, <2>2, <2>3, SendOrder
  <2> QED
    BY <1>1, <2>1, <2>4
<1>5. CASE \/ \E k \in 1 .. Len(node.conns) : NodeAnswer(k) \/ NodeClose(k)
           \/ NodeRestart
  <2>1. Unread
    BY <1>5 DEF NodeAnswer, NodeClose, NodeRestart
  <2> QED
    BY <1>0, <1>1, <1>5, <2>1, NodeOrder
<1>6. CASE \E e \in 1 .. Len(executors) : \E n \in 1 .. 3 : onTcpReceive(e, n)
  BY <1>6, ReceiveOrder
<1> QED
  BY <1>2, <1>3, <1>4, <1>5, <1>6 DEF GuiNext

\* While every frame read was a reply, the replies of a connection are executed in the
\* order they were sent and none is skipped, wherever readyRead cuts the stream, whatever
\* a connection that ended left in the buffer, and however often the program connects
\* again (dataeater.cpp:19, netclient.cpp:65).
THEOREM RepliesInSequence == Spec => NoReplySkipped
<1>1. GuiInit => RepliesInv
  BY RepliesStart
<1>2. GuiInv /\ RepliesInv /\ [GuiNext]_guiVars => RepliesInv' /\ OneMore
  BY RepliesStep
<1>3. GuiSpec => [][OneMore]_guiVars
  BY <1>1, <1>2, GuiInvariant, PTL DEF GuiSpec
<1>4. OneMore <=> (~misframed' => \A c \in DOMAIN executed : executed'[c] \in {executed[c], executed[c] + 1})
  BY DEF OneMore
<1> QED
  BY <1>3, <1>4, BothEnds, PTL DEF NoReplySkipped
=============================================================================
