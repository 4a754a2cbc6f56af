----------------------------- MODULE RouteForest ----------------------------
(***************************************************************************)
(* What the routing tables of all nodes promise together: for each goal,   *)
(* the next hops form a forest that only grows. A node learns one next hop *)
(* per goal, from a neighbour that is the goal or already has a next hop,  *)
(* and keeps it.                                                           *)
(***************************************************************************)
CONSTANT Node

\* hop[n][g] is the set of the next hop of n towards g: empty or one node.
VARIABLE hop

Init == hop = [n \in Node |-> [g \in Node |-> {}]]

\* n learns that it reaches g via h.
Learn(n, g, h) ==
  /\ n # g
  /\ hop[n][g] = {}
  /\ h = g \/ hop[h][g] # {}
  /\ hop' = [hop EXCEPT ![n][g] = {h}]

Next == \E n, g, h \in Node : Learn(n, g, h)

Spec == Init /\ [][Next]_hop

TypeOK == hop \in [Node -> [Node -> SUBSET Node]]

\* A node other than the goal that is a next hop has a next hop itself.
Grounded ==
  \A n, g \in Node : \A h \in hop[n][g] : h = g \/ hop[h][g] # {}

\* There is no set of nodes in which a packet for g, always passed on to the
\* next hop, could go round for ever.
LoopFree ==
  \A g \in Node : \A S \in SUBSET (Node \ {g}) :
    S # {} => \E n \in S : hop[n][g] \cap S = {}
=============================================================================
