-------------------------- MODULE RouteForestProofs -------------------------
(***************************************************************************)
(* The forest of next hops has no loops, for any set of nodes, finite or   *)
(* not. LoopFree is not inductive: a node that learns its next hop could   *)
(* close a loop if another node already pointed to it. Grounded excludes   *)
(* that: a node without a next hop is nobody's next hop.                   *)
(***************************************************************************)
EXTENDS RouteForest, TLAPS

IInv == TypeOK /\ Grounded /\ LoopFree

\* All hops are empty at first.
LEMMA InitForest == Init => IInv
BY DEF Init, IInv, TypeOK, Grounded, LoopFree

\* Learning keeps the types and Grounded.
LEMMA LearnGrounded ==
  ASSUME TypeOK, Grounded, NEW n \in Node, NEW g \in Node, NEW h \in Node, Learn(n, g, h)
  PROVE  TypeOK' /\ Grounded'
<1>1. TypeOK'
  BY DEF TypeOK, Learn
<1>2. \A m, k \in Node : hop'[m][k] = IF m = n /\ k = g THEN {h} ELSE hop[m][k]
  BY DEF TypeOK, Learn
<1>3. Grounded'
  BY <1>1, <1>2 DEF Grounded, Learn, TypeOK
<1> QED BY <1>1, <1>3

\* A set that is closed under the new next hops, taken without the node that
\* learned, was closed under the old ones.
LEMMA LearnLoopFree ==
  ASSUME IInv, NEW n \in Node, NEW g \in Node, NEW h \in Node, Learn(n, g, h)
  PROVE  LoopFree'
<1>1. \A m, k \in Node : hop'[m][k] = IF m = n /\ k = g THEN {h} ELSE hop[m][k]
  BY DEF IInv, TypeOK, Learn
<1> SUFFICES ASSUME NEW k \in Node, NEW S \in SUBSET (Node \ {k}), S # {},
                    \A m \in S : hop'[m][k] \cap S # {}
             PROVE  FALSE
  BY DEF LoopFree
<1>2. CASE k # g \/ n \notin S
  <2>1. \A m \in S : hop[m][k] \cap S # {}
    BY <1>1, <1>2
  <2> QED BY <2>1 DEF IInv, LoopFree
<1>3. CASE k = g /\ n \in S
  <2>1. h \in S /\ h # n
    BY <1>1, <1>3 DEF Learn
  <2>2. ASSUME NEW m \in S \ {n} PROVE hop[m][k] \cap (S \ {n}) # {}
    <3>1. PICK x \in S : x \in hop[m][k]
      BY <1>1, <2>2
    <3>2. x # n
      BY <1>3, <3>1, <2>2 DEF IInv, Grounded, Learn
    <3> QED BY <3>1, <3>2
  <2>3. S \ {n} \in SUBSET (Node \ {k}) /\ S \ {n} # {}
    BY <2>1
  <2> QED BY <2>2, <2>3 DEF IInv, LoopFree
<1> QED BY <1>2, <1>3

\* Stored next hops never form a loop.
THEOREM ForestLoopFree == Spec => []LoopFree
<1>1. IInv /\ [Next]_hop => IInv'
  <2> SUFFICES ASSUME IInv, [Next]_hop PROVE IInv'
    OBVIOUS
  <2>1. ASSUME NEW n \in Node, NEW g \in Node, NEW h \in Node, Learn(n, g, h)
        PROVE  IInv'
    <3>1. TypeOK' /\ Grounded'
      BY <2>1, LearnGrounded DEF IInv
    <3>2. LoopFree'
      BY <2>1, LearnLoopFree
    <3> QED BY <3>1, <3>2 DEF IInv
  <2>2. CASE UNCHANGED hop
    <3>1. TypeOK' /\ Grounded'
      BY <2>2 DEF IInv, TypeOK, Grounded
    <3>2. LoopFree'
      BY <2>2, Zenon DEF IInv, LoopFree
    <3> QED BY <3>1, <3>2 DEF IInv
  <2> QED BY <2>1, <2>2 DEF Next
<1>2. IInv => LoopFree
  BY DEF IInv
<1> QED BY InitForest, <1>1, <1>2, PTL DEF Spec
=============================================================================
