---------------------------- MODULE MCPeerTable -----------------------------
(* Model-checking instance of PeerTable. *)
EXTENDS PeerTable, TLC

\* Two remote nodes: the one that a handler works on and one more.
CONSTANTS h1, h2, p1

MCHip == {h1, h2}
MCPip == {p1}

Symmetry == Permutations(MCHip)
=============================================================================
