------------------------------- MODULE MCRpcGui -------------------------------
(***************************************************************************)
(* Both ends of the node's RPC interface for TLC: the server with clients  *)
(* that send anything, and the Qt client with a node that answers as the   *)
(* server does.  A behaviour explores one of them, so that the states of   *)
(* the two add up instead of multiplying.                                  *)
(***************************************************************************)
EXTENDS RpcServer, GuiClient

CONSTANT Parts  \* the ends this run explores

VARIABLE part

Init == part \in Parts /\ RpcInit /\ GuiInit /\ (part = "rpc" => node.up)

RpcPart == part = "rpc" /\ RpcNext /\ UNCHANGED <<guiVars, part>>
GuiPart == part = "gui" /\ GuiNext /\ UNCHANGED <<rpcVars, part>>

Next == RpcPart \/ GuiPart

Spec == Init /\ [][Next]_<<rpcVars, guiVars, part>> /\ RpcFairness

\* The sessions, buffers and ids of both ends keep their shape.
TypeOK == (part = "rpc" => RpcTypeOK) /\ (part = "gui" => GuiTypeOK)
==============================================================================
