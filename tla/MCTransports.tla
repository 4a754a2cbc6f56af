---------------------------- MODULE MCTransports ----------------------------
(***************************************************************************)
(* Model checking of what moves packets outside of the old event loop: the *)
(* network model, its crypto benchmark, the measuring tools, and the cables *)
(* with the shared-memory socket, the service manager and the container    *)
(* they use.  Each is a program, or an object, of its own: a behaviour is  *)
(* one of one part, and the variables of the others keep their first value. *)
(***************************************************************************)
EXTENDS NetModel, CryptoBench, NetTools, Cables

CONSTANT Parts
VARIABLE part

mcvars == <<part, netVars, benchVars, toolVars, turboVars, siomVars, vectorVars>>

\* The command lines belong to the parts that read them.
MCInit ==
  /\ part \in Parts
  /\ NetInit /\ BenchInit /\ ToolInit /\ TurboInit /\ SiomInit /\ VectorInit
  /\ part # "netmodel" => option = [required |-> FALSE, tuntap |-> FALSE, mt |-> {},
                                    unknown |-> FALSE, async |-> FALSE, real |-> FALSE]
  /\ part # "send" => arg = [argc |-> 8, remote |-> TRUE, count |-> 0, limit |-> FALSE]

Net == part = "netmodel" /\ NetNext
         /\ UNCHANGED <<part, benchVars, toolVars, turboVars, siomVars, vectorVars>>
Bench == part = "bench" /\ BenchNext
         /\ UNCHANGED <<part, netVars, toolVars, turboVars, siomVars, vectorVars>>
Send == part = "send" /\ SendNext
         /\ UNCHANGED <<part, netVars, benchVars, turboVars, siomVars, vectorVars>>
Recv == part = "recv" /\ RecvNext
         /\ UNCHANGED <<part, netVars, benchVars, turboVars, siomVars, vectorVars>>
Turbo == part = "turbo" /\ TurboNext
         /\ UNCHANGED <<part, netVars, benchVars, toolVars, siomVars, vectorVars>>
Siom == part = "siom" /\ SiomNext
         /\ UNCHANGED <<part, netVars, benchVars, toolVars, turboVars, vectorVars>>
Vector == part = "vector" /\ VectorNext
         /\ UNCHANGED <<part, netVars, benchVars, toolVars, turboVars, siomVars>>

MCNext == Net \/ Bench \/ Send \/ Recv \/ Turbo \/ Siom \/ Vector

MCSpec == MCInit /\ [][MCNext]_mcvars /\ NetFairness /\ BenchFairness /\ SiomFairness

\* Every part keeps its types; among them the table of a timer, which is cleared
\* before it has m_step_till_reset samples (c_timerfoo::step).
TypeOK == NetTypeOK /\ BenchTypeOK /\ ToolTypeOK /\ CablesTypeOK

\* A weld is read into or sent by one holder at a time, a free one has room, and
\* every packet is in one place (get_tun_input_buffer, send_to_global_weld and
\* the handlers of func_send_weld in netmodel.cpp).
WeldsAreExclusive == WeldHasOneHolder /\ FreeWeldHasRoom /\ PacketsInOnePlace

\* What the tools measure is what happened: counts are exact, the median is the
\* middle, the benchmark stays in its buffers and starts all threads at once
\* (tools_helper.hpp, asio_send_block.cpp, run_test_4buf in netmodel.cpp).
ToolsAreExact == CountsAreExact /\ MedianIsMiddle /\ BenchInBounds /\ StartTogether

\* A card gets a service that runs, and an element that was found to match still
\* matches when it is used (asio_ioservice_manager.cpp, vector_mutexed_obj.hpp).
SharedObjectsHold == CardsAreServed /\ MatchedOnUse

\* Threads end: those of the network model once it is told to exit, every
\* measurement of the benchmark, and the destructor of the service manager.
ThreadsEnd == WireThreadsEnd /\ BenchEnds /\ SiomJoins
=============================================================================
