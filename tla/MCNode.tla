------------------------------- MODULE MCNode -------------------------------
(***************************************************************************)
(* Model checking of the parts of a node below its routing: how it starts, *)
(* its keys and tunnels, its devices, its statistics, and the formats that *)
(* it reads and writes.  They share no variable: a behaviour is one of one *)
(* part, and the variables of the others keep a first value.               *)
(***************************************************************************)
EXTENDS ProgramStart, CryptoTunnel, Multikeys, TunDevice, EventDevices, DebugStats,
        Serialization, SafeNumbers, TunFrames, PeerReferences

CONSTANT Parts
VARIABLE part

\* Every part that is run is one of those below.
ASSUME PartsAssumption ==
  Parts \subseteq {"start", "tunnel", "keys", "tundevice", "events", "debug", "serial", "numbers",
                   "frames", "references"}

nodeVars == <<part, startVars, tunnelVars, multikeysVars, tunDeviceVars, eventVars, debugVars,
              serialVars, numberVars, frameVars, referenceVars>>

MCTexts == {<<>>, <<3, 0>>, <<1, 1, 1>>}

\* One first state of the parts that have many, for the behaviours of the others.
IdleTunnel == IDC = [s \in Side |-> ID(<<s, "IDC">>, [sys \in Systems |-> 0], IF s = "A" THEN 1 ELSE 2)]
IdleEvents == flavour = "select" /\ m_disabled = FALSE /\ failed = [udp |-> {}, tun |-> {}]
IdleNumbers == LET t == CHOOSE t \in Types : TRUE IN ta = t /\ tb = t /\ a = 0 /\ b = 0

MCInit ==
  /\ part \in Parts
  /\ IF part = "tunnel" THEN TRUE ELSE IdleTunnel
  /\ IF part = "events" THEN TRUE ELSE IdleEvents
  /\ IF part = "numbers" THEN TRUE ELSE IdleNumbers
  /\ IF part = "tundevice" THEN TRUE ELSE platform = "linux"
  /\ IF part = "frames" THEN TRUE ELSE system = "ndp"
  /\ StartInit /\ TunnelInit /\ MultikeysInit /\ TunDeviceInit /\ EventInit /\ DebugInit
  /\ SerialInit /\ NumberInit /\ FrameInit /\ ReferenceInit

Start == part = "start" /\ StartNext
           /\ UNCHANGED <<part, tunnelVars, multikeysVars, tunDeviceVars, eventVars, debugVars,
                          serialVars, numberVars, frameVars, referenceVars>>
Tunnel == part = "tunnel" /\ TunnelNext
           /\ UNCHANGED <<part, startVars, multikeysVars, tunDeviceVars, eventVars, debugVars,
                          serialVars, numberVars, frameVars, referenceVars>>
Keys == part = "keys" /\ MultikeysNext
           /\ UNCHANGED <<part, startVars, tunnelVars, tunDeviceVars, eventVars, debugVars,
                          serialVars, numberVars, frameVars, referenceVars>>
Device == part = "tundevice" /\ TunDeviceNext
           /\ UNCHANGED <<part, startVars, tunnelVars, multikeysVars, eventVars, debugVars,
                          serialVars, numberVars, frameVars, referenceVars>>
Events == part = "events" /\ EventNext
           /\ UNCHANGED <<part, startVars, tunnelVars, multikeysVars, tunDeviceVars, debugVars,
                          serialVars, numberVars, frameVars, referenceVars>>
Debug == part = "debug" /\ DebugNext
           /\ UNCHANGED <<part, startVars, tunnelVars, multikeysVars, tunDeviceVars, eventVars,
                          serialVars, numberVars, frameVars, referenceVars>>
Serial == part = "serial" /\ SerialNext
           /\ UNCHANGED <<part, startVars, tunnelVars, multikeysVars, tunDeviceVars, eventVars,
                          debugVars, numberVars, frameVars, referenceVars>>
Number == part = "numbers" /\ NumberNext
           /\ UNCHANGED <<part, startVars, tunnelVars, multikeysVars, tunDeviceVars, eventVars,
                          debugVars, serialVars, frameVars, referenceVars>>
Frame == part = "frames" /\ FrameNext
           /\ UNCHANGED <<part, startVars, tunnelVars, multikeysVars, tunDeviceVars, eventVars,
                          debugVars, serialVars, numberVars, referenceVars>>
Reference == part = "references" /\ ReferenceNext
           /\ UNCHANGED <<part, startVars, tunnelVars, multikeysVars, tunDeviceVars, eventVars,
                          debugVars, serialVars, numberVars, frameVars>>

MCNext == Start \/ Tunnel \/ Keys \/ Device \/ Events \/ Debug \/ Serial \/ Number \/ Frame \/ Reference

MCSpec == MCInit /\ [][MCNext]_nodeVars

\* The tunnels as the tunserver makes them.
NodeTunnelSpec ==
  MCInit /\ [][NodeTunnelNext /\ UNCHANGED <<part, startVars, multikeysVars, tunDeviceVars, eventVars,
                                             debugVars, serialVars, numberVars, frameVars,
                                             referenceVars>>]_nodeVars

-----------------------------------------------------------------------------
\* Every part keeps its types and stays in its bounds.
TypeOK ==
  CASE part = "start" -> StartTypeOK
    [] part = "tunnel" -> TunnelTypeOK
    [] part = "keys" -> MultikeysTypeOK
    [] part = "tundevice" -> TunDeviceTypeOK
    [] part = "events" -> EventTypeOK
    [] part = "debug" -> DebugTypeOK
    [] part = "serial" -> SerialTypeOK
    [] part = "numbers" -> NumberTypeOK
    [] part = "frames" -> FrameTypeOK
    [] part = "references" -> ReferenceTypeOK

\* The hash that is the node's address is that of the keys it has now, over every order of
\* generating, saving and loading; and multi_sign_verify accepts a signature only for the
\* very keys that made it (multikeys.cpp).
SignaturesAreSound == part = "keys" => HashIsFresh /\ VerifiedMeansSigned

\* What the devices do and what they cost: the loop is given datagrams and frames once and
\* in order, whole but for a receive that failed on Linux and a buffer that Windows fills
\* meanwhile, and it loses no frame and, with asio, at most one datagram for every frame; the
\* search leaves no registry key open but one that the new wrapper takes for the one it had,
\* and the card that is used is ours; the statistics of a direction are what was counted
\* until the http thread and the loop race on them (c_event_manager.cpp, c_udp_wrapper.cpp,
\* c_tun_device.cpp, c_tuntap_windows.cpp, peering_stats.cpp).
DevicesReadWhole ==
  /\ part = "events" => LoopReadsWhole /\ LossesBounded
  /\ part = "tundevice" => RegistryClosed /\ CardIsOurs
  /\ part = "debug" => WindowIsHistory

\* What is written is read back as it was, a computation that does not throw has the exact
\* result, frames keep their addresses, and a peer reference is split into its parts
\* (trivialserialize, stdplus/eint.hpp, tuntap, galaxysrv_peers.cpp).
CodecsAreExact ==
  /\ part = "serial" => RoundTrip
  /\ part = "numbers" => EintIsExact
  /\ part = "frames" => FramesAreExact
  /\ part = "references" => ReferenceIsExact
=============================================================================
