-------------------------- MODULE PeerTableProofs ---------------------------
(***************************************************************************)
(* Proofs about PeerTable, for any set of addresses, any time-out and any  *)
(* interval. TypeOK is not inductive: recurse_level stays within its range *)
(* because get_route_or_maybe_search() is only reached below the limit     *)
(* (RecurseBound). MainKeepsWhatItHolds rests on the fact that the main    *)
(* thread holds no reference while it is between two packets (NothingHeld).*)
(***************************************************************************)
EXTENDS PeerTable, TLAPS

\* The places from which one more level of routing may be entered.
RecurseBound ==
  main.at \in {"identify", "lookup", "use_goal"} => main.level < 2

\* No reference survives the packet it was taken for.
NothingHeld == main \in MainLoop => held = NoneHeld

\* A tunnel comes out of an agreement only.
TunnelsAgreed == m_tunnel \cap Unagreeable = {}

IInv ==
  TypeOK /\ RecurseBound /\ NothingHeld /\ TunnelsAgreed /\ KeyedPeerHasTunnel

USE PeerTableAssumption, NoHipAssumption, NoPeerAssumption, NoRefAssumption

-----------------------------------------------------------------------------
\* Facts about the map and the references.

\* m_peer.erase leaves a well-typed map and well-typed references.
LEMMA EraseType ==
  ASSUME TypeOK, NEW hips \in SUBSET Hip, Erase(hips)
  PROVE  /\ m_peer' \in [Hip -> Peering \cup {NoPeer}]
         /\ held' \in [Roles -> Ref \cup {NoRef}]
<1>1. m_peer' \in [Hip -> Peering \cup {NoPeer}]
  BY DEF Erase, TypeOK
<1>2. ASSUME NEW r \in Roles PROVE
        (IF held[r] # NoRef /\ held[r].hip \in hips
           THEN [held[r] EXCEPT !.live = FALSE] ELSE held[r]) \in Ref \cup {NoRef}
  BY DEF TypeOK, Ref
<1>3. held' \in [Roles -> Ref \cup {NoRef}]
  BY <1>2 DEF Erase
<1> QED BY <1>1, <1>3

\* A thread that holds nothing holds nothing after an erase.
LEMMA EraseNoneHeld ==
  ASSUME NEW hips \in SUBSET Hip, Erase(hips), held = NoneHeld
  PROVE  held' = NoneHeld
BY DEF Erase, NoneHeld

\* A freshly made c_peering and the entry written by a "hi" are well typed.
LEMMA PeeringType ==
  ASSUME NEW pip \in Pip
  PROVE  /\ c_peering(pip) \in Peering
         /\ [pip |-> pip, pubkey |-> TRUE, age |-> 0] \in Peering
<1>1. 0 \in 0..MaxAge
  BY DEF MaxAge
<1> QED BY <1>1 DEF c_peering, Peering

\* The initial states.
LEMMA InitIInv == Init => IInv
<1> SUFFICES ASSUME Init PROVE IInv OBVIOUS
<1>1. m_peer \in [Hip -> Peering \cup {NoPeer}]
  BY PeeringType DEF Init
<1>2. main \in MainLoop
  BY DEF Init, MainLoop, LoopPlaces
<1>3. held \in [Roles -> Ref \cup {NoRef}]
  BY DEF Init, NoneHeld
<1>4. ping_timer \in 0..MaxTimer /\ ping_all_count \in 0..ping_all_count_low
  BY DEF Init, MaxTimer, ping_all_count_low
<1>5. TypeOK
  BY <1>1, <1>2, <1>3, <1>4 DEF Init, TypeOK
<1>6. RecurseBound /\ NothingHeld
  BY DEF Init, RecurseBound, NothingHeld
<1>7. KeyedPeerHasTunnel
  BY DEF Init, KeyedPeerHasTunnel, Peers, c_peering
<1>8. TunnelsAgreed
  BY DEF Init, TunnelsAgreed
<1> QED BY <1>5, <1>6, <1>7, <1>8 DEF IInv

-----------------------------------------------------------------------------
\* Typing and the control of the main thread: one step per action.

\* main.at is a plain update of the record.
LEMMA MainMoves ==
  ASSUME TypeOK, NEW place, MainGoes(place)
  PROVE  /\ main \in MainLoop /\ place \in LoopPlaces => main' \in MainLoop
         /\ main \in MainBusy /\ place \in BusyPlaces => main' \in MainBusy
         /\ main'.at = place /\ main'.level = main.level
BY DEF MainGoes, TypeOK, MainLoop, MainBusy

\* At each place the record of the main thread is of the kind of that place.
LEMMA MainKind ==
  ASSUME TypeOK
  PROVE  /\ main.at \in LoopPlaces => main \in MainLoop
         /\ main.at \in BusyPlaces => main \in MainBusy
BY DEF TypeOK, MainLoop, MainBusy, LoopPlaces, BusyPlaces

\* Back at the top of the loop everything is as between two packets.
LEMMA RestartsType ==
  ASSUME MainRestarts
  PROVE  /\ main' \in MainLoop /\ main'.at = "top"
         /\ held' = NoneHeld
         /\ held' \in [Roles -> Ref \cup {NoRef}]
BY DEF MainRestarts, MainLoop, LoopPlaces, NoneHeld

\* Taking and dropping a reference.
LEMMA HoldType ==
  ASSUME TypeOK, NEW r \in Roles, NEW hip \in Hip
  PROVE  /\ Hold(r, hip) \in [Roles -> Ref \cup {NoRef}]
         /\ Drop(r) \in [Roles -> Ref \cup {NoRef}]
<1>1. [hip |-> hip, live |-> TRUE] \in Ref
  BY DEF Ref
<1> QED BY <1>1 DEF TypeOK, Hold, Drop

\* A record of a packet in work is not one of the loop.
LEMMA BusyNotLoop == MainLoop \cap MainBusy = {}
BY DEF MainLoop, MainBusy, LoopPlaces, BusyPlaces

\* Every step keeps the types, the bound on the recursion and the absence of
\* references between two packets.
LEMMA NextControl ==
  ASSUME TypeOK, RecurseBound, NothingHeld, [Next]_vars
  PROVE  TypeOK' /\ RecurseBound' /\ NothingHeld'
<1> USE DEF RecurseBound, NothingHeld
<1>k. /\ main.at \in LoopPlaces => main \in MainLoop
      /\ main.at \in BusyPlaces => main \in MainBusy
  BY MainKind
<1>1. CASE LoopExit
  <2>1. main \in MainLoop /\ main' \in MainLoop /\ main'.at = "ended"
    BY <1>1, <1>k, MainMoves DEF LoopExit, MainAt, LoopPlaces
  <2> QED BY <1>1, <2>1 DEF LoopExit, TypeOK, options, timers
<1>2. CASE peering_ping_all_peers
  <2>1. main \in MainLoop /\ main' \in MainLoop /\ main'.at = "wait"
    BY <1>2, <1>k, MainMoves DEF peering_ping_all_peers, MainAt, LoopPlaces
  <2>2. TimedOut \in SUBSET Hip /\ Erase(TimedOut)
    BY <1>2 DEF TimedOut, Peers, peering_ping_all_peers
  <2>3. ping_timer' \in 0..MaxTimer /\ ping_all_count' \in 0..ping_all_count_low
    BY <1>2 DEF peering_ping_all_peers, TypeOK, MaxTimer, ping_all_count_low
  <2>4. held' = NoneHeld
    BY <2>1, <2>2, EraseNoneHeld
  <2> QED BY <1>2, <2>1, <2>2, <2>3, <2>4, EraseType
          DEF peering_ping_all_peers, TypeOK, options
<1>3. CASE LoopNoPing
  <2>1. main \in MainLoop /\ main' \in MainLoop /\ main'.at = "wait"
    BY <1>3, <1>k, MainMoves DEF LoopNoPing, MainAt, LoopPlaces
  <2> QED BY <1>3, <2>1 DEF LoopNoPing, TypeOK, options, timers
<1>4. CASE IdleOrRefused
  <2>1. main \in MainLoop /\ main' \in MainLoop /\ main'.at = "top"
    BY <1>4, <1>k, MainMoves DEF IdleOrRefused, MainAt, LoopPlaces
  <2> QED BY <1>4, <2>1 DEF IdleOrRefused, TypeOK, options, timers
<1>5. ASSUME NEW hip \in Hip, NEW pip \in Pip, RecvHi(hip, pip)
      PROVE  TypeOK' /\ RecurseBound' /\ NothingHeld'
  <2>1. main \in MainLoop /\ main' \in MainLoop /\ main'.at = "top"
    BY <1>5, <1>k, MainMoves DEF RecvHi, MainAt, LoopPlaces
  <2>2. m_peer' \in [Hip -> Peering \cup {NoPeer}]
    BY <1>5, PeeringType DEF RecvHi, add_peer_append_pubkey, TypeOK
  <2>3. m_tunnel' \in SUBSET Hip
    BY <1>5 DEF RecvHi, add_tunnel_to_pubkey, TypeOK
  <2> QED BY <1>5, <2>1, <2>2, <2>3 DEF RecvHi, TypeOK, options, timers
<1>6. ASSUME NEW goal \in Hip, RecvTun(goal)
      PROVE  TypeOK' /\ RecurseBound' /\ NothingHeld'
  <2>1. main' \in MainBusy /\ main'.at = "route"
    BY <1>6 DEF RecvTun, MainBusy, BusyPlaces, Commands, Levels
  <2> QED BY <1>6, <2>1, BusyNotLoop DEF RecvTun, TypeOK, options, timers
<1>7. ASSUME NEW cmd \in Commands, NEW goal \in Hip, NEW pip \in Pip,
             RecvFromPeer(cmd, goal, pip)
      PROVE  TypeOK' /\ RecurseBound' /\ NothingHeld'
  <2>1. main' \in MainBusy /\ main'.level = 0
    BY <1>7 DEF RecvFromPeer, MainBusy, BusyPlaces, Levels
  <2>2. held' \in [Roles -> Ref \cup {NoRef}]
    BY <1>7, HoldType DEF RecvFromPeer, Peers, Roles
  <2> QED BY <1>7, <2>1, <2>2, BusyNotLoop DEF RecvFromPeer, TypeOK, options, timers
<1>8. CASE Identify
  <2>1. main \in MainBusy /\ main.level < 2
    BY <1>8, <1>k DEF Identify, MainAt, BusyPlaces
  <2>2. m_tunnel' \in SUBSET Hip
    BY <1>8, <2>1 DEF Identify, add_tunnel_to_pubkey, TypeOK, MainBusy
  <2>3. CASE MainRestarts
    BY <1>8, <2>2, <2>3, RestartsType DEF Identify, TypeOK, options, timers
  <2>4. CASE /\ MainGoes("limit") \/ MainGoes("lookup") \/ MainGoes("route")
             /\ held' = held \/ held' = Drop("sender")
    <3>1. main' \in MainBusy /\ main'.level < 2
      BY <2>1, <2>4, MainMoves DEF BusyPlaces
    <3>2. held' \in [Roles -> Ref \cup {NoRef}]
      BY <2>1, <2>4, HoldType DEF TypeOK, Roles, MainBusy
    <3> QED BY <1>8, <2>2, <3>1, <3>2, BusyNotLoop
            DEF Identify, TypeOK, options, timers
  <2> QED BY <1>8, <2>3, <2>4 DEF Identify
<1>9. CASE Limit
  <2>1. main \in MainBusy
    BY <1>9, <1>k DEF Limit, MainAt, BusyPlaces
  <2>2. CASE MainRestarts
    BY <1>9, <2>2, RestartsType DEF Limit, TypeOK, options, timers
  <2>3. CASE MainGoes("route") /\ held' = Drop("sender")
    <3>1. main' \in MainBusy /\ main'.at = "route"
      BY <2>1, <2>3, MainMoves DEF BusyPlaces
    <3>2. held' \in [Roles -> Ref \cup {NoRef}]
      BY <2>1, <2>3, HoldType DEF Roles, MainBusy
    <3> QED BY <1>9, <3>1, <3>2, BusyNotLoop DEF Limit, TypeOK, options, timers
  <2> QED BY <1>9, <2>2, <2>3 DEF Limit
<1>10. CASE Route
  <2>1. main \in MainBusy
    BY <1>10, <1>k DEF Route, MainAt, BusyPlaces
  <2>2. CASE MainRestarts
    BY <1>10, <2>2, RestartsType DEF Route, TypeOK, options, timers
  <2>3. CASE MainGoes("send") /\ held' = Hold("target", main.goal)
    <3>1. main' \in MainBusy /\ main'.at = "send"
      BY <2>1, <2>3, MainMoves DEF BusyPlaces
    <3>2. held' \in [Roles -> Ref \cup {NoRef}]
      BY <2>1, <2>3, HoldType DEF Roles, MainBusy
    <3> QED BY <1>10, <3>1, <3>2, BusyNotLoop DEF Route, TypeOK, options, timers
  <2>4. CASE MainGoes("lookup") /\ CanRecurse /\ UNCHANGED held
    <3>1. main' \in MainBusy /\ main'.level < 2
      BY <2>1, <2>4, MainMoves DEF BusyPlaces, CanRecurse
    <3> QED BY <1>10, <2>4, <3>1, BusyNotLoop DEF Route, TypeOK, options, timers
  <2> QED BY <1>10, <2>2, <2>3, <2>4 DEF Route
<1>11. CASE Send
  BY <1>11, RestartsType DEF Send, TypeOK, options, timers
<1>r. ASSUME main \in MainBusy, main.level < 2, RouteFound
      PROVE  main' \in MainBusy /\ main'.at \in {"answer", "route"}
  <2>1. CASE main.cmd = "query"
    BY <1>r, <2>1 DEF RouteFound, MainBusy, BusyPlaces
  <2>2. CASE main.cmd # "query"
    <3>1. PICK via \in Hip :
            main' = [main EXCEPT !.at = "route", !.goal = via, !.level = @ + 1]
      BY <1>r, <2>2 DEF RouteFound
    <3>2. main.level + 1 \in Levels
      BY <1>r DEF MainBusy, Levels
    <3> QED BY <1>r, <3>1, <3>2 DEF MainBusy, BusyPlaces
  <2> QED BY <2>1, <2>2
<1>12. CASE Lookup
  <2>1. main \in MainBusy /\ main.level < 2
    BY <1>12, <1>k DEF Lookup, MainAt, BusyPlaces
  <2>2. CASE MainRestarts
    BY <1>12, <2>2, RestartsType DEF Lookup, TypeOK, options, timers
  <2>3. CASE MainGoes("use_goal") /\ held' = Hold("target", main.goal)
    <3>1. main' \in MainBusy /\ main'.level < 2
      BY <2>1, <2>3, MainMoves DEF BusyPlaces
    <3>2. held' \in [Roles -> Ref \cup {NoRef}]
      BY <2>1, <2>3, HoldType DEF Roles, MainBusy
    <3> QED BY <1>12, <3>1, <3>2, BusyNotLoop DEF Lookup, TypeOK, options, timers
  <2>4. CASE RouteFound /\ UNCHANGED held
    <3>1. main' \in MainBusy /\ main'.at \in {"answer", "route"}
      BY <2>1, <2>4, <1>r
    <3> QED BY <1>12, <2>4, <3>1, BusyNotLoop DEF Lookup, TypeOK, options, timers
  <2> QED BY <1>12, <2>2, <2>3, <2>4 DEF Lookup
<1>13. CASE UseGoal
  <2>1. main \in MainBusy /\ main.level < 2
    BY <1>13, <1>k DEF UseGoal, MainAt, BusyPlaces
  <2>2. CASE MainRestarts
    BY <1>13, <2>2, RestartsType DEF UseGoal, TypeOK, options, timers
  <2>3. CASE RouteFound /\ held' = Drop("target")
    <3>1. main' \in MainBusy /\ main'.at \in {"answer", "route"}
      BY <2>1, <2>3, <1>r
    <3>2. held' \in [Roles -> Ref \cup {NoRef}]
      BY <2>1, <2>3, HoldType DEF Roles, MainBusy
    <3> QED BY <1>13, <3>1, <3>2, BusyNotLoop DEF UseGoal, TypeOK, options, timers
  <2> QED BY <1>13, <2>2, <2>3 DEF UseGoal
<1>14. CASE Answer
  BY <1>14, RestartsType DEF Answer, TypeOK, options, timers
<1>15. CASE Crash
  <2>1. main \in MainBusy
    BY <1>15, <1>k DEF Crash, UsedAt, BusyPlaces
  <2>2. main' \in MainBusy /\ main'.at = "crashed"
    BY <1>15, <2>1, MainMoves DEF Crash, BusyPlaces
  <2> QED BY <1>15, <2>2, BusyNotLoop DEF Crash, TypeOK, options, timers
<1>16. ASSUME NEW hip \in Hip, NEW pip \in Pip, RpcAddPeer(hip, pip)
       PROVE  TypeOK' /\ RecurseBound' /\ NothingHeld'
  <2>1. m_peer' \in [Hip -> Peering \cup {NoPeer}]
    BY <1>16, PeeringType DEF RpcAddPeer, Emplaced, TypeOK
  <2>2. rpc' \in [at : RpcPlaces, hip : Hip]
    BY <1>16 DEF RpcAddPeer, RpcGoes, RpcPlaces
  <2> QED BY <1>16, <2>1, <2>2 DEF RpcAddPeer, TypeOK, options, timers
<1>17. CASE delete_peer_from_black_list
  <2>1. m_peer_black_list' \in SUBSET Hip
    BY <1>17 DEF delete_peer_from_black_list, TypeOK
  <2> QED BY <1>17, <2>1 DEF delete_peer_from_black_list, TypeOK, options, timers
<1>18. ASSUME NEW hip \in Hip, RpcDeletePeer(hip)
       PROVE  TypeOK' /\ RecurseBound' /\ NothingHeld'
  BY <1>18, EraseType, EraseNoneHeld DEF RpcDeletePeer, TypeOK, options, timers
<1>19. ASSUME NEW is_banned \in BOOLEAN, delete_all_peers(is_banned)
       PROVE  TypeOK' /\ RecurseBound' /\ NothingHeld'
  <2>1. m_peer_black_list' \in SUBSET Hip
    BY <1>19 DEF delete_all_peers, TypeOK, Peers
  <2> QED BY <1>19, <2>1, EraseType, EraseNoneHeld
          DEF delete_all_peers, TypeOK, options, timers
<1>20. ASSUME NEW hip \in Hip, RpcBanPeer(hip)
       PROVE  TypeOK' /\ RecurseBound' /\ NothingHeld'
  <2>1. rpc' \in [at : RpcPlaces, hip : Hip]
    BY <1>20 DEF RpcBanPeer, RpcGoes, RpcPlaces
  <2> QED BY <1>20, <2>1 DEF RpcBanPeer, TypeOK, options, timers
<1>21. CASE RpcBanDelete
  <2>1. rpc.hip \in Hip
    BY <1>21 DEF RpcBanDelete, RpcAt, TypeOK, RpcIdle
  <2>2. rpc' \in [at : RpcPlaces, hip : Hip]
    BY <1>21, <2>1 DEF RpcBanDelete, RpcGoes, RpcPlaces
  <2> QED BY <1>21, <2>1, <2>2, EraseType, EraseNoneHeld
          DEF RpcBanDelete, TypeOK, options, timers
<1>22. CASE add_peer_to_black_list
  <2>1. rpc.hip \in Hip
    BY <1>22 DEF add_peer_to_black_list, RpcAt, TypeOK, RpcIdle
  <2>2. m_peer_black_list' \in SUBSET Hip
    BY <1>22, <2>1 DEF add_peer_to_black_list, TypeOK
  <2> QED BY <1>22, <2>2 DEF add_peer_to_black_list, TypeOK, options, timers
<1>23. CASE exit_tunserver
  BY <1>23 DEF exit_tunserver, TypeOK, options, timers
<1>24. CASE Tick
  <2>1. ASSUME NEW h \in Hip, h \in Peers, m_peer[h].age < MaxAge
        PROVE  [m_peer[h] EXCEPT !.age = @ + 1] \in Peering
    BY <2>1 DEF TypeOK, Peering, Peers, MaxAge
  <2>2. m_peer' \in [Hip -> Peering \cup {NoPeer}]
    BY <1>24, <2>1 DEF Tick, TypeOK
  <2>3. ping_timer' \in 0..MaxTimer
    BY <1>24 DEF Tick, TypeOK, MaxTimer
  <2> QED BY <1>24, <2>2, <2>3 DEF Tick, TypeOK, options
<1>25. CASE UNCHANGED vars
  BY <1>25 DEF vars, TypeOK
<1> QED
  BY <1>1, <1>2, <1>3, <1>4, <1>5, <1>6, <1>7, <1>8, <1>9, <1>10, <1>11, <1>12,
     <1>13, <1>14, <1>15, <1>16, <1>17, <1>18, <1>19, <1>20, <1>21, <1>22, <1>23,
     <1>24, <1>25
  DEF Next, MainThread, LoopTop, Receive, Handle, RpcThread

-----------------------------------------------------------------------------
\* How the map changes.

\* Which actions write m_peer or m_tunnel, and how: a "hi", an "add_peer", an
\* erase or a tick; every other step keeps the map and at most adds a tunnel,
\* out of an agreement.
TunnelsGrow ==
  /\ m_tunnel \subseteq m_tunnel'
  /\ (m_tunnel' \ m_tunnel) \cap Unagreeable = {}

LEMMA MapSteps ==
  ASSUME TypeOK, [Next]_vars
  PROVE  \/ \E hip \in Hip, pip \in Pip : RecvHi(hip, pip)
         \/ \E hip \in Hip, pip \in Pip : RpcAddPeer(hip, pip)
         \/ \E hips \in SUBSET Hip : Erase(hips) /\ UNCHANGED m_tunnel
         \/ Tick
         \/ m_peer' = m_peer /\ TunnelsGrow
<1>1. TimedOut \in SUBSET Hip
  BY DEF TimedOut, Peers
<1>2. CASE LoopTop
  BY <1>1, <1>2 DEF LoopTop, LoopExit, peering_ping_all_peers, LoopNoPing, TunnelsGrow
<1>3. CASE Receive
  BY <1>3 DEF Receive, IdleOrRefused, RecvTun, RecvFromPeer, TunnelsGrow
<1>4. CASE Handle
  BY <1>4 DEF Handle, Identify, Limit, Route, Send, Lookup, UseGoal, Answer,
     add_tunnel_to_pubkey, TunnelsGrow
<1>5. CASE Crash
  BY <1>5 DEF Crash, TunnelsGrow
<1>6. CASE RpcBanDelete
  <2>1. rpc.hip \in Hip
    BY <1>6 DEF RpcBanDelete, RpcAt, TypeOK, RpcIdle
  <2> QED BY <1>6, <2>1 DEF RpcBanDelete
<1>7. ASSUME NEW hip \in Hip, RpcDeletePeer(hip)
      PROVE  Erase({hip}) /\ UNCHANGED m_tunnel
  BY <1>7 DEF RpcDeletePeer
<1>8. ASSUME NEW is_banned \in BOOLEAN, delete_all_peers(is_banned)
      PROVE  Erase(Hip) /\ UNCHANGED m_tunnel
  BY <1>8 DEF delete_all_peers
<1>9. CASE RpcThread
  BY <1>6, <1>7, <1>8, <1>9
  DEF RpcThread, delete_peer_from_black_list, RpcBanPeer, add_peer_to_black_list,
      exit_tunserver, TunnelsGrow
<1>10. CASE UNCHANGED vars
  BY <1>10 DEF vars, TunnelsGrow
<1> QED BY <1>2, <1>3, <1>4, <1>5, <1>9, <1>10 DEF Next, MainThread

\* No step makes a tunnel that was not agreed on.
LEMMA NextAgreed ==
  ASSUME TypeOK, TunnelsAgreed, [Next]_vars
  PROVE  TunnelsAgreed'
<1> USE DEF TunnelsAgreed
<1>1. ASSUME NEW hip \in Hip, NEW pip \in Pip, RecvHi(hip, pip)
      PROVE  TunnelsAgreed'
  BY <1>1 DEF RecvHi, add_tunnel_to_pubkey
<1>2. ASSUME NEW hip \in Hip, NEW pip \in Pip, RpcAddPeer(hip, pip)
      PROVE  TunnelsAgreed'
  BY <1>2 DEF RpcAddPeer
<1>3. CASE Tick
  BY <1>3 DEF Tick
<1>4. CASE TunnelsGrow
  BY <1>4 DEF TunnelsGrow
<1> QED BY <1>1, <1>2, <1>3, <1>4, MapSteps

\* A key is in m_peer without its tunnel where no agreement is possible only.
LEMMA NextKeyed ==
  ASSUME TypeOK, KeyedPeerHasTunnel, TunnelsAgreed, [Next]_vars
  PROVE  KeyedPeerHasTunnel'
<1>0. TunnelsAgreed'
  BY NextAgreed
<1> SUFFICES ASSUME NEW h \in Hip, m_peer'[h] # NoPeer, m_peer'[h].pubkey,
                    h \notin Unagreeable
             PROVE  h \in m_tunnel'
  BY <1>0 DEF KeyedPeerHasTunnel, Peers, TunnelsAgreed
<1>1. ASSUME NEW hip \in Hip, NEW pip \in Pip, RecvHi(hip, pip)
      PROVE  h \in m_tunnel'
  <2>1. CASE h # hip
    BY <1>1, <2>1 DEF RecvHi, add_peer_append_pubkey, add_tunnel_to_pubkey,
       KeyedPeerHasTunnel, Peers, TypeOK
  <2>2. CASE h = hip /\ HiThrows(hip)
    BY <1>1, <2>2 DEF RecvHi, add_peer_append_pubkey, HiThrows, KeyedPeerHasTunnel,
       Peers, TypeOK
  <2>3. CASE h = hip /\ ~HiThrows(hip)
    BY <1>1, <2>3 DEF RecvHi, add_tunnel_to_pubkey
  <2> QED BY <2>1, <2>2, <2>3
<1>2. ASSUME NEW hip \in Hip, NEW pip \in Pip, RpcAddPeer(hip, pip)
      PROVE  h \in m_tunnel'
  <2>1. m_peer'[h] = m_peer[h] \/ m_peer'[h] = c_peering(pip)
    BY <1>2 DEF RpcAddPeer, Emplaced, TypeOK
  <2>2. m_peer'[h] = m_peer[h]
    BY <2>1 DEF c_peering
  <2> QED BY <1>2, <2>2 DEF RpcAddPeer, KeyedPeerHasTunnel, Peers
<1>3. ASSUME NEW hips \in SUBSET Hip, Erase(hips), UNCHANGED m_tunnel
      PROVE  h \in m_tunnel'
  BY <1>3 DEF Erase, KeyedPeerHasTunnel, Peers
<1>4. CASE Tick
  <2>1. m_peer[h] # NoPeer /\ m_peer'[h].pubkey = m_peer[h].pubkey
    BY <1>4 DEF Tick, Peers, TypeOK, Peering
  <2> QED BY <1>4, <2>1 DEF Tick, KeyedPeerHasTunnel, Peers
<1>5. CASE m_peer' = m_peer /\ TunnelsGrow
  BY <1>5 DEF KeyedPeerHasTunnel, Peers, TunnelsGrow
<1> QED BY <1>1, <1>2, <1>3, <1>4, <1>5, MapSteps

\* IInv is an invariant of the specification.
THEOREM Invariance == Spec => []IInv
<1>1. IInv /\ [Next]_vars => IInv'
  BY NextControl, NextAgreed, NextKeyed DEF IInv
<1> QED BY InitIInv, <1>1, PTL DEF Spec

\* Type correctness: in particular the recursion of route_tun_data_..._detail
\* stops at level 2, and a peer is on record wherever a handler works on one.
THEOREM TypeCorrect == Spec => []TypeOK
<1>1. IInv => TypeOK
  BY DEF IInv
<1> QED BY Invariance, <1>1, PTL

\* A peer whose pubkey we hold has an end-to-end tunnel, whatever the RPC thread
\* deletes, bans or adds between the packets of the main thread; the one way to
\* stay keyed without a tunnel is a key that no agreement is possible with.
THEOREM KeyedPeers == Spec => []KeyedPeerHasTunnel
<1>1. IInv => KeyedPeerHasTunnel
  BY DEF IInv
<1> QED BY Invariance, <1>1, PTL

\* The main thread never makes a banned address a peer (add_peer_append_pubkey
\* asks the black list before it adds).
THEOREM NoBannedAdmitted == Spec => MainAdmitsNoBanned
<1> DEFINE A == \A h \in Hip :
       (main' # main /\ h \in m_peer_black_list /\ h \notin Peers) => h \notin Peers'
<1>1. ASSUME IInv, [Next]_vars PROVE A
  <2> SUFFICES ASSUME NEW h \in Hip, main' # main, h \in m_peer_black_list, h \notin Peers
               PROVE  h \notin Peers'
    OBVIOUS
  <2>1. ASSUME NEW hip \in Hip, NEW pip \in Pip, RecvHi(hip, pip)
        PROVE  h \notin Peers'
    BY <1>1, <2>1 DEF RecvHi, add_peer_append_pubkey, Peers, IInv, TypeOK
  <2>2. ASSUME NEW hip \in Hip, NEW pip \in Pip, RpcAddPeer(hip, pip)
        PROVE  h \notin Peers'
    BY <2>2 DEF RpcAddPeer
  <2>3. ASSUME NEW hips \in SUBSET Hip, Erase(hips)
        PROVE  h \notin Peers'
    BY <2>3 DEF Erase, Peers
  <2>4. CASE Tick
    BY <2>4 DEF Tick
  <2>5. CASE m_peer' = m_peer
    BY <2>5 DEF Peers
  <2> QED BY <1>1, <2>1, <2>2, <2>3, <2>4, <2>5, MapSteps DEF IInv
<1>2. IInv /\ [Next]_vars => [A]_vars
  BY <1>1
<1> QED BY Invariance, <1>2, PTL DEF Spec, MainAdmitsNoBanned

\* The pubkey of a peer is never lost while the peer stays in the map.
THEOREM PubkeyKept == Spec => PubkeyNeverLost
<1> DEFINE A == \A h \in Hip :
       (h \in Peers /\ h \in Peers' /\ m_peer[h].pubkey) => m_peer'[h].pubkey
<1>1. ASSUME IInv, [Next]_vars PROVE A
  <2> SUFFICES ASSUME NEW h \in Hip, h \in Peers, h \in Peers', m_peer[h].pubkey
               PROVE  m_peer'[h].pubkey
    OBVIOUS
  <2>1. ASSUME NEW hip \in Hip, NEW pip \in Pip, RecvHi(hip, pip)
        PROVE  m_peer'[h].pubkey
    BY <1>1, <2>1 DEF RecvHi, add_peer_append_pubkey, IInv, TypeOK
  <2>2. ASSUME NEW hip \in Hip, NEW pip \in Pip, RpcAddPeer(hip, pip)
        PROVE  m_peer'[h].pubkey
    BY <1>1, <2>2 DEF RpcAddPeer, Emplaced, IInv, TypeOK
  <2>3. ASSUME NEW hips \in SUBSET Hip, Erase(hips)
        PROVE  m_peer'[h].pubkey
    BY <2>3 DEF Erase, Peers
  <2>4. CASE Tick
    BY <1>1, <2>4 DEF Tick, Peers, IInv, TypeOK, Peering
  <2>5. CASE m_peer' = m_peer
    BY <2>5
  <2> QED BY <1>1, <2>1, <2>2, <2>3, <2>4, <2>5, MapSteps DEF IInv
<1>2. IInv /\ [Next]_vars => [A]_vars
  BY <1>1
<1> QED BY Invariance, <1>2, PTL DEF Spec, PubkeyNeverLost

\* The main thread destroys no object that it holds a reference to: it erases
\* at the top of the loop only, where NothingHeld says that it holds none. The
\* references can dangle through the RPC thread alone.
THEOREM MainKeepsReferences == Spec => MainKeepsWhatItHolds
<1> DEFINE A == main' # main =>
       \A r \in Roles :
         (held[r] # NoRef /\ held[r].live /\ held'[r] # NoRef) => held'[r].live
<1>1. ASSUME IInv, [Next]_vars PROVE A
  <2> SUFFICES ASSUME main' # main, NEW r \in Roles,
                      held[r] # NoRef, held[r].live, held'[r] # NoRef
               PROVE  held'[r].live
    OBVIOUS
  <2>1. main \notin MainLoop
    BY <1>1 DEF IInv, NothingHeld, NoneHeld
  <2>2. CASE LoopTop \/ Receive
    <3>1. main.at \in LoopPlaces
      BY <2>2 DEF LoopTop, LoopExit, peering_ping_all_peers, LoopNoPing, Receive,
           IdleOrRefused, RecvHi, RecvTun, RecvFromPeer, MainAt, LoopPlaces
    <3> QED BY <1>1, <2>1, <3>1, MainKind DEF IInv
  <2>3. ASSUME NEW role \in Roles, NEW hip,
               \/ held' = Hold(role, hip)
               \/ held' = Drop(role)
               \/ held' = NoneHeld
               \/ held' = held
        PROVE  held'[r].live
    BY <1>1, <2>3 DEF Hold, Drop, NoneHeld, IInv, TypeOK
  <2>4. CASE Handle \/ Crash
    BY <2>3, <2>4 DEF Handle, Crash, Identify, Limit, Route, Send, Lookup, UseGoal,
       Answer, MainRestarts, Roles
  <2>5. CASE RpcThread \/ Tick \/ UNCHANGED vars
    BY <2>5 DEF RpcThread, Tick, vars, RpcAddPeer, delete_peer_from_black_list,
       RpcDeletePeer, delete_all_peers, RpcBanPeer, RpcBanDelete,
       add_peer_to_black_list, exit_tunserver
  <2> QED BY <1>1, <2>2, <2>4, <2>5 DEF Next, MainThread
<1>2. IInv /\ [Next]_vars => [A]_vars
  BY <1>1
<1> QED BY Invariance, <1>2, PTL DEF Spec, MainKeepsWhatItHolds
=============================================================================
