------------------------------ MODULE PeerTable ------------------------------
(***************************************************************************)
(* The peer table of one node (c_tunserver): the peers m_peer and the      *)
(* black list, both guarded by m_peer_etc_mutex, used by two threads.      *)
(*                                                                         *)
(*  - The MAIN thread runs event_loop(): it pings, times peers out, and    *)
(*    handles one TUN or UDP packet per iteration.                         *)
(*  - The RPC thread runs the rpc_... handlers one at a time.              *)
(*                                                                         *)
(* Every critical section of the mutex is one action, so each point at     *)
(* which a thread drops the mutex and later goes on is a state here.       *)
(* Objects owned by m_peer are used through references after the mutex is  *)
(* released; a reference records whether its object still exists.          *)
(***************************************************************************)
EXTENDS Naturals

CONSTANTS
  Hip,            \* the virtual addresses (c_haship_addr) of other nodes
  Pip,            \* the physical addresses (c_ip46_addr) of other nodes
  NoHip,          \* no address: the thread works on no peer
  NoPeer,         \* "no element under this key in m_peer"
  NoRef,          \* "no reference held"
  Unagreeable,    \* the Hip of keys that key_agreement_locked() throws for
  PeerTimeout,    \* peer_timeout, in ticks of the clock
  HelloInterval   \* net-hello-interval, in ticks

ASSUME PeerTableAssumption ==
  /\ PeerTimeout \in Nat
  /\ HelloInterval \in Nat \ {0}
  \* A hip is the hash of a pubkey and our own IDC stays the same, so the hip
  \* decides whether the key agreement of the two throws, each time again.
  /\ Unagreeable \in SUBSET Hip

\* Ages and timers are only compared with a limit, so they stop one past it.
MaxAge   == PeerTimeout + 1
MaxTimer == HelloInterval + 1

\* c_peering: address, whether the pubkey is known, and the time since
\* m_last_ping_time.
Peering == [pip : Pip, pubkey : BOOLEAN, age : 0..MaxAge]

ASSUME NoHipAssumption == NoHip \notin Hip

ASSUME NoPeerAssumption == NoPeer \notin Peering

Ref == [hip : Hip, live : BOOLEAN]

ASSUME NoRefAssumption == NoRef \notin Ref

VARIABLES
  m_peer,             \* Hip -> c_peering, or NoPeer
  m_peer_black_list,  \* set of banned Hip
  m_tunnel,           \* the Hip to which an end-to-end tunnel exists
  enable_remove,      \* the --remove-peers option
  dbg2,               \* the log level lets _dbg2() evaluate its argument
  is_exiting,         \* set by the RPC "exit"
  main,               \* the main thread: its place, the command it handles, the
                      \* hip it is to reach and recurse_level
  held,               \* the references the main thread holds
  rpc,                \* where the RPC thread is, and the peer it works on
  ping_timer,         \* ticks since ping_all_time_last
  ping_all_count      \* pings sent, counted up to ping_all_count_low

vars == <<m_peer, m_peer_black_list, m_tunnel, enable_remove, dbg2, is_exiting,
          main, held, rpc, ping_timer, ping_all_count>>

ping_all_count_low == 2

Commands   == {"data", "query", "reply"}
Levels     == 0..2
LoopPlaces == {"top", "wait", "ended"}
BusyPlaces == {"identify", "limit", "route", "send", "lookup", "use_goal",
               "answer", "crashed"}
RpcPlaces  == {"add_unban", "ban_delete", "ban_append"}
Roles      == {"sender", "target"}

\* Between two packets, and while one is handled.
MainLoop == [at : LoopPlaces, cmd : {"data"}, goal : {NoHip}, level : {0}]
MainBusy == [at : BusyPlaces, cmd : Commands, goal : Hip, level : Levels]
RpcIdle  == [at |-> "idle", hip |-> NoHip]

TypeOK ==
  /\ m_peer \in [Hip -> Peering \cup {NoPeer}]
  /\ m_peer_black_list \in SUBSET Hip
  /\ m_tunnel \in SUBSET Hip
  /\ enable_remove \in BOOLEAN
  /\ dbg2 \in BOOLEAN
  /\ is_exiting \in BOOLEAN
  /\ main \in MainLoop \cup MainBusy
  /\ held \in [Roles -> Ref \cup {NoRef}]
  /\ rpc \in [at : RpcPlaces, hip : Hip] \cup {RpcIdle}
  /\ ping_timer \in 0..MaxTimer
  /\ ping_all_count \in 0..ping_all_count_low
-----------------------------------------------------------------------------
(* The map itself *)

Peers == {h \in Hip : m_peer[h] # NoPeer}

\* c_peering::c_peering: a fresh object has no pubkey and was pinged "now".
c_peering(pip) == [pip |-> pip, pubkey |-> FALSE, age |-> 0]

\* Mutant: operator[] instead of emplace.
Emplaced_overwrites(hip, peering) == [m_peer EXCEPT ![hip] = peering]

\* m_peer.emplace: an existing element is left as it is.
Emplaced(hip, peering) ==
  IF hip \in Peers THEN m_peer ELSE [m_peer EXCEPT ![hip] = peering]

\* m_peer.erase: the unique_ptr destroys the objects of these keys, and every
\* reference to one of them dangles from now on.
Erase(hips) ==
  /\ m_peer' = [h \in Hip |-> IF h \in hips THEN NoPeer ELSE m_peer[h]]
  /\ held' = [r \in Roles |->
                IF held[r] # NoRef /\ held[r].hip \in hips
                  THEN [held[r] EXCEPT !.live = FALSE] ELSE held[r]]

NoneHeld == [r \in Roles |-> NoRef]
Drop(role) == [held EXCEPT ![role] = NoRef]
Hold(role, hip) == [held EXCEPT ![role] = [hip |-> hip, live |-> TRUE]]

MainAt(place) == main.at = place
MainGoes(place) == main' = [main EXCEPT !.at = place]
MainRestarts ==
  /\ main' = [at |-> "top", cmd |-> "data", goal |-> NoHip, level |-> 0]
  /\ held' = NoneHeld

options == <<enable_remove, dbg2>>
timers  == <<ping_timer, ping_all_count>>

Init ==
  \* peers of the command line, added before the loop starts (add_peer)
  /\ m_peer \in [Hip -> {c_peering(p) : p \in Pip} \cup {NoPeer}]
  /\ m_peer_black_list = {}
  /\ m_tunnel = {}
  /\ enable_remove \in BOOLEAN
  /\ dbg2 \in BOOLEAN
  /\ is_exiting = FALSE
  /\ main = [at |-> "top", cmd |-> "data", goal |-> NoHip, level |-> 0]
  /\ held = NoneHeld
  /\ rpc = RpcIdle
  /\ ping_timer = 0
  /\ ping_all_count = 0
-----------------------------------------------------------------------------
(* The main thread: event_loop() *)

\* Mutant: the loop first waits until all peers are gone.
LoopExit_waits_for_peers ==
  /\ MainAt("top") /\ is_exiting /\ Peers = {}
  /\ MainGoes("ended")
  /\ UNCHANGED <<m_peer, m_peer_black_list, m_tunnel, options, is_exiting, held,
                 rpc, timers>>

\* if (is_exiting) break;
LoopExit ==
  /\ MainAt("top") /\ is_exiting
  /\ MainGoes("ended")
  /\ UNCHANGED <<m_peer, m_peer_black_list, m_tunnel, options, is_exiting, held,
                 rpc, timers>>

ping_all_frequency ==
  IF ping_all_count < ping_all_count_low THEN 1 ELSE HelloInterval

\* Mutant: peers that never said "hi" are forgotten by the time-out.
TimedOut_only_keyed ==
  {h \in Peers : enable_remove /\ m_peer[h].pubkey /\ m_peer[h].age > PeerTimeout}

\* The peers that peering_ping_all_peers() removes.
TimedOut ==
  {h \in Peers : enable_remove /\ m_peer[h].age > PeerTimeout}

\* It is time to ping: drop the silent peers, send a "hi" to the others.
peering_ping_all_peers ==
  /\ MainAt("top") /\ ~is_exiting
  /\ ping_timer > ping_all_frequency
  /\ Erase(TimedOut)
  /\ ping_timer' = 0
  /\ ping_all_count' = IF ping_all_count < ping_all_count_low
                         THEN ping_all_count + 1 ELSE ping_all_count
  /\ MainGoes("wait")
  /\ UNCHANGED <<m_peer_black_list, m_tunnel, options, is_exiting, rpc>>

\* It is not time to ping yet.
LoopNoPing ==
  /\ MainAt("top") /\ ~is_exiting
  /\ ping_timer <= ping_all_frequency
  /\ MainGoes("wait")
  /\ UNCHANGED <<m_peer, m_peer_black_list, m_tunnel, options, is_exiting, held,
                 rpc, timers>>

\* wait_for_event() timed out, or the packet was refused before m_peer was
\* used: not a galaxy address, bad version, bad format, unknown command.
IdleOrRefused ==
  /\ MainAt("wait")
  /\ MainGoes("top")
  /\ UNCHANGED <<m_peer, m_peer_black_list, m_tunnel, options, is_exiting, held,
                 rpc, timers>>

\* Mutant: the black list is not asked.
add_peer_append_pubkey_no_ban(hip, pip) ==
  m_peer' = [m_peer EXCEPT ![hip] = [pip |-> pip, pubkey |-> TRUE, age |-> 0]]

\* add_peer_append_pubkey: an unknown peer is added unless it is banned, a
\* known one is refreshed even if it is banned.
add_peer_append_pubkey(hip, pip) ==
  m_peer' = IF hip \in Peers \/ hip \notin m_peer_black_list
              THEN [m_peer EXCEPT ![hip] = [pip |-> pip, pubkey |-> TRUE, age |-> 0]]
              ELSE m_peer

\* Mutant: the element is looked for before it is added.
HiThrows_new_peer(hip) == dbg2 /\ hip \notin Peers

\* The _dbg2() after the update calls m_peer.at(hip), which throws when the
\* peer was refused; the argument is only evaluated at a low log level.
HiThrows(hip) == dbg2 /\ hip \notin Peers /\ hip \in m_peer_black_list

\* add_tunnel_to_pubkey: the constructor of c_tunnel_use calculates the key and
\* throws, before m_tunnel is touched, when the agreement with this key does.
add_tunnel_to_pubkey(hip) ==
  m_tunnel' = IF hip \in Unagreeable THEN m_tunnel ELSE m_tunnel \cup {hip}

\* e_proto_cmd_public_hi with a valid signature. The peer gets its pubkey first;
\* what is thrown then, by the _dbg2() or by the making of the tunnel, is caught
\* (here or around the whole iteration) and undoes nothing. The tunnel is made
\* after the mutex is released, but m_tunnel is used by this thread only.
RecvHi(hip, pip) ==
  /\ MainAt("wait")
  /\ add_peer_append_pubkey(hip, pip)
  /\ IF HiThrows(hip) THEN UNCHANGED m_tunnel ELSE add_tunnel_to_pubkey(hip)
  /\ MainGoes("top")
  /\ UNCHANGED <<m_peer_black_list, options, is_exiting, held, rpc, timers>>

\* A packet of our own computer is read from TUN, to be routed to goal.
RecvTun(goal) ==
  /\ MainAt("wait")
  /\ main' = [at |-> "route", cmd |-> "data", goal |-> goal, level |-> 0]
  /\ UNCHANGED <<m_peer, m_peer_black_list, m_tunnel, options, is_exiting, held,
                 rpc, timers>>

\* find_peer_by_sender_peering_addr(): a reference to an element with this
\* address (the first in map order; which one does not matter here), returned
\* after the mutex is released. It throws if there is none.
RecvFromPeer(cmd, goal, pip) ==
  /\ MainAt("wait")
  /\ \E h \in Peers :
       /\ m_peer[h].pip = pip
       /\ held' = Hold("sender", h)
  /\ main' = [at |-> "identify", cmd |-> cmd, goal |-> goal, level |-> 0]
  /\ UNCHANGED <<m_peer, m_peer_black_list, m_tunnel, options, is_exiting, rpc,
                 timers>>

\* The statistics and get_hip() of the sender are used, then the command:
\*  data   for someone else, or for us when we lack the tunnel, or for TUN;
\*  query  looks the goal up, or has a bad format or too low a TTL;
\*  reply  makes the tunnel to the node whose pubkey it carries and stores the
\*         route (neither, if the key agreement throws), or has a low TTL.
Identify ==
  /\ MainAt("identify")
  /\ \/ /\ main.cmd = "data"
        /\ \/ MainGoes("limit") /\ UNCHANGED held
           \/ MainGoes("route") /\ held' = Drop("sender")
        /\ UNCHANGED m_tunnel
     \/ /\ main.cmd = "query"
        /\ MainGoes("lookup")
        /\ UNCHANGED <<held, m_tunnel>>
     \/ /\ main.cmd = "reply"
        /\ MainRestarts
        /\ add_tunnel_to_pubkey(main.goal)
     \/ /\ MainRestarts
        /\ UNCHANGED m_tunnel
  /\ UNCHANGED <<m_peer, m_peer_black_list, options, is_exiting, rpc, timers>>

\* Mutant: a sender above its limit is erased while its packet is routed.
Limit_erases ==
  /\ MainAt("limit")
  /\ Erase({held["sender"].hip})
  /\ MainGoes("route")
  /\ UNCHANGED <<m_peer_black_list, m_tunnel, options, is_exiting, rpc, timers>>

\* get_limit_points() of the sender (never below 0 in an object that exists);
\* the packet is dropped if its TTL is expended.
Limit ==
  /\ MainAt("limit")
  /\ \/ MainGoes("route") /\ held' = Drop("sender")
     \/ MainRestarts
  /\ UNCHANGED <<m_peer, m_peer_black_list, m_tunnel, options, is_exiting, rpc,
                 timers>>

\* Mutant: an off-by-one in the recursion limit.
CanRecurse_once_more == main.level <= 2

\* if (recurse_level>1) the packet is dropped.
CanRecurse == main.level < 2

\* route_tun_data_to_its_destination_detail(): with the mutex, take a pointer
\* to the peer to send to, or fall back to the routing manager.
Route ==
  /\ MainAt("route")
  /\ \/ /\ main.goal \in Peers
        /\ held' = Hold("target", main.goal)
        /\ MainGoes("send")
     \/ /\ main.goal \notin Peers /\ Peers # {} /\ CanRecurse
        /\ MainGoes("lookup")
        /\ UNCHANGED held
     \/ /\ main.goal \notin Peers /\ (Peers = {} \/ ~CanRecurse)
        /\ MainRestarts
  /\ UNCHANGED <<m_peer, m_peer_black_list, m_tunnel, options, is_exiting, rpc,
                 timers>>

\* peer_udp->send_data_udp() after lg.unlock().
Send ==
  /\ MainAt("send")
  /\ MainRestarts
  /\ UNCHANGED <<m_peer, m_peer_black_list, m_tunnel, options, is_exiting, rpc,
                 timers>>

\* What the caller does with the route that the routing manager returned: the
\* answer to a query, or one more level of routing, via any next hop.
RouteFound ==
  IF main.cmd = "query"
    THEN main' = [main EXCEPT !.at = "answer"]
    ELSE \E via \in Hip :
           main' = [main EXCEPT !.at = "route", !.goal = via, !.level = @ + 1]

\* get_route_or_maybe_search(): get_peer_with_hip() returns a reference to the
\* goal; else a stored route is used, or the search leads to an exception.
Lookup ==
  /\ MainAt("lookup")
  /\ \/ /\ main.goal \in Peers
        /\ held' = Hold("target", main.goal)
        /\ MainGoes("use_goal")
     \/ /\ main.goal \notin Peers
        /\ \/ RouteFound /\ UNCHANGED held
           \/ MainRestarts
  /\ UNCHANGED <<m_peer, m_peer_black_list, m_tunnel, options, is_exiting, rpc,
                 timers>>

\* peer.get_pub() and get_hip() on that reference, without the mutex.
UseGoal ==
  /\ MainAt("use_goal")
  /\ LET dead   == ~held["target"].live
         pubkey == IF dead THEN BOOLEAN ELSE {m_peer[held["target"].hip].pubkey}
     IN \/ TRUE \in pubkey /\ RouteFound /\ held' = Drop("target")
        \/ FALSE \in pubkey /\ MainRestarts
  /\ UNCHANGED <<m_peer, m_peer_black_list, m_tunnel, options, is_exiting, rpc,
                 timers>>

\* The reply is sent through sender_as_peering_ptr (the second look-up of the
\* sender that follows only serves debug messages).
Answer ==
  /\ MainAt("answer")
  /\ MainRestarts
  /\ UNCHANGED <<m_peer, m_peer_black_list, m_tunnel, options, is_exiting, rpc,
                 timers>>

\* The reference that the main thread is about to use at each place.
UsedAt(place) ==
  IF place \in {"identify", "limit", "answer"} THEN {"sender"}
  ELSE IF place \in {"send", "use_goal"} THEN {"target"} ELSE {}

Dangling(role) == held[role] # NoRef /\ ~held[role].live

\* The use of an object that was destroyed is undefined: the program may end
\* here (the actions above are the outcomes in which it goes on).
Crash ==
  /\ \E role \in UsedAt(main.at) : Dangling(role)
  /\ MainGoes("crashed")
  /\ UNCHANGED <<m_peer, m_peer_black_list, m_tunnel, options, is_exiting, held,
                 rpc, timers>>
-----------------------------------------------------------------------------
(* The RPC thread; main.at # "crashed" since a crash ends both threads *)

RpcAt(place) == rpc.at = place /\ ~MainAt("crashed")
RpcGoes(place, hip) == rpc' = [at |-> place, hip |-> hip]

\* rpc_add_peer: add_peer(), and then delete_peer_from_black_list().
RpcAddPeer(hip, pip) ==
  /\ RpcAt("idle")
  /\ m_peer' = Emplaced(hip, c_peering(pip))
  /\ RpcGoes("add_unban", hip)
  /\ UNCHANGED <<m_peer_black_list, m_tunnel, options, is_exiting, main, held,
                 timers>>

delete_peer_from_black_list ==
  /\ RpcAt("add_unban")
  /\ m_peer_black_list' = m_peer_black_list \ {rpc.hip}
  /\ rpc' = RpcIdle
  /\ UNCHANGED <<m_peer, m_tunnel, options, is_exiting, main, held, timers>>

\* rpc_delete_peer
RpcDeletePeer(hip) ==
  /\ RpcAt("idle")
  /\ Erase({hip})
  /\ UNCHANGED <<m_peer_black_list, m_tunnel, options, is_exiting, main, rpc,
                 timers>>

\* rpc_delete_all_peers, rpc_ban_all_peers: one critical section for both.
delete_all_peers(is_banned) ==
  /\ RpcAt("idle")
  /\ m_peer_black_list' = IF is_banned THEN m_peer_black_list \cup Peers
                                       ELSE m_peer_black_list
  /\ Erase(Hip)
  /\ UNCHANGED <<m_tunnel, options, is_exiting, main, rpc, timers>>

\* rpc_ban_peer: peer_on_black_list(), delete_peer(), add_peer_to_black_list(),
\* each taking the mutex for itself.
RpcBanPeer(hip) ==
  /\ RpcAt("idle")
  /\ hip \notin m_peer_black_list
  /\ RpcGoes("ban_delete", hip)
  /\ UNCHANGED <<m_peer, m_peer_black_list, m_tunnel, options, is_exiting, main,
                 held, timers>>

RpcBanDelete ==
  /\ RpcAt("ban_delete")
  /\ Erase({rpc.hip})
  /\ RpcGoes("ban_append", rpc.hip)
  /\ UNCHANGED <<m_peer_black_list, m_tunnel, options, is_exiting, main, timers>>

add_peer_to_black_list ==
  /\ RpcAt("ban_append")
  /\ m_peer_black_list' = m_peer_black_list \cup {rpc.hip}
  /\ rpc' = RpcIdle
  /\ UNCHANGED <<m_peer, m_tunnel, options, is_exiting, main, held, timers>>

exit_tunserver ==
  /\ RpcAt("idle")
  /\ is_exiting' = TRUE
  /\ UNCHANGED <<m_peer, m_peer_black_list, m_tunnel, options, main, held, rpc,
                 timers>>
-----------------------------------------------------------------------------
\* One tick of the steady clock.
Tick ==
  /\ ~MainAt("crashed")
  /\ m_peer' = [h \in Hip |->
                 IF h \in Peers /\ m_peer[h].age < MaxAge
                   THEN [m_peer[h] EXCEPT !.age = @ + 1] ELSE m_peer[h]]
  /\ ping_timer' = IF ping_timer < MaxTimer THEN ping_timer + 1 ELSE ping_timer
  /\ UNCHANGED <<m_peer_black_list, m_tunnel, options, is_exiting, main, held,
                 rpc, ping_all_count>>

LoopTop == LoopExit \/ peering_ping_all_peers \/ LoopNoPing

Receive ==
  \/ IdleOrRefused
  \/ \E hip \in Hip, pip \in Pip : RecvHi(hip, pip)
  \/ \E goal \in Hip : RecvTun(goal)
  \/ \E cmd \in Commands, goal \in Hip, pip \in Pip : RecvFromPeer(cmd, goal, pip)

Handle == Identify \/ Limit \/ Route \/ Send \/ Lookup \/ UseGoal \/ Answer

MainThread == LoopTop \/ Receive \/ Handle \/ Crash

RpcThread ==
  \/ \E hip \in Hip, pip \in Pip : RpcAddPeer(hip, pip)
  \/ delete_peer_from_black_list
  \/ \E hip \in Hip : RpcDeletePeer(hip)
  \/ \E is_banned \in BOOLEAN : delete_all_peers(is_banned)
  \/ \E hip \in Hip : RpcBanPeer(hip)
  \/ RpcBanDelete
  \/ add_peer_to_black_list
  \/ exit_tunserver

Next == MainThread \/ RpcThread \/ Tick

\* select() returns after 3 seconds at the latest and no handler blocks, so the
\* main thread keeps taking steps; time passes. Nobody has to send RPC commands.
Fairness == WF_vars(MainThread) /\ WF_vars(Tick)

Spec == Init /\ [][Next]_vars /\ Fairness
-----------------------------------------------------------------------------
(* Properties *)

\* A peer whose pubkey we hold (from a signed "hi") has an end-to-end tunnel,
\* whatever was deleted, banned, re-added or timed out since, with one exception:
\* the "hi" handler keys the peer before it makes the tunnel and catches what
\* that throws, so the peers with whose key no agreement is possible, and no
\* others, stay keyed without a tunnel. Route answers give out the pubkey of a
\* keyed peer; our own data can be encrypted to those with a tunnel only.
KeyedPeerHasTunnel ==
  \A h \in Peers : m_peer[h].pubkey => (h \in m_tunnel <=> h \notin Unagreeable)

\* Only the RPC thread can make a banned address a peer: the main thread, which
\* adds peers on the "hi" of strangers, refuses every address on the black list.
MainAdmitsNoBanned ==
  [][\A h \in Hip :
       (main' # main /\ h \in m_peer_black_list /\ h \notin Peers) => h \notin Peers']_vars

\* Adding a peer that is already there (a repeated RPC "add_peer") does not
\* throw away its pubkey or its newer address: the key of an element is only
\* lost with the element.
PubkeyNeverLost ==
  [][\A h \in Hip :
       (h \in Peers /\ h \in Peers' /\ m_peer[h].pubkey) => m_peer'[h].pubkey]_vars

\* The main thread itself never destroys a peer that it holds a reference to:
\* its only removal, the time-out, happens between two packets.
MainKeepsWhatItHolds ==
  [][main' # main =>
       \A r \in Roles :
         (held[r] # NoRef /\ held[r].live /\ held'[r] # NoRef) => held'[r].live]_vars

\* With --remove-peers a peer that stays silent for too long is removed, unless
\* it speaks up or the loop ends; packets and RPC calls cannot starve this.
SilentPeerRemoved ==
  \A h \in Hip :
    (enable_remove /\ h \in Peers /\ m_peer[h].age = MaxAge)
      ~> \/ h \notin Peers
         \/ m_peer[h].age < MaxAge
         \/ main.at \in {"ended", "crashed"}

\* After the RPC command "exit" the event loop ends, whatever packets arrive.
ExitEndsLoop == is_exiting ~> main.at \in {"ended", "crashed"}

\* "my peers [...] MUST BE used only protected by m_peer_etc_mutex!": no object
\* of m_peer is used after another thread destroyed it.
NoUseOfErasedPeer == \A role \in UsedAt(main.at) : ~Dangling(role)

\* "delete this as peer [...] if is_banned==true also add peer to black list":
\* once a ban has been carried out the peer is not in m_peer.
BannedIsNotPeer ==
  rpc.at = "idle" => \A h \in m_peer_black_list : h \notin Peers
=============================================================================
