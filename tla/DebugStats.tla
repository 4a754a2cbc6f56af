----------------------------- MODULE DebugStats -----------------------------
(***************************************************************************)
(* The statistics of one peer and the http debug server that draws them.   *)
(* The event loop counts every packet without a lock (c_peering.cpp:129,   *)
(* tunserver.cpp:1474); the thread of the http server brings the windows   *)
(* up to date under m_peer_etc_mutex when it draws a page, so that the two *)
(* race on them.  An entry of a window is <<bytes, packets>> of one unit      *)
(* of time.                                                                *)
(***************************************************************************)
EXTENDS Integers, Sequences

CONSTANTS WindowSize,    \* buffer_size, 120 in the code
          MaxUnit,       \* bound: units of time
          MaxSize,       \* bound: size of a packet
          MaxPackets,    \* bound: packets counted in each direction
          MaxSession     \* bound: sessions of the http server

ASSUME DebugStatsConstants ==
  /\ WindowSize \in Nat \ {0} /\ MaxUnit \in Nat /\ MaxSize \in Nat
  /\ MaxPackets \in Nat /\ MaxSession \in Nat

VARIABLES nowUnit,    \* (now - m_reference_time) / m_interval
          window,     \* m_data_*_buffer with m_packets_*_buffer
          lastUnit,   \* m_last_sent, m_last_read
          total,      \* m_size_of_*_data with m_number_of_*_packets
          history,    \* what was really counted in each unit
          http,       \* what the thread of the http server does
          page,       \* the arrays of the page that it draws, data first
          pushing,    \* the entries it still has to push
          sessions,   \* accepted connections whose request was not read yet
          accepted,
          raced       \* the directions in which a packet was counted in the midst of a refresh

debugVars == <<nowUnit, window, lastUnit, total, history, http, page, pushing, sessions, accepted, raced>>
statVars == <<window, lastUnit, total, history, pushing, raced>>
httpVars == <<http, page, sessions, accepted>>

Way == {"sent", "read"}
NoEntry == <<0, 0>>

DebugInit ==
  /\ nowUnit = 0 /\ window = [w \in Way |-> [i \in 1 .. WindowSize |-> NoEntry]]
  /\ lastUnit = [w \in Way |-> 0] /\ total = [w \in Way |-> NoEntry]
  /\ history = [w \in Way |-> [u \in 0 .. MaxUnit |-> NoEntry]]
  /\ http = "run" /\ page = "data" /\ pushing = 0 /\ sessions = 0 /\ accepted = 0 /\ raced = {}

Tick == nowUnit < MaxUnit /\ nowUnit' = nowUnit + 1 /\ UNCHANGED <<statVars, httpVars>>

\* push_back of a full circular buffer drops its first entry.
PushZeros(buffer, n) ==
  [i \in 1 .. WindowSize |-> IF i + n <= WindowSize THEN buffer[i + n] ELSE NoEntry]

AddPacket(entry, size) == <<entry[1] + size, entry[2] + 1>>

\* A packet of size zero moves the window and is not entered in it.
AddToBack(buffer, size) ==
  IF size = 0 THEN buffer ELSE [buffer EXCEPT ![WindowSize] = AddPacket(@, size)]

\* Mutant: an update without data leaves m_last as it was.
MutLateLast(w, size) ==
  /\ total[w][2] < MaxPackets
  /\ window' = [window EXCEPT ![w] = AddToBack(PushZeros(@, nowUnit - lastUnit[w]), size)]
  /\ lastUnit' = [lastUnit EXCEPT ![w] = IF size = 0 THEN @ ELSE nowUnit]
  /\ total' = [total EXCEPT ![w] = AddPacket(@, size)]
  /\ history' = [history EXCEPT ![w][nowUnit] = IF size = 0 THEN @ ELSE AddPacket(@, size)]
  /\ raced' = raced \cup ({http} \cap {w})
  /\ UNCHANGED <<nowUnit, pushing, httpVars>>

\* update_sent_stats and update_read_stats, by the event loop; they have the same text.
update_stats(w, size) ==
  /\ total[w][2] < MaxPackets
  /\ window' = [window EXCEPT ![w] = AddToBack(PushZeros(@, nowUnit - lastUnit[w]), size)]
  /\ lastUnit' = [lastUnit EXCEPT ![w] = nowUnit]
  /\ total' = [total EXCEPT ![w] = AddPacket(@, size)]
  /\ history' = [history EXCEPT ![w][nowUnit] = IF size = 0 THEN @ ELSE AddPacket(@, size)]
  /\ raced' = raced \cup ({http} \cap {w})
  /\ UNCHANGED <<nowUnit, pushing, httpVars>>

-----------------------------------------------------------------------------
\* The http server: one thread, so that one page is drawn at a time.

do_accept ==
  /\ http = "run" /\ accepted < MaxSession
  /\ sessions' = sessions + 1 /\ accepted' = accepted + 1 /\ UNCHANGED <<nowUnit, statVars, http, page>>

\* A connection that ends before its request is forgotten.
do_read_error ==
  /\ http = "run" /\ sessions > 0
  /\ sessions' = sessions - 1 /\ UNCHANGED <<nowUnit, statVars, http, page, accepted>>

\* A request without a path: strs.at(2) throws through m_io_service.run() and the server
\* ends, with all its sessions, while the node runs on.
BadRequest ==
  /\ http = "run" /\ sessions > 0
  /\ http' = "ended" /\ sessions' = 0 /\ UNCHANGED <<nowUnit, statVars, page, accepted>>

\* do_write: the page of the address asked for is generated.
do_write ==
  /\ http = "run" /\ sessions > 0
  /\ sessions' = sessions - 1 /\ http' = "peers" /\ page' = "data" /\ UNCHANGED <<nowUnit, statVars, accepted>>

\* The totals are read under m_peer_etc_mutex, which the event loop does not take to count.
generate_table_of_peers ==
  /\ http = "peers" /\ http' = "tunnels" /\ UNCHANGED <<nowUnit, statVars, page, sessions, accepted>>

\* m_tunnel is walked under get_my_mutex, which nobody else takes.
generate_table_of_tunnels ==
  /\ http = "tunnels" /\ http' = "table" /\ UNCHANGED <<nowUnit, statVars, page, sessions, accepted>>

\* update_*_buffer(0) by the http thread: the distance is taken and m_last is set ...
BeginRefresh(w) ==
  /\ http' = w /\ pushing' = nowUnit - lastUnit[w] /\ lastUnit' = [lastUnit EXCEPT ![w] = nowUnit]
  /\ UNCHANGED <<nowUnit, window, total, history, raced, page, sessions, accepted>>

\* ... and then the zeros are pushed.
EndRefresh(w, next, drawn) ==
  /\ http = w /\ http' = next /\ page' = drawn /\ pushing' = 0
  /\ window' = [window EXCEPT ![w] = PushZeros(@, pushing)]
  /\ UNCHANGED <<nowUnit, lastUnit, total, history, raced, sessions, accepted>>

get_data_buffer_as_js_str ==
  \/ http = "table" /\ BeginRefresh("read")
  \/ EndRefresh("read", "between", page)
  \/ http = "between" /\ BeginRefresh("sent")
  \/ page = "data" /\ EndRefresh("sent", "table", "packets")

\* It brings the windows up to date once more, as get_data_buffer_as_js_str does.
get_packets_buffer_as_js_str == page = "packets" /\ EndRefresh("sent", "charts", "data")

\* get_charts and the page; the write's completion handler does nothing.
SendPage == http = "charts" /\ http' = "run" /\ UNCHANGED <<nowUnit, statVars, page, sessions, accepted>>

\* stop(), called when the node's loop has ended.
HttpStop ==
  /\ http = "run" /\ http' = "ended" /\ sessions' = 0 /\ UNCHANGED <<nowUnit, statVars, page, accepted>>

DebugNext ==
  \/ Tick
  \/ \E w \in Way, size \in 0 .. MaxSize : update_stats(w, size)
  \/ do_accept \/ do_read_error \/ BadRequest \/ do_write \/ generate_table_of_peers
  \/ generate_table_of_tunnels \/ get_data_buffer_as_js_str \/ get_packets_buffer_as_js_str \/ SendPage \/ HttpStop

-----------------------------------------------------------------------------

DebugTypeOK ==
  /\ nowUnit \in 0 .. MaxUnit /\ lastUnit \in [Way -> 0 .. MaxUnit]
  /\ window \in [Way -> [1 .. WindowSize -> (0 .. MaxPackets * MaxSize) \X (0 .. MaxPackets)]]
  /\ total \in [Way -> (0 .. MaxPackets * MaxSize) \X (0 .. MaxPackets)]
  /\ http \in {"run", "peers", "tunnels", "table", "between", "charts", "ended"} \cup Way /\ page \in {"data", "packets"}
  /\ pushing \in 0 .. MaxUnit /\ sessions \in 0 .. MaxSession /\ accepted \in 0 .. MaxSession
  /\ raced \subseteq Way

\* A window holds, for each unit up to the last one seen, exactly what the loop counted in that
\* unit, also after a gap longer than the window and however often a page was drawn
\* (peering_stats.cpp:19-51).  Nothing is promised of a direction any more once the loop
\* counted a packet of it in the midst of a refresh by the http thread: that is a data race,
\* which the code does nothing against.  The other direction stays exact, and so do both
\* until a connection was accepted.
WindowIsHistory ==
  /\ raced # {} => accepted > 0
  /\ \A w \in Way \ (raced \cup {http}) : \A i \in 1 .. WindowSize :
       LET u == lastUnit[w] - (WindowSize - i)
       IN  window[w][i] = IF u < 0 THEN NoEntry ELSE history[w][u]
=============================================================================
