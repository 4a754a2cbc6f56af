--------------------------- MODULE TransportsProofs ---------------------------
(***************************************************************************)
(* The shared-memory socket, the service manager, the container, the       *)
(* network model with its benchmark and the measuring tools keep their     *)
(* promises for any number of messages, services, elements, threads,       *)
(* sockets, welds, packets and samples.                                    *)
(***************************************************************************)
EXTENDS MCTransports, FiniteSetTheorems, SequenceTheorems, WellFoundedInduction, TLAPS

TurboSpec == TurboInit /\ [][TurboNext]_turboVars
SiomSpec == SiomInit /\ [][SiomNext]_siomVars
VectorSpec == VectorInit /\ [][VectorNext]_vectorVars
NetSpec == NetInit /\ [][NetNext]_netVars

\* A behaviour of the model of all transports is one of each part.
LEMMA PartsOfTransports ==
  MCSpec => TurboSpec /\ SiomSpec /\ VectorSpec /\ NetSpec
<1>1. MCInit => TurboInit /\ SiomInit /\ VectorInit /\ NetInit
  BY DEF MCInit
<1>2. [MCNext]_mcvars => [TurboNext]_turboVars
  BY DEF MCNext, mcvars, Net, Bench, Send, Recv, Turbo, Siom, Vector
<1>3. [MCNext]_mcvars => [SiomNext]_siomVars
  BY DEF MCNext, mcvars, Net, Bench, Send, Recv, Turbo, Siom, Vector
<1>4. [MCNext]_mcvars => [VectorNext]_vectorVars
  BY DEF MCNext, mcvars, Net, Bench, Send, Recv, Turbo, Siom, Vector
<1>5. [MCNext]_mcvars => [NetNext]_netVars
  BY DEF MCNext, mcvars, Net, Bench, Send, Recv, Turbo, Siom, Vector
<1> QED
  BY <1>1, <1>2, <1>3, <1>4, <1>5, PTL DEF MCSpec, TurboSpec, SiomSpec, VectorSpec, NetSpec

-----------------------------------------------------------------------------
\* The shared-memory socket.

TurboTypes ==
  /\ header \in [Direction -> [mutex : {"free", "W", "R"}, message_in : BOOLEAN, data : Nat]]
  /\ writer \in [Direction -> {"idle", "hold", "wait_full", "woken"}]
  /\ reader \in [Direction -> {"idle", "hold", "wait_empty", "woken"}]
  /\ sent \in [Direction -> Nat]
  /\ delivered \in [Direction -> Seq([nr : Nat, size : Nat])]
  /\ ready \in [Direction -> BOOLEAN]
  /\ wakes \in [Direction -> [W : Nat, R : Nat]]

\* The buffer holds the last message sent, and who waits does so for the other side.
Handover(d) ==
  /\ writer[d] = "hold" <=> header[d].mutex = "W"
  /\ reader[d] = "hold" <=> header[d].mutex = "R"
  /\ header[d].data = sent[d]
  /\ writer[d] = "wait_full" => header[d].message_in
  /\ reader[d] = "wait_empty" => ~header[d].message_in
  /\ ready[d] => header[d].message_in

\* A writer that may go on over an unread message owes that to a wait that ended by
\* itself and has not cost a message yet; so does a reader that may go on without one.
Balance(d) ==
  /\ header[d].message_in =>
       /\ Len(delivered[d]) + 1 - wakes[d].R <= sent[d]
       /\ sent[d] <= Len(delivered[d]) + 1 + wakes[d].W
       /\ writer[d] \in {"hold", "woken"} => sent[d] <= Len(delivered[d]) + wakes[d].W
  /\ ~header[d].message_in =>
       /\ Len(delivered[d]) - wakes[d].R <= sent[d]
       /\ sent[d] <= Len(delivered[d]) + wakes[d].W
       /\ reader[d] \in {"hold", "woken"} => Len(delivered[d]) + 1 - wakes[d].R <= sent[d]

Arrived(d) ==
  \A k \in 1 .. Len(delivered[d]) :
    /\ k - wakes[d].R <= delivered[d][k].nr /\ delivered[d][k].nr <= k + wakes[d].W
    /\ delivered[d][k].nr <= sent[d]
    /\ \A j \in 1 .. k - 1 : delivered[d][j].nr <= delivered[d][k].nr
    /\ SizeOf(delivered[d][k].nr) # 0 => delivered[d][k].size = SizeOf(delivered[d][k].nr)

Flows(d) == Handover(d) /\ Balance(d) /\ Arrived(d)

TurboInv == TurboTypes /\ \A d \in Direction : Flows(d)

-----------------------------------------------------------------------------
\* The service manager: the next service is one of those in use.

SiomInv ==
  /\ m_size \in Nat /\ m_last_ioservice \in Nat
  /\ manager = "alive" => m_size > 0
  /\ manager = "none" => m_size = 0
  /\ \A s \in DOMAIN cards : cards[s] \in Nat /\ cards[s] < m_size

-----------------------------------------------------------------------------
\* The container: who runs on an element has it locked, and it matches.

Slot == [state : {"match", "used"}, RW : BOOLEAN]
CallRecord == [at : {"idle", "test", "matched", "run", "last"}, i : Nat, so_far : Nat]

CallTypes ==
  /\ m_data \in Seq(Slot)
  /\ call \in [Caller -> CallRecord]
  /\ \A c \in Caller : /\ call[c].at = "test" => call[c].i > 0
                       /\ call[c].at \in {"matched", "run", "last"} => call[c].i \in 1 .. Len(m_data)

VectorInv == CallTypes /\ MatchedOnUse

-----------------------------------------------------------------------------
\* What is not touched in a direction keeps the hand-over there.
LEMMA TurboSame ==
  ASSUME NEW d, Flows(d), header'[d] = header[d], writer'[d] = writer[d],
         reader'[d] = reader[d], sent'[d] = sent[d], delivered'[d] = delivered[d],
         ready'[d] = ready[d], wakes'[d] = wakes[d]
  PROVE  Flows(d)'
<1>1. Handover(d)'
  BY DEF Flows, Handover
<1>2. Balance(d)'
  BY DEF Flows, Balance
<1>3. Arrived(d)'
  BY DEF Flows, Arrived
<1> QED
  BY <1>1, <1>2, <1>3 DEF Flows

\* One more wait that ended by itself, of either side.
LEMMA WakesTypes ==
  ASSUME NEW d \in Direction, NEW w \in [Direction -> [W : Nat, R : Nat]]
  PROVE  /\ [w EXCEPT ![d].W = @ + 1] \in [Direction -> [W : Nat, R : Nat]]
         /\ [w EXCEPT ![d].R = @ + 1] \in [Direction -> [W : Nat, R : Nat]]
<1>1. w[d] \in [W : Nat, R : Nat] /\ w[d].W + 1 \in Nat /\ w[d].R + 1 \in Nat
  OBVIOUS
<1>2. [w[d] EXCEPT !.W = @ + 1] \in [W : Nat, R : Nat] /\ [w[d] EXCEPT !.R = @ + 1] \in [W : Nat, R : Nat]
  BY <1>1
<1> QED
  BY <1>2, Zenon

\* Bounds on a number read stay when what they are made of grows.
LEMMA Wider ==
  ASSUME NEW k \in Int, NEW n \in Int, NEW s \in Int, NEW t \in Int,
         NEW w \in [W : Nat, R : Nat], NEW v \in [W : Nat, R : Nat],
         k - w.R <= n, n <= k + w.W, n <= s, s <= t, w.W <= v.W, w.R <= v.R
  PROVE  k - v.R <= n /\ n <= k + v.W /\ n <= t
<1>1. w.W \in Nat /\ w.R \in Nat /\ v.W \in Nat /\ v.R \in Nat
  OBVIOUS
<1> QED
  BY <1>1

\* An item that was delivered has a number.
LEMMA Item ==
  ASSUME NEW s \in Seq([nr : Nat, size : Nat]), NEW k \in 1 .. Len(s)
  PROVE  s[k].nr \in Nat /\ k \in Int
<1>1. s[k] \in [nr : Nat, size : Nat]
  <2> DEFINE Items == [nr : Nat, size : Nat]
  <2>1. s \in Seq(Items)
    OBVIOUS
  <2> HIDE DEF Items
  <2>2. s[k] \in Items
    BY <2>1
  <2> QED
    BY <2>2 DEF Items
<1> QED
  BY <1>1

\* One more message sent and one more place for it.
LEMMA OneMoreSent ==
  ASSUME NEW len \in Nat, NEW s \in Nat, NEW w \in Nat, NEW r \in Nat,
         len - r <= s, s <= len + w
  PROVE  len + 1 - r <= s + 1 /\ s + 1 <= len + 1 + w
  OBVIOUS

\* What has arrived stays in order when no message is read and waits are only counted.
LEMMA ArrivedSame ==
  ASSUME NEW d \in Direction, TurboTypes, TurboTypes', Arrived(d),
         delivered'[d] = delivered[d], sent[d] <= sent'[d],
         wakes[d].W <= wakes'[d].W, wakes[d].R <= wakes'[d].R
  PROVE  Arrived(d)'
<1>1. ASSUME NEW k \in 1 .. Len(delivered[d])
      PROVE  k - wakes'[d].R <= delivered[d][k].nr /\ delivered[d][k].nr <= k + wakes'[d].W
             /\ delivered[d][k].nr <= sent'[d]
  <2>1. /\ k - wakes[d].R <= delivered[d][k].nr /\ delivered[d][k].nr <= k + wakes[d].W
        /\ delivered[d][k].nr <= sent[d]
    BY DEF Arrived
  <2>2. delivered[d] \in Seq([nr : Nat, size : Nat])
    BY DEF TurboTypes
  <2>3. delivered[d][k].nr \in Nat /\ k \in Int
    BY <2>2, Item
  <2>4. wakes[d] \in [W : Nat, R : Nat] /\ wakes'[d] \in [W : Nat, R : Nat]
        /\ sent[d] \in Nat /\ sent'[d] \in Nat
    BY DEF TurboTypes
  <2>5. wakes[d].W <= wakes'[d].W /\ wakes[d].R <= wakes'[d].R /\ sent[d] <= sent'[d]
    OBVIOUS
  <2> DEFINE n == delivered[d][k].nr   w == wakes[d]   v == wakes'[d]   s == sent[d]   t == sent'[d]
  <2>6. /\ k - w.R <= n /\ n <= k + w.W /\ n <= s /\ s <= t /\ w.W <= v.W /\ w.R <= v.R
        /\ n \in Int /\ s \in Int /\ t \in Int /\ k \in Int
        /\ w \in [W : Nat, R : Nat] /\ v \in [W : Nat, R : Nat]
    BY <2>1, <2>3, <2>4, <2>5
  <2>7. k - v.R <= n /\ n <= k + v.W /\ n <= t
    <3> HIDE DEF n, w, v, s, t
    <3> QED
      BY <2>6, Wider
  <2> QED
    BY <2>7
<1> QED
  BY <1>1 DEF Arrived

\* A step of the socket in direction d keeps the hand-over there and leaves the other
\* direction alone.
LEMMA TurboStep == TurboInv /\ [TurboNext]_turboVars => TurboInv'
<1> SUFFICES ASSUME TurboInv, [TurboNext]_turboVars PROVE TurboInv'
  OBVIOUS
<1> USE DEF TurboInv
<1>0. ASSUME UNCHANGED dirVars PROVE TurboInv'
  <2>1. TurboTypes'
    BY <1>0 DEF dirVars, TurboTypes
  <2>2. \A d \in Direction : Flows(d)'
    BY <1>0, TurboSame DEF dirVars
  <2> QED
    BY <2>1, <2>2
<1>1. CASE UNCHANGED turboVars \/ connect_as_client \/ wait_for_connection
  BY <1>0, <1>1 DEF turboVars, dirVars, connect_as_client, wait_for_connection
<1>2. CASE server_data_ready_for_read
  <2>1. TurboTypes'
    BY <1>2 DEF server_data_ready_for_read, TurboTypes
  <2>2. UNCHANGED <<header, writer, reader, sent, delivered, wakes>>
        /\ ready' = [ready EXCEPT !["c2s"] = header["c2s"].mutex = "free" /\ header["c2s"].message_in]
    BY <1>2 DEF server_data_ready_for_read
  <2>3. ASSUME NEW d \in Direction PROVE Flows(d)'
    <3>1. Balance(d)' /\ Arrived(d)'
      BY <2>2 DEF Flows, Balance, Arrived
    <3>2. ready'[d] = ready[d] \/ ready'[d] = (header[d].mutex = "free" /\ header[d].message_in)
      BY <2>2, Zenon DEF TurboTypes
    <3>3. Handover(d)'
      BY <2>2, <3>2 DEF Flows, Handover
    <3> QED
      BY <3>1, <3>3 DEF Flows
  <2> QED
    BY <2>1, <2>3
<1>3. ASSUME NEW d \in Direction, get_buffer_for_write(d) PROVE TurboInv'
  <2>0. reader' = reader /\ sent' = sent /\ delivered' = delivered /\ ready' = ready /\ wakes' = wakes
    BY <1>3 DEF get_buffer_for_write
  <2>1. Flows(d) /\ TurboTypes
    OBVIOUS
  <2>2. CASE /\ writer[d] = "idle" /\ header[d].message_in /\ header' = header
             /\ writer' = [writer EXCEPT ![d] = "wait_full"]
    <3>1. TurboTypes'
      BY <2>0, <2>2 DEF TurboTypes
    <3>2. Handover(d)' /\ Balance(d)'
      BY <2>0, <2>1, <2>2 DEF TurboTypes, Flows, Handover, Balance
    <3>3. Arrived(d)'
      BY <2>0, <2>1 DEF Flows, Arrived
    <3>4. \A e \in Direction \ {d} : Flows(e)'
      BY <2>0, <2>2, TurboSame DEF TurboTypes
    <3> QED
      BY <3>1, <3>2, <3>3, <3>4 DEF Flows
  <2>3. CASE /\ (writer[d] = "idle" /\ ~header[d].message_in) \/ writer[d] = "woken"
             /\ header[d].mutex = "free" /\ header' = [header EXCEPT ![d].mutex = "W"]
             /\ writer' = [writer EXCEPT ![d] = "hold"]
    <3>1. TurboTypes'
      BY <2>0, <2>3 DEF TurboTypes
    <3>2. Handover(d)' /\ Balance(d)'
      BY <2>0, <2>1, <2>3 DEF TurboTypes, Flows, Handover, Balance
    <3>3. Arrived(d)'
      BY <2>0, <2>1 DEF Flows, Arrived
    <3>4. \A e \in Direction \ {d} : Flows(e)'
      BY <2>0, <2>3, TurboSame DEF TurboTypes
    <3> QED
      BY <3>1, <3>2, <3>3, <3>4 DEF Flows
  <2> QED
    BY <1>3, <2>2, <2>3 DEF get_buffer_for_write, Lock
<1>4. ASSUME NEW d \in Direction, get_buffer_for_read(d) PROVE TurboInv'
  <2>0. writer' = writer /\ sent' = sent /\ delivered' = delivered /\ ready' = ready /\ wakes' = wakes
    BY <1>4 DEF get_buffer_for_read
  <2>1. Flows(d) /\ TurboTypes
    OBVIOUS
  <2>2. CASE /\ reader[d] = "idle" /\ ~header[d].message_in /\ header' = header
             /\ reader' = [reader EXCEPT ![d] = "wait_empty"]
    <3>1. TurboTypes'
      BY <2>0, <2>2 DEF TurboTypes
    <3>2. Handover(d)' /\ Balance(d)'
      BY <2>0, <2>1, <2>2 DEF TurboTypes, Flows, Handover, Balance
    <3>3. Arrived(d)'
      BY <2>0, <2>1 DEF Flows, Arrived
    <3>4. \A e \in Direction \ {d} : Flows(e)'
      BY <2>0, <2>2, TurboSame DEF TurboTypes
    <3> QED
      BY <3>1, <3>2, <3>3, <3>4 DEF Flows
  <2>3. CASE /\ (reader[d] = "idle" /\ header[d].message_in) \/ reader[d] = "woken"
             /\ header[d].mutex = "free" /\ header' = [header EXCEPT ![d].mutex = "R"]
             /\ reader' = [reader EXCEPT ![d] = "hold"]
    <3>1. TurboTypes'
      BY <2>0, <2>3 DEF TurboTypes
    <3>2. Handover(d)' /\ Balance(d)'
      BY <2>0, <2>1, <2>3 DEF TurboTypes, Flows, Handover, Balance
    <3>3. Arrived(d)'
      BY <2>0, <2>1 DEF Flows, Arrived
    <3>4. \A e \in Direction \ {d} : Flows(e)'
      BY <2>0, <2>3, TurboSame DEF TurboTypes
    <3> QED
      BY <3>1, <3>2, <3>3, <3>4 DEF Flows
  <2> QED
    BY <1>4, <2>2, <2>3 DEF get_buffer_for_read, Lock
<1>5. ASSUME NEW d \in Direction, send_to(d) PROVE TurboInv'
  <2>0. Flows(d) /\ TurboTypes
    OBVIOUS
  <2>1. TurboTypes'
    BY <1>5 DEF send_to, TurboTypes
  <2>2. /\ writer[d] = "hold" /\ writer'[d] = "idle" /\ sent'[d] = sent[d] + 1
        /\ header'[d] = [mutex |-> "free", message_in |-> TRUE, data |-> sent[d] + 1]
        /\ reader'[d] = (IF reader[d] = "wait_empty" THEN "woken" ELSE reader[d])
        /\ delivered' = delivered /\ ready' = ready /\ wakes' = wakes
    BY <1>5, <2>0 DEF send_to, TurboTypes
  <2>3. Handover(d)'
    BY <2>0, <2>2 DEF TurboTypes, Flows, Handover
  <2>4. Balance(d)'
    <3>1. Len(delivered[d]) \in Nat /\ sent[d] \in Nat /\ wakes[d].W \in Nat /\ wakes[d].R \in Nat
      BY <2>0 DEF TurboTypes
    <3>2. Len(delivered[d]) - wakes[d].R <= sent[d] /\ sent[d] <= Len(delivered[d]) + wakes[d].W
      BY <2>0, <2>2, <3>1 DEF Flows, Balance
    <3>3. Len(delivered[d]) + 1 - wakes[d].R <= sent[d] + 1
          /\ sent[d] + 1 <= Len(delivered[d]) + 1 + wakes[d].W
      BY <3>1, <3>2, OneMoreSent
    <3> QED
      BY <2>2, <3>3 DEF Balance
  <2>5. Arrived(d)'
    <3>1. Arrived(d) /\ sent[d] <= sent'[d] /\ wakes[d].W <= wakes'[d].W
          /\ wakes[d].R <= wakes'[d].R /\ delivered'[d] = delivered[d]
      BY <2>0, <2>2 DEF Flows, TurboTypes
    <3> QED
      BY <2>0, <2>1, <3>1, ArrivedSame
  <2>6. \A e \in Direction \ {d} : Flows(e)'
    BY <1>5, TurboSame DEF send_to, TurboTypes
  <2> QED
    BY <2>1, <2>3, <2>4, <2>5, <2>6 DEF Flows
<1>6. ASSUME NEW d \in Direction, SpuriousWake(d) PROVE TurboInv'
  <2>0. Flows(d) /\ TurboTypes
    OBVIOUS
  <2>1. UNCHANGED <<header, sent, delivered, ready>>
    BY <1>6 DEF SpuriousWake
  <2>2. CASE /\ writer[d] = "wait_full" /\ writer' = [writer EXCEPT ![d] = "woken"]
             /\ wakes' = [wakes EXCEPT ![d].W = @ + 1] /\ reader' = reader
    <3>1. TurboTypes'
      BY <2>0, <2>1, <2>2, WakesTypes DEF TurboTypes
    <3>2. wakes'[d].W = wakes[d].W + 1 /\ wakes'[d].R = wakes[d].R /\ writer'[d] = "woken"
      BY <2>0, <2>2 DEF TurboTypes
    <3>3. Handover(d)'
      BY <2>0, <2>1, <2>2, <3>2 DEF Flows, Handover
    <3>4. Len(delivered[d]) \in Nat /\ sent[d] \in Nat /\ wakes[d].W \in Nat /\ wakes[d].R \in Nat
      BY <2>0 DEF TurboTypes
    <3>5. Balance(d)'
      BY <2>0, <2>1, <2>2, <3>2, <3>4 DEF Flows, Handover, Balance
    <3>6. Arrived(d)'
      <4>1. Arrived(d) /\ sent[d] <= sent'[d] /\ wakes[d].W <= wakes'[d].W
            /\ wakes[d].R <= wakes'[d].R /\ delivered'[d] = delivered[d]
        BY <2>0, <2>1, <3>2, <3>4 DEF Flows
      <4> QED
        BY <2>0, <3>1, <4>1, ArrivedSame
    <3>7. \A e \in Direction \ {d} : Flows(e)'
      BY <2>1, <2>2, TurboSame DEF TurboTypes
    <3> QED
      BY <3>1, <3>3, <3>5, <3>6, <3>7 DEF Flows
  <2>3. CASE /\ reader[d] = "wait_empty" /\ reader' = [reader EXCEPT ![d] = "woken"]
             /\ wakes' = [wakes EXCEPT ![d].R = @ + 1] /\ writer' = writer
    <3>1. TurboTypes'
      BY <2>0, <2>1, <2>3, WakesTypes DEF TurboTypes
    <3>2. wakes'[d].R = wakes[d].R + 1 /\ wakes'[d].W = wakes[d].W /\ reader'[d] = "woken"
      BY <2>0, <2>3 DEF TurboTypes
    <3>3. Handover(d)'
      BY <2>0, <2>1, <2>3, <3>2 DEF Flows, Handover
    <3>4. Len(delivered[d]) \in Nat /\ sent[d] \in Nat /\ wakes[d].W \in Nat /\ wakes[d].R \in Nat
      BY <2>0 DEF TurboTypes
    <3>5. Balance(d)'
      BY <2>0, <2>1, <2>3, <3>2, <3>4 DEF Flows, Handover, Balance
    <3>6. Arrived(d)'
      <4>1. Arrived(d) /\ sent[d] <= sent'[d] /\ wakes[d].W <= wakes'[d].W
            /\ wakes[d].R <= wakes'[d].R /\ delivered'[d] = delivered[d]
        BY <2>0, <2>1, <3>2, <3>4 DEF Flows
      <4> QED
        BY <2>0, <3>1, <4>1, ArrivedSame
    <3>7. \A e \in Direction \ {d} : Flows(e)'
      BY <2>1, <2>3, TurboSame DEF TurboTypes
    <3> QED
      BY <3>1, <3>3, <3>5, <3>6, <3>7 DEF Flows
  <2> QED
    BY <1>6, <2>2, <2>3 DEF SpuriousWake
<1>7. ASSUME NEW d \in Direction, received_from(d) PROVE TurboInv'
  <2> DEFINE n == header[d].data
             x == [nr |-> n, size |-> ReadSize(d, n)]
  <2>0. /\ n = sent[d] /\ n \in Nat /\ SizeOf(n) \in Nat /\ Flows(d) /\ TurboTypes
        /\ delivered[d] \in Seq([nr : Nat, size : Nat]) /\ reader[d] = "hold"
    BY <1>7 DEF received_from, TurboTypes, Flows, Handover, SizeOf
  <2>1. x \in [nr : Nat, size : Nat]
    BY <2>0 DEF ReadSize, BufferSize
  <2>2. /\ delivered' = [delivered EXCEPT ![d] = Append(@, x)]
        /\ header' = [header EXCEPT ![d].mutex = "free", ![d].message_in = FALSE]
        /\ writer' = [writer EXCEPT ![d] = IF @ = "wait_full" THEN "woken" ELSE @]
        /\ reader' = [reader EXCEPT ![d] = "idle"]
        /\ ready' = [ready EXCEPT ![d] = FALSE] /\ sent' = sent /\ wakes' = wakes
    BY <1>7 DEF received_from
  <2>3. x.nr = n /\ (SizeOf(n) # 0 => x.size = SizeOf(n))
    BY DEF ReadSize
  <2> HIDE DEF x, n
  <2>4. TurboTypes'
    <3>1. header' \in [Direction -> [mutex : {"free", "W", "R"}, message_in : BOOLEAN, data : Nat]]
      BY <2>2, ZenonT(60) DEF TurboTypes
    <3>2. delivered' \in [Direction -> Seq([nr : Nat, size : Nat])]
      BY <2>0, <2>1, <2>2 DEF TurboTypes
    <3>3. writer' \in [Direction -> {"idle", "hold", "wait_full", "woken"}]
          /\ reader' \in [Direction -> {"idle", "hold", "wait_empty", "woken"}]
          /\ ready' \in [Direction -> BOOLEAN] /\ sent' \in [Direction -> Nat]
          /\ wakes' \in [Direction -> [W : Nat, R : Nat]]
      BY <2>2 DEF TurboTypes
    <3> QED
      BY <3>1, <3>2, <3>3 DEF TurboTypes
  <2>5. /\ delivered'[d] = Append(delivered[d], x) /\ Len(delivered'[d]) = Len(delivered[d]) + 1
        /\ delivered'[d][Len(delivered[d]) + 1] = x
        /\ \A k \in 1 .. Len(delivered[d]) : delivered'[d][k] = delivered[d][k]
        /\ \A e \in Direction \ {d} : delivered'[e] = delivered[e]
    BY <2>0, <2>1, <2>2 DEF TurboTypes
  <2>6. /\ header'[d].mutex = "free" /\ header'[d].message_in = FALSE
        /\ header'[d].data = header[d].data /\ reader'[d] = "idle" /\ ready'[d] = FALSE
        /\ writer'[d] = (IF writer[d] = "wait_full" THEN "woken" ELSE writer[d])
    BY <2>0, <2>2 DEF TurboTypes
  <2>7. Handover(d)'
    BY <2>0, <2>2, <2>6 DEF TurboTypes, Flows, Handover
  <2>8. Len(delivered[d]) \in Nat /\ sent[d] \in Nat /\ wakes[d].W \in Nat /\ wakes[d].R \in Nat
    BY <2>0 DEF TurboTypes
  <2>9. /\ Len(delivered[d]) + 1 - wakes[d].R <= sent[d]
        /\ sent[d] <= Len(delivered[d]) + 1 + wakes[d].W
    BY <2>0, <2>8 DEF Flows, Balance, TurboTypes
  <2>10. Balance(d)'
    BY <2>2, <2>5, <2>6, <2>8, <2>9 DEF Balance
  <2>11. Arrived(d)'
    <3> SUFFICES ASSUME NEW k \in 1 .. Len(delivered'[d])
                 PROVE  /\ k - wakes[d].R <= delivered'[d][k].nr /\ delivered'[d][k].nr <= k + wakes[d].W
                        /\ delivered'[d][k].nr <= sent[d]
                        /\ \A j \in 1 .. k - 1 : delivered'[d][j].nr <= delivered'[d][k].nr
                        /\ SizeOf(delivered'[d][k].nr) # 0 =>
                              delivered'[d][k].size = SizeOf(delivered'[d][k].nr)
      BY <2>2 DEF Arrived
    <3>1. CASE k = Len(delivered[d]) + 1
      <4>1. delivered'[d][k] = x /\ delivered'[d][k].nr = sent[d]
        BY <2>0, <2>3, <2>5, <3>1
      <4>2. \A j \in 1 .. k - 1 : delivered'[d][j].nr <= sent[d]
        BY <2>0, <2>5, <2>8, <3>1 DEF Flows, Arrived
      <4> DEFINE Near(l) == l - wakes[d].R <= sent[d] /\ sent[d] <= l + wakes[d].W
      <4>7. Near(Len(delivered[d]) + 1)
        <5> DEFINE l == Len(delivered[d])
                   s == sent[d]
                   w == wakes[d].W
                   r == wakes[d].R
        <5>1. l \in Nat /\ s \in Nat /\ w \in Nat /\ r \in Nat /\ l + 1 - r <= s /\ s <= l + 1 + w
          BY <2>8, <2>9, Zenon
        <5> HIDE DEF l, s, w, r
        <5>2. (l + 1) - r <= s /\ s <= (l + 1) + w
          BY <5>1
        <5> QED
          BY <5>2, Zenon DEF Near, l, s, w, r
      <4> HIDE DEF Near
      <4>8. Near(k)
        BY <3>1, <4>7, Zenon
      <4>3. k - wakes[d].R <= sent[d] /\ sent[d] <= k + wakes[d].W
        BY <4>8, Zenon DEF Near
      <4>6. sent[d] <= sent[d]
        BY <2>8
      <4>4. \A j \in 1 .. k - 1 : delivered'[d][j].nr <= delivered'[d][k].nr
        BY <4>1, <4>2
      <4>5. SizeOf(delivered'[d][k].nr) # 0 => delivered'[d][k].size = SizeOf(delivered'[d][k].nr)
        <5>1. n = sent[d]
          BY <2>0
        <5> QED
          BY <2>3, <4>1, <5>1, Zenon
      <4> QED
        BY <4>1, <4>3, <4>4, <4>5, <4>6, Zenon
    <3>2. CASE k # Len(delivered[d]) + 1
      <4>1. k \in 1 .. Len(delivered[d])
        BY <2>5, <2>8, <3>2
      <4>2. delivered'[d][k] = delivered[d][k]
            /\ \A j \in 1 .. k - 1 : delivered'[d][j] = delivered[d][j]
        BY <2>5, <2>8, <4>1
      <4> QED
        BY <2>0, <4>1, <4>2 DEF Flows, Arrived
    <3> QED
      BY <3>1, <3>2
  <2>12. \A e \in Direction \ {d} : Flows(e)'
    BY <2>2, <2>5, TurboSame DEF TurboTypes
  <2> QED
    BY <2>4, <2>7, <2>10, <2>11, <2>12 DEF Flows
<1> QED
  BY <1>1, <1>2, <1>3, <1>4, <1>5, <1>6, <1>7 DEF TurboNext

\* The messages of the shared-memory socket are read in order and with their size, for any
\* number of them and every schedule of the two sides; each wait that ends without a
\* notification costs at most one message lost or one read again, and without such a wait
\* each is read exactly once.  The two sides never wait for each other, and a reader that
\* was told that data is ready does not wait (c_turbosocket's tests under "if").
THEOREM TurboArrivesInOrder == TurboSpec => []TurboInOrder
<1>1. TurboInit => TurboInv
  BY DEF TurboInit, TurboInv, TurboTypes, Flows, Handover, Balance, Arrived, NoHeader
<1>2. TurboInv => TurboInOrder
  <2> SUFFICES ASSUME TurboInv, NEW d \in Direction
               PROVE  /\ \A k \in DOMAIN delivered[d] :
                           /\ k - wakes[d].R <= delivered[d][k].nr
                           /\ delivered[d][k].nr <= k + wakes[d].W
                           /\ \A j \in 1 .. k - 1 : delivered[d][j].nr <= delivered[d][k].nr
                           /\ SizeOf(delivered[d][k].nr) # 0 =>
                                 delivered[d][k].size = SizeOf(delivered[d][k].nr)
                      /\ reader[d] = "wait_empty" => writer[d] # "wait_full" /\ ~ready[d]
    BY DEF TurboInOrder
  <2>1. DOMAIN delivered[d] = 1 .. Len(delivered[d])
    BY DEF TurboInv, TurboTypes
  <2>2. Arrived(d) /\ Handover(d)
    BY DEF TurboInv, Flows
  <2>3. reader[d] = "wait_empty" => writer[d] # "wait_full" /\ ~ready[d]
    BY <2>2 DEF Handover
  <2> QED
    BY <2>1, <2>2, <2>3 DEF Arrived
<1> QED
  BY <1>1, <1>2, TurboStep, PTL DEF TurboSpec

-----------------------------------------------------------------------------
\* The service that get_next_ioservice names is one of those in use.
LEMMA NextServiceInUse ==
  ASSUME m_size \in Nat, m_size > 0, m_last_ioservice \in Nat
  PROVE  get_next_ioservice \in Nat /\ get_next_ioservice < m_size
  BY DEF get_next_ioservice

\* The manager grows only, and a card is made only while it is alive.
LEMMA SiomStep == SiomInv /\ [SiomNext]_siomVars => SiomInv'
<1> SUFFICES ASSUME SiomInv, [SiomNext]_siomVars PROVE SiomInv'
  OBVIOUS
<1> USE DEF SiomInv
<1>1. CASE UNCHANGED siomVars
  BY <1>1 DEF siomVars
<1>2. CASE get_asioservice
  BY <1>2 DEF get_asioservice
<1>3. CASE stop_all_threadsafe \/ SiomJoin
  <2>1. m_size' = m_size /\ m_last_ioservice' = m_last_ioservice /\ cards' = cards
        /\ manager' \in {manager, "destroyed"}
    BY <1>3 DEF stop_all_threadsafe, SiomJoin
  <2> QED
    BY <2>1
<1>4. CASE SiomDestructor
  BY <1>4 DEF SiomDestructor
<1>5. ASSUME NEW n \in 1 .. Capacity, resize_to_at_least(n) PROVE SiomInv'
  BY <1>5, CableConstants DEF resize_to_at_least
<1>6. ASSUME NEW s \in Selector, get_card(s) PROVE SiomInv'
  <2>1. m_last_ioservice' \in Nat /\ m_last_ioservice' < m_size
    BY <1>6, NextServiceInUse DEF get_card
  <2> QED
    BY <1>6, <2>1 DEF get_card
<1>7. ASSUME NEW i \in Services, ServiceThread(i) PROVE SiomInv'
  BY <1>7 DEF ServiceThread
<1> QED
  BY <1>1, <1>2, <1>3, <1>4, <1>5, <1>6, <1>7 DEF SiomNext

\* Every card has a service that the manager runs, whatever the capacity and however
\* often it was resized or stopped.
THEOREM CardsServed == SiomSpec => []CardsAreServed
<1>1. SiomInit => SiomInv
  BY DEF SiomInit, SiomInv
<1>2. SiomInv => CardsAreServed
  BY DEF SiomInv, CardsAreServed
<1> QED
  BY <1>1, <1>2, SiomStep, PTL DEF SiomSpec

-----------------------------------------------------------------------------
\* An element of a sequence is replaced.
LEMMA ReplaceFacts ==
  ASSUME NEW S, NEW q \in Seq(S), NEW i \in 1 .. Len(q), NEW x \in S
  PROVE  /\ [q EXCEPT ![i] = x] \in Seq(S) /\ Len([q EXCEPT ![i] = x]) = Len(q)
         /\ [q EXCEPT ![i] = x][i] = x
         /\ \A k \in 1 .. Len(q) : k # i => [q EXCEPT ![i] = x][k] = q[k]
  OBVIOUS

\* Two threads that run on elements have different ones locked, because the lock is
\* taken only where no thread has it.
LEMMA VectorStep == VectorInv /\ [VectorNext]_vectorVars => VectorInv'
<1> SUFFICES ASSUME VectorInv, [VectorNext]_vectorVars PROVE VectorInv'
  OBVIOUS
<1> USE DEF VectorInv
<1>1. CASE UNCHANGED vectorVars
  BY <1>1 DEF vectorVars, CallTypes, MatchedOnUse
<1>2. CASE push_back
  <2>1. /\ Len(m_data') = Len(m_data) + 1 /\ \A i \in 1 .. Len(m_data) : m_data'[i] = m_data[i]
        /\ m_data' \in Seq(Slot) /\ Len(m_data) \in Nat
    BY <1>2 DEF push_back, CallTypes, Slot
  <2>2. CallTypes'
    BY <1>2, <2>1 DEF push_back, CallTypes
  <2>3. MatchedOnUse'
    BY <1>2, <2>1 DEF push_back, MatchedOnUse, CallTypes
  <2> QED
    BY <2>2, <2>3
<1>a. /\ m_data \in Seq(Slot) /\ Len(m_data) \in Nat /\ call \in [Caller -> CallRecord]
      /\ \A c \in Caller : call[c] \in CallRecord
  BY DEF CallTypes
<1>b. ASSUME NEW c \in Caller, NEW r \in CallRecord, m_data' = m_data, call' = [call EXCEPT ![c] = r],
             r.at \in {"idle", "test", "matched"}, r.at = "test" => r.i > 0,
             r.at = "matched" => r.i \in 1 .. Len(m_data)
      PROVE  VectorInv'
  <2>1. CallTypes'
    BY <1>a, <1>b DEF CallTypes
  <2>2. MatchedOnUse'
    BY <1>a, <1>b DEF MatchedOnUse
  <2> QED
    BY <2>1, <2>2
<1>3. ASSUME NEW c \in Caller, NEW i \in 1 .. Element, run_on(c, i) PROVE VectorInv'
  <2>1. /\ m_data' \in Seq(Slot) /\ Len(m_data') = Len(m_data) /\ call' = call /\ ~m_data[i].RW
        /\ \A k \in 1 .. Len(m_data) : k # i => m_data'[k] = m_data[k]
    <3> DEFINE x == [m_data[i] EXCEPT !.state = "match"]
    <3>1. i \in 1 .. Len(m_data) /\ m_data[i] \in Slot
      BY <1>3, <1>a DEF run_on
    <3>2. x \in Slot
      BY <3>1 DEF Slot
    <3>3. m_data' = [m_data EXCEPT ![i] = x] /\ call' = call /\ ~m_data[i].RW
      BY <1>3 DEF run_on
    <3> HIDE DEF x
    <3> QED
      BY <1>a, <3>1, <3>2, <3>3, ReplaceFacts
  <2>2. CallTypes'
    BY <2>1 DEF CallTypes
  <2>3. MatchedOnUse'
    BY <2>1 DEF CallTypes, MatchedOnUse
  <2> QED
    BY <2>2, <2>3
<1>4. ASSUME NEW c \in Caller, run_on_matching(c) PROVE VectorInv'
  <2> DEFINE r == [NoCall EXCEPT !.at = "test", !.i = 1]
  <2>0. NoCall \in CallRecord
    BY DEF NoCall, CallRecord
  <2>1. r \in CallRecord /\ r.at = "test" /\ r.i = 1
    BY <2>0 DEF CallRecord
  <2>2. call' = [call EXCEPT ![c] = r] /\ m_data' = m_data
    BY <1>4 DEF run_on_matching
  <2> HIDE DEF r
  <2>3. r.at \in {"idle", "test", "matched"} /\ (r.at = "test" => r.i > 0)
        /\ (r.at = "matched" => r.i \in 1 .. Len(m_data))
    BY <2>1
  <2> QED
    BY <1>b, <2>1, <2>2, <2>3
<1>5. ASSUME NEW c \in Caller, TestElement(c) PROVE VectorInv'
  <2>0. /\ call[c].i \in Nat /\ call[c].i > 0 /\ call[c] \in CallRecord /\ m_data' = m_data
        /\ call[c].at = "test"
    BY <1>5, <1>a DEF TestElement, CallTypes, CallRecord
  <2>1. CASE call' = [call EXCEPT ![c] = NoCall]
    BY <2>0, <2>1, <1>b DEF NoCall, CallRecord
  <2>2. CASE call[c].i <= Len(m_data) /\ call' = [call EXCEPT ![c] = [call[c] EXCEPT !.at = "matched"]]
    <3> DEFINE r == [call[c] EXCEPT !.at = "matched"]
    <3>0. r \in CallRecord /\ r.at = "matched" /\ r.i = call[c].i
      BY <2>0 DEF CallRecord
    <3>1. r.i \in 1 .. Len(m_data)
      BY <1>a, <2>0, <2>2, <3>0
    <3> HIDE DEF r
    <3> QED
      BY <2>0, <2>2, <3>0, <3>1, <1>b DEF r
  <2>3. CASE call' = [call EXCEPT ![c] = [call[c] EXCEPT !.i = call[c].i + 1]]
    <3> DEFINE r == [call[c] EXCEPT !.i = call[c].i + 1]
    <3>1. r \in CallRecord /\ r.at = "test" /\ r.i > 0
      BY <2>0 DEF CallRecord
    <3> HIDE DEF r
    <3> QED
      BY <2>0, <2>3, <3>1, <1>b DEF r
  <2> QED
    BY <1>a, <1>5, <2>0, <2>1, <2>2, <2>3 DEF TestElement
<1>6. ASSUME NEW c \in Caller, NEW limit \in {1, 2}, LockMatched(c, limit) PROVE VectorInv'
  <2> DEFINE j == call[c].i
  <2>0. j \in 1 .. Len(m_data) /\ j \in Nat /\ ~m_data[j].RW /\ call[c].at = "matched"
        /\ call[c] \in CallRecord /\ call[c].so_far \in Nat
    BY <1>6, <1>a DEF LockMatched, CallTypes, CallRecord
  <2>1. CASE MatchedAgain(j)
    <3> DEFINE r == [at |-> IF call[c].so_far + 1 >= limit THEN "last" ELSE "run",
                     i |-> j, so_far |-> call[c].so_far + 1]
    <3>0. m_data' = [m_data EXCEPT ![j].RW = TRUE] /\ m_data[j].state = "match"
      BY <1>6, <2>1 DEF LockMatched, MatchedAgain
    <3>1. call' = [call EXCEPT ![c] = r]
      BY <1>6, <1>a, <2>0, <2>1 DEF LockMatched, CallRecord
    <3>2. r \in CallRecord /\ r.at \in {"run", "last"} /\ r.i = j
      BY <2>0 DEF CallRecord
    <3>3. /\ m_data' \in Seq(Slot) /\ Len(m_data') = Len(m_data)
          /\ m_data'[j].RW /\ m_data'[j].state = "match"
          /\ \A k \in 1 .. Len(m_data) : k # j => m_data'[k] = m_data[k]
      <4> DEFINE x == [m_data[j] EXCEPT !.RW = TRUE]
      <4>1. m_data[j] \in Slot
        BY <1>a, <2>0
      <4>2. x \in Slot /\ x.RW /\ x.state = "match"
        BY <3>0, <4>1 DEF Slot
      <4>3. m_data' = [m_data EXCEPT ![j] = x]
        BY <3>0
      <4> HIDE DEF x, j
      <4> QED
        BY <1>a, <2>0, <4>2, <4>3, ReplaceFacts
    <3> HIDE DEF r, j
    <3>4. call'[c] = r /\ (\A o \in Caller : o # c => call'[o] = call[o])
          /\ call' \in [Caller -> CallRecord]
      BY <1>a, <3>1, <3>2
    <3>5. CallTypes'
      BY <2>0, <3>2, <3>3, <3>4 DEF CallTypes
    <3>6. ASSUME NEW o \in Caller \ {c}, call[o].at \in {"run", "last"}
          PROVE  /\ call[o].i \in 1 .. Len(m_data) /\ call[o].i # j
                 /\ m_data[call[o].i].state = "match" /\ m_data[call[o].i].RW
      BY <2>0, <3>6 DEF CallTypes, MatchedOnUse
    <3>7. MatchedOnUse'
      <4>1. ASSUME NEW d \in Caller, call'[d].at \in {"run", "last"}
            PROVE  /\ m_data'[call'[d].i].state = "match" /\ m_data'[call'[d].i].RW
                   /\ \A o \in Caller \ {d} : call'[o].at \in {"run", "last"} => call'[o].i # call'[d].i
        <5>1. CASE d = c
          BY <3>2, <3>3, <3>4, <3>6, <5>1
        <5>2. CASE d # c
          BY <3>2, <3>3, <3>4, <3>6, <4>1, <5>2 DEF MatchedOnUse
        <5> QED
          BY <5>1, <5>2
      <4> QED
        BY <4>1 DEF MatchedOnUse
    <3> QED
      BY <3>5, <3>7
  <2>2. CASE ~MatchedAgain(j)
    <3> DEFINE r == [at |-> "test", i |-> j + 1, so_far |-> call[c].so_far]
    <3>0. m_data' = m_data /\ call' = [call EXCEPT ![c] = r]
      BY <1>6, <1>a, <2>0, <2>2 DEF LockMatched, CallRecord
    <3>1. r \in CallRecord /\ r.at = "test" /\ r.i > 0
      BY <2>0 DEF CallRecord
    <3> HIDE DEF r
    <3> QED
      BY <1>b, <3>0, <3>1
  <2> QED
    BY <2>1, <2>2
<1>7. ASSUME NEW c \in Caller, RunElement(c) PROVE VectorInv'
  <2> DEFINE j == call[c].i
             r == IF call[c].at = "last" THEN NoCall
                  ELSE [at |-> "test", i |-> j + 1, so_far |-> call[c].so_far]
  <2>0. /\ j \in 1 .. Len(m_data) /\ j \in Nat /\ call[c].at \in {"run", "last"}
        /\ call[c] \in CallRecord /\ call[c].so_far \in Nat
    BY <1>7, <1>a DEF RunElement, CallTypes, CallRecord
  <2>1. m_data' = [m_data EXCEPT ![j] = [state |-> "used", RW |-> FALSE]]
    BY <1>7 DEF RunElement
  <2>2. call' = [call EXCEPT ![c] = r]
    BY <1>7, <1>a, <2>0 DEF RunElement, CallRecord
  <2>3. r \in CallRecord /\ r.at \in {"idle", "test"} /\ (r.at = "test" => r.i > 0)
    BY <2>0 DEF CallRecord, NoCall
  <2>4. /\ m_data' \in Seq(Slot) /\ Len(m_data') = Len(m_data)
        /\ \A k \in 1 .. Len(m_data) : k # j => m_data'[k] = m_data[k]
    BY <1>a, <2>0, <2>1 DEF Slot
  <2>5. \A o \in Caller \ {c} : call[o].at \in {"run", "last"} => call[o].i # j
    BY <2>0 DEF MatchedOnUse
  <2> HIDE DEF r, j
  <2>6. call'[c] = r /\ (\A o \in Caller : o # c => call'[o] = call[o])
        /\ call' \in [Caller -> CallRecord]
    BY <1>a, <2>2, <2>3
  <2>7. CallTypes'
    BY <2>3, <2>4, <2>6 DEF CallTypes
  <2>8. MatchedOnUse'
    BY <2>3, <2>4, <2>5, <2>6 DEF CallTypes, MatchedOnUse
  <2> QED
    BY <2>7, <2>8
<1> QED
  BY <1>1, <1>2, <1>3, <1>4, <1>5, <1>6, <1>7 DEF VectorNext

\* What run_on_matching uses still matches, and no two threads use one element, for any
\* number of threads and elements (vector_mutexed_obj.hpp).
THEOREM ElementsMatchOnUse == VectorSpec => []MatchedOnUse
<1>1. VectorInit => VectorInv
  BY DEF VectorInit, VectorInv, CallTypes, MatchedOnUse, NoCall, CallRecord, Slot
<1>2. VectorInv => MatchedOnUse
  BY DEF VectorInv
<1> QED
  BY <1>1, <1>2, VectorStep, PTL DEF VectorSpec

\* A card gets a service that runs and an element that was found to match still matches
\* when it is used, in every behaviour of the model of the transports.
THEOREM SharedObjects == MCSpec => []SharedObjectsHold
<1>1. CardsAreServed /\ MatchedOnUse => SharedObjectsHold
  BY DEF SharedObjectsHold
<1> QED
  BY <1>1, PartsOfTransports, CardsServed, ElementsMatchOnUse, PTL

-----------------------------------------------------------------------------
\* The network model.

Task == ({"send"} \X Weld) \union ({"receive"} \X Inbuf)
IosTask == {Idle, <<"ended">>} \union ({"strand", "mutex"} \X Sock \X Task)

WeldRecord == [frags : Seq(Nat), m_pos : Nat, m_reserved : BOOLEAN]
WorkerRecord == [at : {"none", "pick", "read", "ended", "undefined"}, weld : {0} \union Weld]

NetShape ==
  /\ weld \in [Weld -> WeldRecord]
  /\ worker \in [Worker -> WorkerRecord]
  /\ \A k \in Worker : worker[k].at = "read" => worker[k].weld \in Weld
  /\ strand \in [Sock -> Seq(Task)]
  /\ ios_thread \in [Thread -> IosTask]
  /\ sending \subseteq Weld
  /\ tun \in Nat /\ wire \in Seq(Nat)

\* Until the workers start, nothing has happened.
NotStarted ==
  asiotest \in {"parse", "start"} =>
    /\ weld = [w \in Weld |-> c_weld] /\ worker = [k \in Worker |-> Free]
    /\ \A s \in Sock : strand[s] = <<>>
    /\ \A t \in Thread : Len(ios_thread[t]) = 1
    /\ \A b \in Inbuf : flow[b] = "none"
    /\ sending = {} /\ posted = {}

\* Thread t is in a task of socket s.
Using(t, s) == Len(ios_thread[t]) = 3 /\ ios_thread[t][2] = s

\* With mt_strand nothing is posted past the strands, and a strand runs one task.
OneUser ==
  option.mt = {"strand"} =>
    /\ posted = {}
    /\ \A t \in Thread : ios_thread[t][1] # "mutex"
    /\ \A s \in Sock, t, u \in Thread : Using(t, s) /\ Using(u, s) => t = u

\* The four places a weld is held at: a worker reads into it, its send is in the queue of
\* a strand, a thread has begun its send, asio has it.
Works(k, w) == worker[k].at = "read" /\ worker[k].weld = w
Queued(s, i, w) == i \in 1 .. Len(strand[s]) /\ strand[s][i] = <<"send", w>>
Sends(t, w) == Len(ios_thread[t]) = 3 /\ ios_thread[t][3] = <<"send", w>>

\* A weld is held at one place at most, and only while it is reserved.
Exclusive(w) ==
  /\ \A k, l \in Worker : Works(k, w) /\ Works(l, w) => k = l
  /\ \A r, s \in Sock, i, j \in Nat : Queued(r, i, w) /\ Queued(s, j, w) => r = s /\ i = j
  /\ \A t, u \in Thread : Sends(t, w) /\ Sends(u, w) => t = u
  /\ \A k \in Worker, s \in Sock, i \in Nat : ~(Works(k, w) /\ Queued(s, i, w))
  /\ \A k \in Worker, t \in Thread : ~(Works(k, w) /\ Sends(t, w))
  /\ \A t \in Thread, s \in Sock, i \in Nat : ~(Sends(t, w) /\ Queued(s, i, w))
  /\ w \in sending => /\ \A k \in Worker : ~Works(k, w)
                      /\ \A s \in Sock, i \in Nat : ~Queued(s, i, w)
                      /\ \A t \in Thread : ~Sends(t, w)
  /\ ~weld[w].m_reserved => /\ w \notin sending /\ \A k \in Worker : ~Works(k, w)
                            /\ \A s \in Sock, i \in Nat : ~Queued(s, i, w)
                            /\ \A t \in Thread : ~Sends(t, w)

\* With the real tuntap a reservation always has its holder.
Held(w) ==
  weld[w].m_reserved /\ option.real =>
    \/ w \in sending
    \/ \E k \in Worker : Works(k, w)
    \/ \E s \in Sock, i \in Nat : Queued(s, i, w)
    \/ \E t \in Thread : Sends(t, w)

\* A weld that is free or read into has room for one more read.
Room(w) ==
  ~weld[w].m_reserved \/ (\E k \in Worker : Works(k, w)) => space_left(weld[w]) >= TunRead

\* Every packet is in one place.
Packets ==
  /\ \A w \in Weld : Len(weld[w].frags) <= FragMax
  /\ \A w \in Weld : \A i \in 1 .. Len(weld[w].frags) : weld[w].frags[i] \in 1 .. tun
  /\ \A i \in 1 .. Len(wire) : wire[i] \in 1 .. tun
  /\ \A w, v \in Weld : \A i \in 1 .. Len(weld[w].frags), j \in 1 .. Len(weld[v].frags) :
       weld[w].frags[i] = weld[v].frags[j] => w = v /\ i = j
  /\ \A i, j \in 1 .. Len(wire) : wire[i] = wire[j] => i = j
  /\ \A w \in Weld : \A i \in 1 .. Len(weld[w].frags), j \in 1 .. Len(wire) :
       weld[w].frags[i] # wire[j]
  /\ \A p \in 1 .. tun : \/ \E w \in Weld : \E i \in 1 .. Len(weld[w].frags) : weld[w].frags[i] = p
                         \/ \E i \in 1 .. Len(wire) : wire[i] = p

NetInv ==
  /\ NetShape /\ NotStarted /\ OneUser /\ Packets
  /\ \A w \in Weld : Exclusive(w) /\ Held(w) /\ Room(w)

-----------------------------------------------------------------------------
\* What a thread of the io_service is in: nothing, its end, or a task of a socket.
LEMMA IosFacts ==
  ASSUME NEW x \in IosTask
  PROVE  \/ x = Idle /\ Len(x) = 1 /\ x[1] = "idle"
         \/ x = <<"ended">> /\ Len(x) = 1 /\ x[1] = "ended" /\ x # Idle
         \/ /\ Len(x) = 3 /\ x # Idle /\ x[1] \in {"strand", "mutex"} /\ x[2] \in Sock
            /\ x[3] \in Task
<1>1. CASE x = Idle
  BY <1>1 DEF Idle
<1>2. CASE x = <<"ended">>
  BY <1>2 DEF Idle
<1>3. CASE x \in {"strand", "mutex"} \X Sock \X Task
  BY <1>3 DEF Idle
<1> QED
  BY <1>1, <1>2, <1>3 DEF IosTask

\* A new task of a thread.
LEMMA NewTask ==
  ASSUME NEW m \in {"strand", "mutex"}, NEW s \in Sock, NEW y \in Task
  PROVE  /\ <<m, s, y>> \in IosTask /\ Len(<<m, s, y>>) = 3
         /\ <<m, s, y>>[1] = m /\ <<m, s, y>>[2] = s /\ <<m, s, y>>[3] = y
  BY DEF IosTask

\* A task is the send of a weld or a read into a buffer.
LEMMA TaskFacts ==
  ASSUME NEW y \in Task
  PROVE  /\ y[1] = "send" => y[2] \in Weld /\ \A w : y = <<"send", w>> <=> w = y[2]
         /\ y[1] # "send" => \A w : y # <<"send", w>>
  BY DEF Task

\* A sequence grows at its end, or loses its head.
LEMMA AppendFacts ==
  ASSUME NEW S, NEW q \in Seq(S), NEW x \in S
  PROVE  /\ Append(q, x) \in Seq(S) /\ Len(Append(q, x)) = Len(q) + 1 /\ Len(q) \in Nat
         /\ Append(q, x)[Len(q) + 1] = x
         /\ \A i \in 1 .. Len(q) : Append(q, x)[i] = q[i]
  OBVIOUS

\* A queue without its head.
LEMMA PopFacts ==
  ASSUME NEW S, NEW q \in Seq(S), q # <<>>
  PROVE  /\ Tail(q) \in Seq(S) /\ Len(Tail(q)) = Len(q) - 1 /\ Len(q) \in Nat /\ Len(q) >= 1
         /\ Head(q) = q[1] /\ q[1] \in S
         /\ \A i \in 1 .. Len(q) - 1 : Tail(q)[i] = q[i + 1]
  OBVIOUS

\* Nonempty sets of naturals have a least element.
LEMMA LeastElement ==
  ASSUME NEW T, T \subseteq Nat, T # {}
  PROVE  \E x \in T : \A y \in T : x <= y
<1>1. PICK x \in T : \A y \in T : ~ (<<y, x>> \in OpToRel(<, Nat))
  BY WFMin, NatLessThanWellFounded, Zenon
<1>2. \A y \in T : y \in Nat /\ x \in Nat
  OBVIOUS
<1>3. \A y \in T : <<y, x>> \in Nat \X Nat
  BY <1>2
<1>4. \A y \in T : ~(y < x)
  BY <1>1, <1>3 DEF OpToRel
<1> QED
  BY <1>2, <1>4

\* The weld that get_tun_input_buffer finds is free and has room.
LEMMA FoundIsUsable ==
  ASSUME FirstUsable # 0
  PROVE  /\ FirstUsable \in Weld /\ ~weld[FirstUsable].m_reserved
         /\ space_left(weld[FirstUsable]) >= TunRead
<1>1. Usable # {} /\ FirstUsable = CHOOSE w \in Usable : \A v \in Usable : w <= v
  BY DEF FirstUsable
<1>2. Usable \subseteq Nat
  BY NetConstants DEF Usable
<1>3. FirstUsable \in Usable
  BY <1>1, <1>2, LeastElement
<1> QED
  BY <1>3 DEF Usable

\* The program has one method when it uses one.
LEMMA StrandMethod ==
  ASSUME option.mt = {"strand"} PROVE cfg_mt_method = "strand"
  BY DEF cfg_mt_method

\* A fragment goes to the end of a weld.
LEMMA FragmentFacts ==
  ASSUME NetShape, NEW w \in Weld, NEW size \in 0 .. TunBuf
  PROVE  /\ add_fragment(w, size) \in WeldRecord
         /\ add_fragment(w, size).frags = Append(weld[w].frags, tun + 1)
         /\ add_fragment(w, size).m_reserved = weld[w].m_reserved
<1>1. weld[w] \in WeldRecord /\ tun + 1 \in Nat /\ size \in Nat
  BY NetConstants DEF NetShape
<1>2. weld[w].frags \in Seq(Nat) /\ weld[w].m_pos \in Nat /\ weld[w].m_reserved \in BOOLEAN
  BY <1>1 DEF WeldRecord
<1>3. Append(weld[w].frags, tun + 1) \in Seq(Nat) /\ weld[w].m_pos + size \in Nat
  BY <1>1, <1>2
<1> QED
  BY <1>1, <1>3 DEF add_fragment, WeldRecord

\* A weld that is given back or reserved is a weld, with the same packets.
LEMMA ReservedFacts ==
  ASSUME NEW x \in WeldRecord, NEW r \in BOOLEAN
  PROVE  /\ [x EXCEPT !.m_reserved = r] \in WeldRecord
         /\ [x EXCEPT !.m_reserved = r].frags = x.frags
         /\ [x EXCEPT !.m_reserved = r].m_reserved = r
         /\ space_left([x EXCEPT !.m_reserved = r]) = space_left(x)
  BY DEF WeldRecord, space_left

\* The steps of the network model keep the shape of its state.
LEMMA ShapeStep == NetShape /\ [NetNext]_netVars => NetShape'
<1> SUFFICES ASSUME NetShape, [NetNext]_netVars PROVE NetShape'
  OBVIOUS
<1> USE DEF NetShape
<1>0. CASE UNCHANGED netVars \/ ParseOptions \/ handler_signal_term \/ thread_stop \/ JoinAll
  BY <1>0 DEF netVars, ParseOptions, handler_signal_term, thread_stop, JoinAll
<1>1. CASE StartWorkers
  <2>1. CASE option.async
    <3>1. \A w \in Weld : [weld[w] EXCEPT !.m_reserved = w \in Worker] \in WeldRecord
      <4> SUFFICES ASSUME NEW w \in Weld PROVE [weld[w] EXCEPT !.m_reserved = w \in Worker] \in WeldRecord
        OBVIOUS
      <4> DEFINE r == w \in Worker
      <4>1. r \in BOOLEAN
        OBVIOUS
      <4> HIDE DEF r
      <4>2. [weld[w] EXCEPT !.m_reserved = r] \in WeldRecord
        BY <4>1, ReservedFacts
      <4> QED
        BY <4>2 DEF r
    <3> DEFINE Y(w) == [weld[w] EXCEPT !.m_reserved = w \in Worker]
    <3>2a. weld' = [w \in Weld |-> Y(w)]
      BY <1>1, <2>1, Zenon DEF StartWorkers
    <3>2b. \A w \in Weld : Y(w) \in WeldRecord
      BY <3>1, Zenon
    <3> HIDE DEF Y
    <3>2. weld' \in [Weld -> WeldRecord]
      BY <3>2a, <3>2b, Zenon
    <3>3. worker' = [k \in Worker |-> IF k \in Weld THEN [at |-> "read", weld |-> k] ELSE Free]
          /\ UNCHANGED <<strand, ios_thread, sending, tun, wire>>
      BY <1>1, <2>1 DEF StartWorkers
    <3>4. worker' \in [Worker -> WorkerRecord]
          /\ \A k \in Worker : worker'[k].at = "read" => worker'[k].weld \in Weld
      BY <3>3 DEF Free, WorkerRecord
    <3> QED
      BY <3>2, <3>3, <3>4
  <2>2. CASE ~option.async
    BY <1>1, <2>2 DEF StartWorkers, WorkerRecord
  <2> QED
    BY <2>1, <2>2
<1>2. ASSUME NEW b \in Inbuf, NEW q, strand' = [strand EXCEPT ![q] = Append(@, <<"receive", b>>)]
      PROVE  strand' \in [Sock -> Seq(Task)]
  <2> DEFINE x == <<"receive", b>>
  <2>1. x \in Task /\ strand' = [strand EXCEPT ![q] = Append(@, x)]
    BY <1>2 DEF Task
  <2> HIDE DEF x
  <2>2. CASE q \in Sock
    BY <2>1, <2>2
  <2>3. CASE q \notin Sock
    BY <2>1, <2>3
  <2> QED
    BY <2>2, <2>3
<1>3. ASSUME NEW b \in Inbuf, func_spawn_flow_wire(b) PROVE NetShape'
  BY <1>2, <1>3 DEF func_spawn_flow_wire
<1>4. ASSUME NEW k \in Worker, get_tun_input_buffer(k) PROVE NetShape'
  <2> DEFINE f == FirstUsable
  <2>1. f \in Weld
    BY <1>4, FoundIsUsable DEF get_tun_input_buffer
  <2>2. /\ weld' = [weld EXCEPT ![f].m_reserved = TRUE]
        /\ worker' = [worker EXCEPT ![k] = [at |-> "read", weld |-> f]]
        /\ UNCHANGED <<strand, ios_thread, sending, tun, wire>>
    BY <1>4 DEF get_tun_input_buffer
  <2> HIDE DEF f
  <2>3. weld' \in [Weld -> WeldRecord]
    BY <2>1, <2>2, ReservedFacts
  <2>4. worker' \in [Worker -> WorkerRecord]
        /\ \A l \in Worker : worker'[l].at = "read" => worker'[l].weld \in Weld
    BY <2>1, <2>2 DEF WorkerRecord
  <2> QED
    BY <2>2, <2>3, <2>4
<1>5. ASSUME NEW k \in Worker, NEW size \in 0 .. TunBuf, TuntapRead(k, size) PROVE NetShape'
  <2> DEFINE w == worker[k].weld
             after == add_fragment(w, size)
  <2>1. /\ w \in Weld /\ tun' = tun + 1 /\ UNCHANGED <<ios_thread, sending, wire>>
        /\ worker' = [worker EXCEPT ![k] = [at |-> IF option.async THEN "undefined" ELSE "pick",
                                            weld |-> 0]]
    BY <1>5 DEF TuntapRead, send_to_global_weld
  <2>2. \/ weld' = [weld EXCEPT ![w] = after]
           /\ \E s \in Sock : strand' = [strand EXCEPT ![s] = Append(@, <<"send", w>>)]
        \/ weld' = [weld EXCEPT ![w] = [after EXCEPT !.m_reserved = FALSE]] /\ strand' = strand
    BY <1>5 DEF TuntapRead, send_to_global_weld, func_send_weld
  <2> DEFINE x == <<"send", w>>
             back == [after EXCEPT !.m_reserved = FALSE]
  <2>3. after \in WeldRecord /\ back \in WeldRecord /\ x \in Task
    BY <2>1, FragmentFacts, ReservedFacts DEF Task
  <2> HIDE DEF w, after, x, back
  <2>4. weld' \in [Weld -> WeldRecord]
    BY <2>1, <2>2, <2>3 DEF back
  <2>5. strand' \in [Sock -> Seq(Task)]
    <3>1. CASE strand' = strand
      BY <3>1
    <3>2. ASSUME NEW s \in Sock, strand' = [strand EXCEPT ![s] = Append(@, x)]
          PROVE  strand' \in [Sock -> Seq(Task)]
      BY <2>3, <3>2
    <3> QED
      BY <2>2, <3>1, <3>2 DEF x
  <2>6. worker' \in [Worker -> WorkerRecord]
        /\ \A l \in Worker : worker'[l].at = "read" => worker'[l].weld \in Weld
    BY <2>1 DEF WorkerRecord
  <2> QED
    BY <2>1, <2>4, <2>5, <2>6
<1>6. ASSUME NEW k \in Worker, TuntapReadThrows(k) \/ WorkerEnds(k) PROVE NetShape'
  <2>1. worker' \in [Worker -> WorkerRecord]
        /\ \A l \in Worker : worker'[l].at = "read" => worker'[l].weld \in Weld
    <3>1. CASE TuntapReadThrows(k)
      BY <3>1 DEF TuntapReadThrows, WorkerRecord
    <3>2. CASE WorkerEnds(k)
      BY <3>2 DEF WorkerEnds, WorkerRecord
    <3> QED
      BY <1>6, <3>1, <3>2
  <2> QED
    BY <1>6, <2>1 DEF TuntapReadThrows, WorkerEnds
<1>7. ASSUME NEW t \in Thread, NEW x \in IosTask, ios_thread' = [ios_thread EXCEPT ![t] = x]
      PROVE  ios_thread' \in [Thread -> IosTask]
  BY <1>7
<1>8. ASSUME NEW t \in Thread, NEW s \in Sock, RunStrand(t, s) PROVE NetShape'
  <2>1. Head(strand[s]) \in Task /\ strand' \in [Sock -> Seq(Task)]
    BY <1>8, PopFacts DEF RunStrand
  <2>2. <<"strand", s, Head(strand[s])>> \in IosTask
    BY <2>1, NewTask
  <2> QED
    BY <1>7, <1>8, <2>1, <2>2 DEF RunStrand
<1>9. ASSUME NEW t \in Thread, NEW b \in Inbuf, NEW s \in Sock, RunPosted(t, b, s) PROVE NetShape'
  <2>1. <<"receive", b>> \in Task
    BY DEF Task
  <2>2. <<"mutex", s, <<"receive", b>>>> \in IosTask
    BY <2>1, NewTask
  <2> QED
    BY <1>7, <1>9, <2>2 DEF RunPosted
<1>10. ASSUME NEW t \in Thread, UseSocket(t) PROVE NetShape'
  <2>1. ios_thread[t][3] \in Task
    BY <1>10, IosFacts DEF UseSocket
  <2>2. sending' \subseteq Weld
    BY <1>10, <2>1, TaskFacts DEF UseSocket
  <2>3. Idle \in IosTask
    BY DEF IosTask
  <2> QED
    BY <1>7, <1>10, <2>2, <2>3 DEF UseSocket
<1>11. ASSUME NEW t \in Thread, NEW w \in Weld, SendDone(t, w) PROVE NetShape'
  <2>1. c_weld \in WeldRecord
    BY DEF c_weld, WeldRecord
  <2>2. wire' \in Seq(Nat)
    BY <1>11 DEF SendDone, WeldRecord
  <2> HIDE DEF c_weld
  <2> QED
    BY <1>11, <2>1, <2>2 DEF SendDone
<1>12. ASSUME NEW t \in Thread, NEW b \in Inbuf, NEW ec \in BOOLEAN, NEW exit \in BOOLEAN,
              handler_receive(t, b, ec, exit)
       PROVE  NetShape'
  <2>1. strand' \in [Sock -> Seq(Task)]
    BY <1>2, <1>12 DEF handler_receive
  <2> QED
    BY <1>12, <2>1 DEF handler_receive
<1>13. ASSUME NEW t \in Thread, ThreadEnds(t) PROVE NetShape'
  <2>1. <<"ended">> \in IosTask
    BY DEF IosTask
  <2> QED
    BY <1>7, <1>13, <2>1 DEF ThreadEnds
<1> QED
  BY <1>0, <1>1, <1>3, <1>4, <1>5, <1>6, <1>8, <1>9, <1>10, <1>11, <1>12, <1>13
  DEF NetNext, WireThread

\* Nothing runs before the workers start.
LEMMA NotStartedStep == NetShape /\ NotStarted /\ [NetNext]_netVars => NotStarted'
<1> SUFFICES ASSUME NetShape, NotStarted, [NetNext]_netVars, asiotest' \in {"parse", "start"}
             PROVE  NotStarted'
  BY DEF NotStarted
<1>1. CASE UNCHANGED netVars \/ ParseOptions \/ handler_signal_term \/ thread_stop
  BY <1>1 DEF netVars, ParseOptions, handler_signal_term, thread_stop, NotStarted
<1>2. ~StartWorkers /\ ~JoinAll /\ \A b \in Inbuf : ~func_spawn_flow_wire(b)
  BY DEF StartWorkers, JoinAll, func_spawn_flow_wire
<1>3. CASE asiotest \in {"parse", "start"} /\ asiotest' = asiotest
  <2>0. /\ weld = [w \in Weld |-> c_weld] /\ worker = [k \in Worker |-> Free]
        /\ \A s \in Sock : strand[s] = <<>>
        /\ \A t \in Thread : Len(ios_thread[t]) = 1
        /\ \A b \in Inbuf : flow[b] = "none"
        /\ sending = {} /\ posted = {}
    BY <1>3 DEF NotStarted
  <2>1. ASSUME NEW k \in Worker
        PROVE  /\ ~get_tun_input_buffer(k) /\ ~TuntapReadThrows(k) /\ ~WorkerEnds(k)
               /\ \A size \in 0 .. TunBuf : ~TuntapRead(k, size)
    BY <2>0 DEF Free, get_tun_input_buffer, TuntapReadThrows, WorkerEnds, TuntapRead, send_to_global_weld
  <2>2. ASSUME NEW t \in Thread
        PROVE  /\ \A s \in Sock : ~RunStrand(t, s)
               /\ \A b \in Inbuf, s \in Sock : ~RunPosted(t, b, s)
               /\ \A w \in Weld : ~SendDone(t, w)
               /\ \A b \in Inbuf, ec, exit \in BOOLEAN : ~handler_receive(t, b, ec, exit)
    BY <2>0 DEF RunStrand, RunPosted, SendDone, handler_receive
  <2>3. ASSUME NEW t \in Thread PROVE ~UseSocket(t)
    <3>1. ios_thread[t] \in IosTask /\ Len(ios_thread[t]) = 1
      BY <2>0 DEF NetShape
    <3> QED
      BY <3>1, IosFacts DEF UseSocket
  <2>4. ASSUME NEW t \in Thread, ThreadEnds(t) PROVE NotStarted'
    <3>1. \A u \in Thread : Len(ios_thread'[u]) = 1
      BY <2>0, <2>4 DEF ThreadEnds, NetShape
    <3> QED
      BY <2>0, <2>4, <3>1 DEF ThreadEnds, NotStarted
  <2> QED
    BY <1>1, <1>2, <2>1, <2>2, <2>3, <2>4 DEF NetNext, WireThread
<1>4. CASE \E k \in Worker : \/ get_tun_input_buffer(k) \/ TuntapReadThrows(k) \/ WorkerEnds(k)
                             \/ \E size \in 0 .. TunBuf : TuntapRead(k, size)
  BY <1>3, <1>4 DEF get_tun_input_buffer, TuntapReadThrows, WorkerEnds, TuntapRead, send_to_global_weld
<1>5. CASE \E t \in Thread : WireThread(t)
  BY <1>3, <1>5 DEF WireThread, RunStrand, RunPosted, UseSocket, SendDone, handler_receive, ThreadEnds
<1> QED
  BY <1>1, <1>2, <1>4, <1>5 DEF NetNext

-----------------------------------------------------------------------------
\* A strand runs one task at a time, and with mt_strand every use of a socket is one.
LEMMA OneUserStep == NetShape /\ OneUser /\ [NetNext]_netVars => OneUser'
<1> SUFFICES ASSUME NetShape, OneUser, [NetNext]_netVars, option'.mt = {"strand"} PROVE OneUser'
  BY DEF OneUser
<1>0. option' = option
  BY DEF NetNext, WireThread, netVars, ParseOptions, StartWorkers, handler_signal_term, thread_stop,
     JoinAll, func_spawn_flow_wire, get_tun_input_buffer, TuntapRead, send_to_global_weld,
     TuntapReadThrows, WorkerEnds, RunStrand, RunPosted, UseSocket, SendDone, handler_receive, ThreadEnds
<1>a. /\ posted = {} /\ cfg_mt_method = "strand"
      /\ \A t \in Thread : ios_thread[t][1] # "mutex"
      /\ \A s \in Sock, t, u \in Thread : Using(t, s) /\ Using(u, s) => t = u
  BY <1>0, StrandMethod DEF OneUser
<1>b. ASSUME ios_thread' = ios_thread, posted' = posted PROVE OneUser'
  BY <1>a, <1>b DEF OneUser, Using
<1>c. ASSUME NEW t \in Thread, NEW x, x = Idle \/ x = <<"ended">>,
             ios_thread' = [ios_thread EXCEPT ![t] = x], posted' = posted
      PROVE  OneUser'
  <2>1. x[1] # "mutex" /\ Len(x) # 3
    BY <1>c DEF Idle
  <2>2. ios_thread'[t] = x /\ \A u \in Thread : u # t => ios_thread'[u] = ios_thread[u]
    BY <1>c DEF NetShape
  <2> QED
    BY <1>a, <1>c, <2>1, <2>2 DEF OneUser, Using
<1>1. CASE UNCHANGED netVars \/ ParseOptions \/ StartWorkers \/ handler_signal_term \/ thread_stop \/ JoinAll
  BY <1>1, <1>b DEF netVars, ParseOptions, StartWorkers, handler_signal_term, thread_stop, JoinAll
<1>2. CASE \E b \in Inbuf : func_spawn_flow_wire(b)
  BY <1>2, <1>b DEF func_spawn_flow_wire
<1>3. CASE \E k \in Worker : \/ get_tun_input_buffer(k) \/ TuntapReadThrows(k) \/ WorkerEnds(k)
                             \/ \E size \in 0 .. TunBuf : TuntapRead(k, size)
  BY <1>3, <1>b DEF get_tun_input_buffer, TuntapReadThrows, WorkerEnds, TuntapRead, send_to_global_weld
<1>4. ASSUME NEW t \in Thread, NEW s \in Sock, RunStrand(t, s) PROVE OneUser'
  <2>1. Head(strand[s]) \in Task
    BY <1>4, PopFacts DEF RunStrand, NetShape
  <2> DEFINE x == <<"strand", s, Head(strand[s])>>
  <2>2. x[1] = "strand" /\ x[2] = s /\ Len(x) = 3
    BY <2>1, NewTask
  <2>3. /\ ios_thread' = [ios_thread EXCEPT ![t] = x] /\ posted' = posted
        /\ \A u \in Thread : ios_thread[u] = Idle \/ ~(ios_thread[u][1] = "strand" /\ ios_thread[u][2] = s)
    BY <1>4 DEF RunStrand
  <2> HIDE DEF x
  <2>4. ios_thread'[t] = x /\ \A u \in Thread : u # t => ios_thread'[u] = ios_thread[u]
    BY <2>3 DEF NetShape
  <2>5. \A u \in Thread : ~Using(u, s)
    <3> SUFFICES ASSUME NEW u \in Thread, Using(u, s) PROVE FALSE
      OBVIOUS
    <3>1. ios_thread[u] \in IosTask /\ ios_thread[u][1] # "mutex"
      BY <1>a DEF NetShape
    <3> QED
      BY <2>3, <3>1, IosFacts DEF Using
  <2>6. \A u \in Thread : ios_thread'[u][1] # "mutex"
    BY <1>a, <2>2, <2>4
  <2>7. \A r \in Sock, u \in Thread : Using(u, r)' => (u = t /\ r = s) \/ (u # t /\ Using(u, r))
    BY <2>2, <2>4 DEF Using
  <2> QED
    BY <1>a, <2>3, <2>5, <2>6, <2>7 DEF OneUser
<1>5. ASSUME NEW t \in Thread, NEW b \in Inbuf, NEW s \in Sock PROVE ~RunPosted(t, b, s)
  BY <1>a DEF RunPosted
<1>6. ASSUME NEW t \in Thread, UseSocket(t) \/ ThreadEnds(t) PROVE OneUser'
  BY <1>6, <1>c DEF UseSocket, ThreadEnds
<1>7. ASSUME NEW t \in Thread, NEW w \in Weld, SendDone(t, w) PROVE OneUser'
  BY <1>7, <1>b DEF SendDone
<1>8. ASSUME NEW t \in Thread, NEW b \in Inbuf, NEW ec \in BOOLEAN, NEW exit \in BOOLEAN,
             handler_receive(t, b, ec, exit)
      PROVE  OneUser'
  BY <1>8, <1>a, <1>b DEF handler_receive
<1> QED
  BY <1>1, <1>2, <1>3, <1>4, <1>5, <1>6, <1>7, <1>8 DEF NetNext, WireThread

\* A set without two different elements has at most one.
LEMMA AtMostOne ==
  ASSUME NEW S, \A x, y \in S : x = y
  PROVE  /\ IsFiniteSet(S) /\ Cardinality(S) <= 1 /\ Cardinality(S) \in Nat
         /\ (S # {} => Cardinality(S) = 1) /\ (S = {} => Cardinality(S) = 0)
<1>1. CASE S = {}
  BY <1>1, FS_EmptySet
<1>2. ASSUME NEW x \in S PROVE S = {x} /\ IsFiniteSet(S) /\ Cardinality(S) = 1
  <2>1. S = {x}
    OBVIOUS
  <2> QED
    BY <2>1, FS_Singleton
<1> QED
  BY <1>1, <1>2

\* With mt_strand no two threads use one socket object at the same time, for any number
\* of threads, sockets, flows and welds (netmodel.cpp).
THEOREM StrandGuards == NetSpec => []StrandGuardsSocket
<1>1. NetInit => NetShape /\ OneUser
  <2> SUFFICES ASSUME NetInit PROVE NetShape /\ OneUser
    OBVIOUS
  <2>1. c_weld \in WeldRecord /\ Free \in WorkerRecord /\ Free.at = "none" /\ Idle \in IosTask
        /\ Idle[1] # "mutex" /\ Len(Idle) = 1
    BY DEF c_weld, Free, WeldRecord, WorkerRecord, IosTask, Idle
  <2>2. NetShape
    BY <2>1 DEF NetInit, NetShape
  <2>3. OneUser
    BY <2>1 DEF NetInit, OneUser, Using
  <2> QED
    BY <2>2, <2>3
<1>2. NetShape /\ OneUser => StrandGuardsSocket
  <2> SUFFICES ASSUME NetShape, OneUser, option.mt = {"strand"}, NEW s \in Sock
               PROVE  Cardinality(Users(s)) <= 1
    BY DEF StrandGuardsSocket
  <2>1. \A t, u \in Users(s) : t = u
    BY DEF OneUser, Using, Users
  <2> QED
    BY <2>1, AtMostOne
<1> QED
  BY <1>1, <1>2, ShapeStep, OneUserStep, PTL DEF NetSpec

-----------------------------------------------------------------------------
\* Who holds a weld.

Holding(w) == Exclusive(w) /\ Held(w) /\ Room(w)

\* A step that keeps the places and the weld keeps what is said of it.
LEMMA SameHolders ==
  ASSUME NEW w \in Weld, Holding(w), option' = option, weld'[w] = weld[w],
         \A k \in Worker : Works(k, w)' <=> Works(k, w),
         \A s \in Sock, i \in Nat : Queued(s, i, w)' <=> Queued(s, i, w),
         \A t \in Thread : Sends(t, w)' <=> Sends(t, w),
         w \in sending' <=> w \in sending
  PROVE  Holding(w)'
<1>1. Exclusive(w)'
  BY DEF Holding, Exclusive
<1>2. Held(w)'
  BY DEF Holding, Held
<1>3. Room(w)'
  BY DEF Holding, Room, space_left
<1> QED
  BY <1>1, <1>2, <1>3 DEF Holding

\* A weld that nobody has any more, free and with room.
LEMMA NoHolder ==
  ASSUME NEW w \in Weld, ~weld'[w].m_reserved, space_left(weld'[w]) >= TunRead,
         \A k \in Worker : ~Works(k, w)',
         \A s \in Sock, i \in Nat : ~Queued(s, i, w)',
         \A t \in Thread : ~Sends(t, w)',
         w \notin sending'
  PROVE  Holding(w)'
  BY DEF Holding, Exclusive, Held, Room, space_left

\* The places of the welds in the queue of a strand, when a task is put there or taken.
LEMMA QueuedAppend ==
  ASSUME NetShape, NEW q \in Sock, NEW x \in Task, NEW w,
         strand' = [strand EXCEPT ![q] = Append(@, x)]
  PROVE  \A s \in Sock, i \in Nat :
           Queued(s, i, w)' <=> \/ Queued(s, i, w)
                                \/ s = q /\ i = Len(strand[q]) + 1 /\ x = <<"send", w>>
<1> SUFFICES ASSUME NEW s \in Sock, NEW i \in Nat
             PROVE  Queued(s, i, w)' <=> \/ Queued(s, i, w)
                                         \/ s = q /\ i = Len(strand[q]) + 1 /\ x = <<"send", w>>
  OBVIOUS
<1> DEFINE y == <<"send", w>>
           a == Append(strand[q], x)
<1>1. strand[q] \in Seq(Task) /\ strand'[q] = a /\ (s # q => strand'[s] = strand[s])
  BY DEF NetShape
<1>2. /\ Len(a) = Len(strand[q]) + 1 /\ Len(strand[q]) \in Nat
      /\ a[Len(strand[q]) + 1] = x
      /\ \A j \in 1 .. Len(strand[q]) : a[j] = strand[q][j]
  BY <1>1, AppendFacts
<1> HIDE DEF y, a
<1>3. Queued(s, i, w) <=> i \in 1 .. Len(strand[s]) /\ strand[s][i] = y
  BY DEF Queued, y
<1>4. Queued(s, i, w)' <=> i \in 1 .. Len(strand'[s]) /\ strand'[s][i] = y
  BY DEF Queued, y
<1>5. Queued(s, i, w)' <=> Queued(s, i, w) \/ (s = q /\ i = Len(strand[q]) + 1 /\ x = y)
  <2>1. CASE s # q
    BY <1>1, <1>3, <1>4, <2>1
  <2>2. CASE s = q
    BY <1>1, <1>2, <1>3, <1>4, <2>2
  <2> QED
    BY <2>1, <2>2
<1> QED
  BY <1>5 DEF y

\* A receive that is queued is no send.
LEMMA QueuedReceive ==
  ASSUME NetShape, NEW q, NEW b \in Inbuf, NEW w,
         strand' = [strand EXCEPT ![q] = Append(@, <<"receive", b>>)]
  PROVE  \A s \in Sock, i \in Nat : Queued(s, i, w)' <=> Queued(s, i, w)
<1> DEFINE x == <<"receive", b>>
<1>1. x \in Task /\ x # <<"send", w>> /\ strand' = [strand EXCEPT ![q] = Append(@, x)]
  BY DEF Task
<1> HIDE DEF x
<1>2. CASE q \in Sock
  BY <1>1, <1>2, QueuedAppend
<1>3. CASE q \notin Sock
  <2>1. strand' = strand
    BY <1>1, <1>3 DEF NetShape
  <2> QED
    BY <2>1 DEF Queued
<1> QED
  BY <1>2, <1>3

\* A strand runs its first task.
LEMMA QueuedPop ==
  ASSUME NetShape, NEW q \in Sock, NEW w, strand[q] # <<>>,
         strand' = [strand EXCEPT ![q] = Tail(@)]
  PROVE  /\ Head(strand[q]) = <<"send", w>> <=> Queued(q, 1, w)
         /\ \A i \in Nat : Queued(q, i, w)' <=> i # 0 /\ Queued(q, i + 1, w)
         /\ \A s \in Sock, i \in Nat : s # q => (Queued(s, i, w)' <=> Queued(s, i, w))
<1> DEFINE y == <<"send", w>>
           a == Tail(strand[q])
<1>1. strand[q] \in Seq(Task) /\ strand'[q] = a /\ \A s \in Sock : s # q => strand'[s] = strand[s]
  BY DEF NetShape
<1>2. /\ Len(a) = Len(strand[q]) - 1 /\ Len(strand[q]) \in Nat /\ Len(strand[q]) >= 1
      /\ Head(strand[q]) = strand[q][1]
      /\ \A i \in 1 .. Len(strand[q]) - 1 : a[i] = strand[q][i + 1]
  BY <1>1, PopFacts
<1> HIDE DEF y, a
<1>3. \A s \in Sock, i \in Nat : Queued(s, i, w) <=> i \in 1 .. Len(strand[s]) /\ strand[s][i] = y
  BY DEF Queued, y
<1>4. \A s \in Sock, i \in Nat : Queued(s, i, w)' <=> i \in 1 .. Len(strand'[s]) /\ strand'[s][i] = y
  BY DEF Queued, y
<1>5. Head(strand[q]) = y <=> Queued(q, 1, w)
  BY <1>2, <1>3
<1>6. \A i \in Nat : Queued(q, i, w)' <=> i # 0 /\ Queued(q, i + 1, w)
  <2> SUFFICES ASSUME NEW i \in Nat PROVE Queued(q, i, w)' <=> i # 0 /\ Queued(q, i + 1, w)
    OBVIOUS
  <2>1. i + 1 \in Nat
    OBVIOUS
  <2>2. Queued(q, i, w)' <=> i \in 1 .. Len(a) /\ a[i] = y
    BY <1>1, <1>4
  <2>3. Queued(q, i + 1, w) <=> i + 1 \in 1 .. Len(strand[q]) /\ strand[q][i + 1] = y
    BY <1>3, <2>1
  <2> QED
    BY <1>2, <2>2, <2>3
<1>7. \A s \in Sock, i \in Nat : s # q => (Queued(s, i, w)' <=> Queued(s, i, w))
  BY <1>1, <1>3, <1>4
<1> QED
  BY <1>5, <1>6, <1>7 DEF y

\* The worker that begins a read holds the weld it found.
LEMMA PickHolding ==
  ASSUME NetShape, \A w \in Weld : Holding(w), NEW k \in Worker, get_tun_input_buffer(k), NEW w \in Weld
  PROVE  Holding(w)'
<1> DEFINE f == FirstUsable
<1>1. f \in Weld /\ ~weld[f].m_reserved /\ space_left(weld[f]) >= TunRead
  BY FoundIsUsable DEF get_tun_input_buffer
<1>2. /\ worker[k].at = "pick"
      /\ weld' = [weld EXCEPT ![f].m_reserved = TRUE]
      /\ worker' = [worker EXCEPT ![k] = [at |-> "read", weld |-> f]]
      /\ option' = option /\ strand' = strand /\ ios_thread' = ios_thread /\ sending' = sending
  BY DEF get_tun_input_buffer
<1> HIDE DEF f
<1>3. \A l \in Worker : Works(l, w)' <=> (l = k /\ w = f) \/ (l # k /\ Works(l, w))
  BY <1>2 DEF Works, NetShape
<1>4. /\ \A s \in Sock, i \in Nat : Queued(s, i, w)' <=> Queued(s, i, w)
      /\ \A t \in Thread : Sends(t, w)' <=> Sends(t, w)
      /\ w \in sending' <=> w \in sending
  BY <1>2 DEF Queued, Sends
<1>5. CASE w # f
  <2>1. weld'[w] = weld[w]
    BY <1>2, <1>5 DEF NetShape
  <2>2. ~Works(k, w)
    BY <1>2 DEF Works
  <2> QED
    BY <1>2, <1>3, <1>4, <1>5, <2>1, <2>2, SameHolders
<1>6. CASE w = f
  <2>1. weld[f] \in WeldRecord
    BY <1>1 DEF NetShape
  <2>2. weld'[w] = [weld[f] EXCEPT !.m_reserved = TRUE]
    BY <1>1, <1>2, <1>6 DEF NetShape
  <2>3. weld'[w].m_reserved /\ space_left(weld'[w]) >= TunRead
    BY <1>1, <2>1, <2>2, ReservedFacts
  <2>4. /\ w \notin sending /\ \A l \in Worker : ~Works(l, w)
        /\ \A s \in Sock, i \in Nat : ~Queued(s, i, w)
        /\ \A t \in Thread : ~Sends(t, w)
    BY <1>1, <1>6 DEF Holding, Exclusive
  <2>5. Exclusive(w)'
    BY <1>3, <1>4, <1>6, <2>3, <2>4 DEF Exclusive
  <2>6. Held(w)'
    BY <1>3, <1>6 DEF Held
  <2>7. Room(w)'
    BY <2>3 DEF Room, space_left
  <2> QED
    BY <2>5, <2>6, <2>7 DEF Holding
<1> QED
  BY <1>5, <1>6

\* The worker whose read is over gives the weld back or hands it to a strand.
LEMMA ReadHolding ==
  ASSUME NetShape, \A w \in Weld : Holding(w), NEW k \in Worker, NEW size \in 0 .. TunBuf,
         TuntapRead(k, size), NEW w \in Weld
  PROVE  Holding(w)'
<1> DEFINE o == worker[k].weld
           after == add_fragment(o, size)
           back == [after EXCEPT !.m_reserved = FALSE]
           x == <<"send", o>>
           gone == [at |-> IF option.async THEN "undefined" ELSE "pick", weld |-> 0]
<1>1. /\ worker[k].at = "read" /\ o \in Weld /\ option' = option
      /\ ios_thread' = ios_thread /\ sending' = sending
      /\ worker' = [worker EXCEPT ![k] = gone]
  BY DEF TuntapRead, send_to_global_weld, NetShape
<1>2. \/ /\ weld' = [weld EXCEPT ![o] = after]
         /\ \E s \in Sock : strand' = [strand EXCEPT ![s] = Append(@, x)]
      \/ /\ weld' = [weld EXCEPT ![o] = back] /\ strand' = strand
         /\ ~(space_left(after) < TunRead)
  BY DEF TuntapRead, send_to_global_weld, func_send_weld
<1>3. /\ after \in WeldRecord /\ after.m_reserved = weld[o].m_reserved
      /\ back \in WeldRecord /\ ~back.m_reserved /\ space_left(back) = space_left(after)
  BY <1>1, FragmentFacts, ReservedFacts
<1>4. gone.at # "read" /\ x \in Task /\ (x = <<"send", w>> <=> w = o)
  BY <1>1 DEF Task
<1>5. space_left(after) \in Int /\ TunRead \in Int
  BY <1>3, NetConstants DEF space_left, WeldRecord
<1> HIDE DEF o, after, back, x, gone
<1>6. \A l \in Worker : Works(l, w)' <=> l # k /\ Works(l, w)
  BY <1>1, <1>4 DEF Works, NetShape
<1>7. Works(k, w) <=> w = o
  BY <1>1 DEF Works, o
<1>8. /\ \A t \in Thread : Sends(t, w)' <=> Sends(t, w)
      /\ w \in sending' <=> w \in sending
  BY <1>1 DEF Sends
<1>9. CASE w # o
  <2>1. weld'[w] = weld[w]
    BY <1>1, <1>2, <1>9 DEF NetShape
  <2>2. \A s \in Sock, i \in Nat : Queued(s, i, w)' <=> Queued(s, i, w)
    <3>1. CASE strand' = strand
      BY <3>1 DEF Queued
    <3>2. ASSUME NEW s \in Sock, strand' = [strand EXCEPT ![s] = Append(@, x)]
          PROVE  \A r \in Sock, i \in Nat : Queued(r, i, w)' <=> Queued(r, i, w)
      BY <1>4, <1>9, <3>2, QueuedAppend
    <3> QED
      BY <1>2, <3>1, <3>2
  <2> QED
    BY <1>1, <1>6, <1>7, <1>8, <1>9, <2>1, <2>2, SameHolders
<1>10. CASE w = o
  <2>1. /\ weld[w].m_reserved /\ w \notin sending /\ \A l \in Worker : ~Works(l, w)'
        /\ \A s \in Sock, i \in Nat : ~Queued(s, i, w)
        /\ \A t \in Thread : ~Sends(t, w)
    BY <1>6, <1>7, <1>10 DEF Holding, Exclusive
  <2>2. ASSUME NEW s \in Sock, strand' = [strand EXCEPT ![s] = Append(@, x)],
               weld' = [weld EXCEPT ![o] = after]
        PROVE  Holding(w)'
    <3>0. \A r \in Sock, i \in Nat :
            Queued(r, i, w)' <=> \/ Queued(r, i, w)
                                 \/ r = s /\ i = Len(strand[s]) + 1 /\ x = <<"send", w>>
      BY <1>4, <2>2, QueuedAppend
    <3>1. \A r \in Sock, i \in Nat : Queued(r, i, w)' <=> r = s /\ i = Len(strand[s]) + 1
      BY <1>4, <1>10, <2>1, <3>0
    <3>2. weld'[w].m_reserved
      BY <1>1, <1>3, <1>10, <2>1, <2>2 DEF NetShape
    <3>3. Len(strand[s]) + 1 \in Nat
      BY DEF NetShape
    <3>4. Exclusive(w)'
      BY <1>8, <2>1, <3>1, <3>2 DEF Exclusive
    <3>5. Held(w)'
      BY <3>1, <3>3 DEF Held
    <3>6. Room(w)'
      BY <2>1, <3>2 DEF Room
    <3> QED
      BY <3>4, <3>5, <3>6 DEF Holding
  <2>3. ASSUME weld' = [weld EXCEPT ![o] = back], strand' = strand, ~(space_left(after) < TunRead)
        PROVE  Holding(w)'
    <3>1. weld'[w] = back
      BY <1>1, <1>10, <2>3 DEF NetShape
    <3>2. ~weld'[w].m_reserved /\ space_left(weld'[w]) >= TunRead
      BY <1>3, <1>5, <2>3, <3>1
    <3>3. \A s \in Sock, i \in Nat : ~Queued(s, i, w)'
      BY <2>1, <2>3 DEF Queued
    <3> QED
      BY <1>8, <2>1, <3>2, <3>3, NoHolder
  <2> QED
    BY <1>2, <2>2, <2>3
<1> QED
  BY <1>9, <1>10

\* The workers that start asynchronously hold the welds of their numbers.
LEMMA StartHolding ==
  ASSUME NetShape, NotStarted, \A w \in Weld : Holding(w), StartWorkers, NEW w \in Weld
  PROVE  Holding(w)'
<1>1. /\ weld = [v \in Weld |-> c_weld] /\ worker = [k \in Worker |-> Free]
      /\ \A s \in Sock : strand[s] = <<>>
      /\ \A t \in Thread : Len(ios_thread[t]) = 1
      /\ sending = {}
  BY DEF StartWorkers, NotStarted
<1>2. option' = option /\ strand' = strand /\ ios_thread' = ios_thread /\ sending' = sending
  BY DEF StartWorkers
<1>3. /\ \A s \in Sock, i \in Nat : ~Queued(s, i, w)'
      /\ \A t \in Thread : ~Sends(t, w)'
      /\ w \notin sending'
  BY <1>1, <1>2 DEF Queued, Sends
<1>4. /\ c_weld \in WeldRecord /\ ~c_weld.m_reserved /\ space_left(c_weld) >= TunRead
      /\ Free.at # "read"
  BY NetConstants DEF c_weld, Free, WeldRecord, space_left
<1> HIDE DEF c_weld, Free
<1>5. CASE ~option.async
  <2>1. weld'[w] = c_weld /\ worker' = [k \in Worker |-> [at |-> "pick", weld |-> 0]]
    BY <1>1, <1>5 DEF StartWorkers
  <2>2. \A k \in Worker : ~Works(k, w)'
    BY <2>1 DEF Works
  <2> QED
    BY <1>3, <1>4, <2>1, <2>2, NoHolder
<1>6. CASE option.async
  <2> DEFINE r == w \in Worker
             Y(v) == [weld[v] EXCEPT !.m_reserved = v \in Worker]
  <2>1. weld' = [v \in Weld |-> Y(v)] /\ weld[w] = c_weld
    BY <1>1, <1>6, Zenon DEF StartWorkers
  <2>2. weld'[w] = Y(w)
    BY <2>1, Zenon
  <2>3. weld'[w] = [c_weld EXCEPT !.m_reserved = r]
    BY <2>1, <2>2, Zenon
  <2>4. r \in BOOLEAN /\ (r <=> w \in Worker)
    OBVIOUS
  <2>5. worker' = [k \in Worker |-> IF k \in Weld THEN [at |-> "read", weld |-> k] ELSE Free]
    BY <1>6 DEF StartWorkers
  <2>6. \A k \in Worker : Works(k, w)' <=> k = w
    BY <1>4, <2>5 DEF Works
  <2> HIDE DEF r, Y
  <2>7. (weld'[w].m_reserved <=> r) /\ space_left(weld'[w]) >= TunRead
    BY <1>4, <2>3, <2>4, ReservedFacts
  <2>8. Exclusive(w)'
    BY <1>3, <2>4, <2>6, <2>7 DEF Exclusive
  <2>9. Held(w)'
    BY <2>4, <2>6, <2>7 DEF Held
  <2>10. Room(w)'
    BY <2>7 DEF Room, space_left
  <2> QED
    BY <2>8, <2>9, <2>10 DEF Holding
<1> QED
  BY <1>5, <1>6

\* A read of the fake tuntap that throws leaves a weld that is reserved and has no holder.
LEMMA ThrowHolding ==
  ASSUME NetShape, \A w \in Weld : Holding(w), NEW k \in Worker, TuntapReadThrows(k), NEW w \in Weld
  PROVE  Holding(w)'
<1>1. /\ worker[k].at = "read" /\ ~option.real /\ option' = option /\ weld' = weld
      /\ worker' = [worker EXCEPT ![k] = [at |-> "pick", weld |-> 0]]
      /\ strand' = strand /\ ios_thread' = ios_thread /\ sending' = sending
  BY DEF TuntapReadThrows
<1>2. \A l \in Worker : Works(l, w)' => Works(l, w)
  BY <1>1 DEF Works, NetShape
<1>3. /\ \A s \in Sock, i \in Nat : Queued(s, i, w)' <=> Queued(s, i, w)
      /\ \A t \in Thread : Sends(t, w)' <=> Sends(t, w)
      /\ w \in sending' <=> w \in sending
  BY <1>1 DEF Queued, Sends
<1>4. Exclusive(w)'
  BY <1>1, <1>2, <1>3 DEF Holding, Exclusive
<1>5. Held(w)'
  BY <1>1 DEF Held
<1>6. Room(w)'
  BY <1>1, <1>2 DEF Holding, Room, space_left
<1> QED
  BY <1>4, <1>5, <1>6 DEF Holding

\* A thread takes the send of a weld from the queue of the strand.
LEMMA RunHolding ==
  ASSUME NetShape, \A w \in Weld : Holding(w), NEW t \in Thread, NEW s \in Sock, RunStrand(t, s),
         NEW w \in Weld
  PROVE  Holding(w)'
<1> DEFINE h == Head(strand[s])
           x == <<"strand", s, h>>
           y == <<"send", w>>
<1>1. /\ ios_thread[t] = Idle /\ strand[s] # <<>> /\ ios_thread' = [ios_thread EXCEPT ![t] = x]
      /\ strand' = [strand EXCEPT ![s] = Tail(@)] /\ weld' = weld /\ worker' = worker
      /\ sending' = sending /\ option' = option
  BY DEF RunStrand
<1>2. h \in Task
  BY <1>1, PopFacts DEF NetShape
<1>3. Len(x) = 3 /\ x[3] = h
  BY <1>2, NewTask
<1>4. /\ h = y <=> Queued(s, 1, w)
      /\ \A i \in Nat : Queued(s, i, w)' <=> i # 0 /\ Queued(s, i + 1, w)
      /\ \A q \in Sock, i \in Nat : q # s => (Queued(q, i, w)' <=> Queued(q, i, w))
  BY <1>1, QueuedPop
<1> HIDE DEF h, x
<1>5. ios_thread'[t] = x /\ \A u \in Thread : u # t => ios_thread'[u] = ios_thread[u]
  BY <1>1 DEF NetShape
<1>6. ~Sends(t, w)
  BY <1>1 DEF Sends, Idle
<1> HIDE DEF y
<1>7. \A u \in Thread : Sends(u, w)' <=> (u = t /\ h = y) \/ (u # t /\ Sends(u, w))
  BY <1>3, <1>5 DEF Sends, y
<1>8. \A k \in Worker : Works(k, w)' <=> Works(k, w)
  BY <1>1 DEF Works
<1>9. /\ \A i \in Nat : Queued(s, i, w) => i # 0
      /\ Exclusive(w) /\ Held(w) /\ Room(w)
  BY DEF Queued, Holding
<1>10. Room(w)'
  BY <1>1, <1>8, <1>9 DEF Room, space_left
<1>11. CASE h = y
  <2>1. Queued(s, 1, w)
    BY <1>4, <1>11
  <2>2. \A q \in Sock, i \in Nat : Queued(q, i, w) => q = s /\ i = 1
    BY <1>9, <2>1 DEF Exclusive
  <2>3. /\ w \notin sending /\ weld[w].m_reserved
        /\ (\A k \in Worker : ~Works(k, w)) /\ \A u \in Thread : ~Sends(u, w)
    BY <1>9, <2>1 DEF Exclusive
  <2>4. \A i \in Nat : i # 0 => i + 1 \in Nat /\ i + 1 # 1
    OBVIOUS
  <2>5. \A i \in Nat : ~Queued(s, i, w)'
    BY <1>4, <2>2, <2>4
  <2>6. \A q \in Sock, i \in Nat : ~Queued(q, i, w)'
    BY <1>4, <2>2, <2>5
  <2>7. Exclusive(w)'
    BY <1>1, <1>7, <1>8, <2>3, <2>6 DEF Exclusive
  <2>8. Held(w)'
    BY <1>7, <1>11 DEF Held
  <2> QED
    BY <1>10, <2>7, <2>8 DEF Holding
<1>12. CASE h # y
  <2>1. \A u \in Thread : Sends(u, w)' <=> Sends(u, w)
    BY <1>6, <1>7, <1>12
  <2>2. \A i \in Nat : i + 1 \in Nat /\ (i # 0 /\ i # 1 => i - 1 \in Nat /\ i - 1 # 0 /\ (i - 1) + 1 = i)
                       /\ \A j \in Nat : i + 1 = j + 1 => i = j
    OBVIOUS
  <2>3. \A q \in Sock, i \in Nat : Queued(q, i, w)' => \E j \in Nat : Queued(q, j, w)
    BY <1>4, <2>2
  <2>4. \A q, r \in Sock, i, j \in Nat : Queued(q, i, w)' /\ Queued(r, j, w)' => q = r /\ i = j
    <3> SUFFICES ASSUME NEW q \in Sock, NEW r \in Sock, NEW i \in Nat, NEW j \in Nat,
                        Queued(q, i, w)', Queued(r, j, w)'
                 PROVE  q = r /\ i = j
      OBVIOUS
    <3>1. q = r
      BY <1>9, <2>3 DEF Exclusive
    <3>2. CASE q = s
      <4>1. Queued(s, i + 1, w) /\ Queued(s, j + 1, w)
        BY <1>4, <3>1, <3>2
      <4>2. i + 1 = j + 1
        BY <1>9, <2>2, <4>1 DEF Exclusive
      <4> QED
        BY <2>2, <3>1, <4>2
    <3>3. CASE q # s
      BY <1>4, <1>9, <3>1, <3>3 DEF Exclusive
    <3> QED
      BY <3>2, <3>3
  <2>5. Exclusive(w)'
    BY <1>1, <1>8, <1>9, <2>1, <2>3, <2>4 DEF Exclusive
  <2>6. ASSUME NEW q \in Sock, NEW i \in Nat, Queued(q, i, w) PROVE \E j \in Nat : Queued(q, j, w)'
    <3>1. CASE q # s
      BY <1>4, <2>6, <3>1
    <3>2. CASE q = s
      <4>1. i # 0 /\ i # 1
        BY <1>4, <1>9, <1>12, <2>6, <3>2
      <4>2. i - 1 \in Nat /\ i - 1 # 0 /\ Queued(q, (i - 1) + 1, w)
        BY <2>2, <2>6, <4>1
      <4> QED
        BY <1>4, <3>2, <4>2
    <3> QED
      BY <3>1, <3>2
  <2>7. Held(w)'
    BY <1>1, <1>8, <1>9, <2>1, <2>6 DEF Held
  <2> QED
    BY <1>10, <2>5, <2>7 DEF Holding
<1> QED
  BY <1>11, <1>12

\* The threads that are not in a task of a weld.
LEMMA SendsUnchanged ==
  ASSUME NetShape, NEW t \in Thread, NEW x, NEW w,
         ios_thread' = [ios_thread EXCEPT ![t] = x],
         ~(Len(x) = 3 /\ x[3] = <<"send", w>>), ~Sends(t, w)
  PROVE  \A u \in Thread : Sends(u, w)' <=> Sends(u, w)
<1>1. ios_thread'[t] = x /\ \A u \in Thread : u # t => ios_thread'[u] = ios_thread[u]
  BY DEF NetShape
<1> QED
  BY <1>1 DEF Sends

\* A thread gives the weld it sends to asio.
LEMMA UseHolding ==
  ASSUME NetShape, \A w \in Weld : Holding(w), NEW t \in Thread, UseSocket(t), NEW w \in Weld
  PROVE  Holding(w)'
<1> DEFINE task == ios_thread[t][3]
           y == <<"send", w>>
<1>1. /\ ios_thread[t] # Idle /\ ios_thread[t][1] # "ended"
      /\ (task[1] = "send" => sending' = sending \union {task[2]})
      /\ (task[1] # "send" => sending' = sending)
      /\ ios_thread' = [ios_thread EXCEPT ![t] = Idle]
      /\ weld' = weld /\ worker' = worker /\ strand' = strand /\ option' = option
  BY DEF UseSocket
<1>2. Len(ios_thread[t]) = 3 /\ task \in Task
  BY <1>1, IosFacts DEF NetShape
<1>3. task = y <=> task[1] = "send" /\ task[2] = w
  BY <1>2, TaskFacts
<1> HIDE DEF task, y
<1>4. Sends(t, w) <=> task = y
  BY <1>2 DEF Sends, task, y
<1>5. /\ \A k \in Worker : Works(k, w)' <=> Works(k, w)
      /\ \A s \in Sock, i \in Nat : Queued(s, i, w)' <=> Queued(s, i, w)
  BY <1>1 DEF Works, Queued
<1>6. Len(Idle) # 3
  BY DEF Idle
<1>7. CASE task # y
  <2>1. \A u \in Thread : Sends(u, w)' <=> Sends(u, w)
    BY <1>1, <1>4, <1>6, <1>7, SendsUnchanged
  <2>2. w \in sending' <=> w \in sending
    BY <1>1, <1>3, <1>7
  <2> QED
    BY <1>1, <1>5, <2>1, <2>2, SameHolders
<1>8. CASE task = y
  <2>1. ios_thread'[t] = Idle /\ \A u \in Thread : u # t => ios_thread'[u] = ios_thread[u]
    BY <1>1 DEF NetShape
  <2>2. \A u \in Thread : Sends(u, w)' <=> u # t /\ Sends(u, w)
    BY <1>6, <2>1 DEF Sends
  <2>3. /\ weld[w].m_reserved /\ \A u \in Thread : Sends(u, w) => u = t
        /\ \A k \in Worker : ~Works(k, w)
        /\ \A s \in Sock, i \in Nat : ~Queued(s, i, w)
    BY <1>4, <1>8 DEF Holding, Exclusive
  <2>4. w \in sending' /\ weld'[w].m_reserved
    BY <1>1, <1>3, <1>8, <2>3
  <2>5. Exclusive(w)'
    BY <1>5, <2>2, <2>3, <2>4 DEF Exclusive
  <2>6. Held(w)'
    BY <2>4 DEF Held
  <2>7. Room(w)'
    BY <1>5, <2>3, <2>4 DEF Room
  <2> QED
    BY <2>5, <2>6, <2>7 DEF Holding
<1> QED
  BY <1>7, <1>8

\* The handler of the completed send clears the weld and gives it back.
LEMMA DoneHolding ==
  ASSUME NetShape, \A w \in Weld : Holding(w), NEW t \in Thread, NEW v \in Weld, SendDone(t, v),
         NEW w \in Weld
  PROVE  Holding(w)'
<1>1. /\ v \in sending /\ sending' = sending \ {v} /\ weld' = [weld EXCEPT ![v] = c_weld]
      /\ worker' = worker /\ strand' = strand /\ ios_thread' = ios_thread /\ option' = option
  BY DEF SendDone
<1>2. /\ \A k \in Worker : Works(k, w)' <=> Works(k, w)
      /\ \A s \in Sock, i \in Nat : Queued(s, i, w)' <=> Queued(s, i, w)
      /\ \A u \in Thread : Sends(u, w)' <=> Sends(u, w)
  BY <1>1 DEF Works, Queued, Sends
<1>3. ~c_weld.m_reserved /\ space_left(c_weld) >= TunRead
  BY NetConstants DEF c_weld, space_left
<1> HIDE DEF c_weld
<1>4. CASE w # v
  <2>1. weld'[w] = weld[w] /\ (w \in sending' <=> w \in sending)
    BY <1>1, <1>4 DEF NetShape
  <2> QED
    BY <1>1, <1>2, <2>1, SameHolders
<1>5. CASE w = v
  <2>1. weld'[w] = c_weld /\ w \notin sending' /\ w \in sending
    BY <1>1, <1>5 DEF NetShape
  <2>2. /\ \A k \in Worker : ~Works(k, w)
        /\ \A s \in Sock, i \in Nat : ~Queued(s, i, w)
        /\ \A u \in Thread : ~Sends(u, w)
    BY <2>1 DEF Holding, Exclusive
  <2> QED
    BY <1>2, <1>3, <2>1, <2>2, NoHolder
<1> QED
  BY <1>4, <1>5

\* No step breaks what is said of the holders of a weld.
LEMMA HoldingStep ==
  NetShape /\ NotStarted /\ (\A w \in Weld : Holding(w)) /\ [NetNext]_netVars
    => \A w \in Weld : Holding(w)'
<1> SUFFICES ASSUME NetShape, NotStarted, \A w \in Weld : Holding(w), [NetNext]_netVars, NEW w \in Weld
             PROVE  Holding(w)'
  OBVIOUS
<1>a. ASSUME worker' = worker PROVE \A k \in Worker : Works(k, w)' <=> Works(k, w)
  BY <1>a DEF Works
<1>b. ASSUME strand' = strand PROVE \A s \in Sock, i \in Nat : Queued(s, i, w)' <=> Queued(s, i, w)
  BY <1>b DEF Queued
<1>c. ASSUME ios_thread' = ios_thread PROVE \A t \in Thread : Sends(t, w)' <=> Sends(t, w)
  BY <1>c DEF Sends
<1>1. CASE UNCHANGED netVars \/ ParseOptions \/ handler_signal_term \/ thread_stop \/ JoinAll
  <2>1. /\ option' = option /\ weld' = weld /\ worker' = worker /\ strand' = strand
        /\ ios_thread' = ios_thread /\ sending' = sending
    BY <1>1 DEF netVars, ParseOptions, handler_signal_term, thread_stop, JoinAll
  <2> QED
    BY <1>a, <1>b, <1>c, <2>1, SameHolders
<1>2. CASE StartWorkers
  BY <1>2, StartHolding
<1>3. ASSUME NEW b \in Inbuf, func_spawn_flow_wire(b) PROVE Holding(w)'
  <2>1. /\ option' = option /\ weld' = weld /\ worker' = worker
        /\ strand' = [strand EXCEPT ![FlowSocket(b)] = Append(@, <<"receive", b>>)]
        /\ ios_thread' = ios_thread /\ sending' = sending
    BY <1>3 DEF func_spawn_flow_wire
  <2>2. \A s \in Sock, i \in Nat : Queued(s, i, w)' <=> Queued(s, i, w)
    BY <2>1, QueuedReceive
  <2> QED
    BY <1>a, <1>c, <2>1, <2>2, SameHolders
<1>4. ASSUME NEW k \in Worker, WorkerEnds(k) PROVE Holding(w)'
  <2>1. /\ option' = option /\ weld' = weld /\ strand' = strand
        /\ worker[k].at = "pick" /\ worker' = [worker EXCEPT ![k].at = "ended"]
        /\ ios_thread' = ios_thread /\ sending' = sending
    BY <1>4 DEF WorkerEnds
  <2>2. \A l \in Worker : Works(l, w)' <=> Works(l, w)
    BY <2>1 DEF Works, NetShape, WorkerRecord
  <2> QED
    BY <1>b, <1>c, <2>1, <2>2, SameHolders
<1>5. ASSUME NEW t \in Thread, NEW b \in Inbuf, NEW s \in Sock, RunPosted(t, b, s) PROVE Holding(w)'
  <2> DEFINE y == <<"receive", b>>
             x == <<"mutex", s, y>>
  <2>1. /\ option' = option /\ weld' = weld /\ worker' = worker /\ strand' = strand
        /\ ios_thread[t] = Idle /\ ios_thread' = [ios_thread EXCEPT ![t] = x]
        /\ sending' = sending
    BY <1>5 DEF RunPosted
  <2>2. y \in Task /\ y # <<"send", w>>
    BY DEF Task
  <2> HIDE DEF y
  <2>3. x[3] = y
    BY <2>2, NewTask
  <2>4. ~Sends(t, w)
    BY <2>1 DEF Sends, Idle
  <2> HIDE DEF x
  <2>5. \A u \in Thread : Sends(u, w)' <=> Sends(u, w)
    BY <2>1, <2>2, <2>3, <2>4, SendsUnchanged
  <2> QED
    BY <1>a, <1>b, <2>1, <2>5, SameHolders
<1>6. ASSUME NEW t \in Thread, ThreadEnds(t) PROVE Holding(w)'
  <2> DEFINE x == <<"ended">>
  <2>1. /\ option' = option /\ weld' = weld /\ worker' = worker /\ strand' = strand
        /\ ios_thread[t] = Idle /\ ios_thread' = [ios_thread EXCEPT ![t] = x]
        /\ sending' = sending
    BY <1>6 DEF ThreadEnds
  <2>2. Len(x) # 3
    OBVIOUS
  <2>3. ~Sends(t, w)
    BY <2>1 DEF Sends, Idle
  <2> HIDE DEF x
  <2>4. \A u \in Thread : Sends(u, w)' <=> Sends(u, w)
    BY <2>1, <2>2, <2>3, SendsUnchanged
  <2> QED
    BY <1>a, <1>b, <2>1, <2>4, SameHolders
<1>7. ASSUME NEW t \in Thread, NEW b \in Inbuf, NEW ec \in BOOLEAN, NEW exit \in BOOLEAN,
             handler_receive(t, b, ec, exit)
      PROVE  Holding(w)'
  <2>1. /\ option' = option /\ weld' = weld /\ worker' = worker
        /\ ios_thread' = ios_thread /\ sending' = sending
        /\ \/ strand' = strand
           \/ strand' = [strand EXCEPT ![FlowSocket(b)] = Append(@, <<"receive", b>>)]
    BY <1>7 DEF handler_receive
  <2>2. \A s \in Sock, i \in Nat : Queued(s, i, w)' <=> Queued(s, i, w)
    BY <1>b, <2>1, QueuedReceive
  <2> QED
    BY <1>a, <1>c, <2>1, <2>2, SameHolders
<1> QED
  BY <1>1, <1>2, <1>3, <1>4, <1>5, <1>6, <1>7, PickHolding, ReadHolding, ThrowHolding, RunHolding,
     UseHolding, DoneHolding DEF NetNext, WireThread

-----------------------------------------------------------------------------
\* Where the packets are.

\* Two sequences, one behind the other.
LEMMA ConcatFacts ==
  ASSUME NEW S, NEW p \in Seq(S), NEW q \in Seq(S)
  PROVE  /\ Len(p \o q) = Len(p) + Len(q) /\ Len(p) \in Nat /\ Len(q) \in Nat
         /\ \A i \in 1 .. Len(p) : (p \o q)[i] = p[i]
         /\ \A i \in 1 .. Len(q) : (p \o q)[Len(p) + i] = q[i]
         /\ \A i \in 1 .. Len(p) + Len(q) :
              i \in 1 .. Len(p) \/ (i - Len(p) \in 1 .. Len(q) /\ Len(p) + (i - Len(p)) = i)
  OBVIOUS

\* A step that moves no packet.
LEMMA SamePackets ==
  ASSUME Packets, \A w \in Weld : weld'[w].frags = weld[w].frags, tun' = tun, wire' = wire
  PROVE  Packets'
<1>1. \A w \in Weld : Len(weld'[w].frags) <= FragMax
  BY DEF Packets
<1>2. /\ \A w \in Weld : \A i \in 1 .. Len(weld'[w].frags) : weld'[w].frags[i] \in 1 .. tun'
      /\ \A i \in 1 .. Len(wire') : wire'[i] \in 1 .. tun'
  BY DEF Packets
<1>3. \A w, v \in Weld : \A i \in 1 .. Len(weld'[w].frags), j \in 1 .. Len(weld'[v].frags) :
        weld'[w].frags[i] = weld'[v].frags[j] => w = v /\ i = j
  <2> SUFFICES ASSUME NEW w \in Weld, NEW v \in Weld, NEW i \in 1 .. Len(weld[w].frags),
                      NEW j \in 1 .. Len(weld[v].frags), weld[w].frags[i] = weld[v].frags[j]
               PROVE  w = v /\ i = j
    BY SMTT(60)
  <2> QED
    BY DEF Packets
<1>4. /\ \A i, j \in 1 .. Len(wire') : wire'[i] = wire'[j] => i = j
      /\ \A w \in Weld : \A i \in 1 .. Len(weld'[w].frags), j \in 1 .. Len(wire') :
           weld'[w].frags[i] # wire'[j]
  BY DEF Packets
<1>5. \A p \in 1 .. tun' :
        \/ \E w \in Weld : \E i \in 1 .. Len(weld'[w].frags) : weld'[w].frags[i] = p
        \/ \E i \in 1 .. Len(wire') : wire'[i] = p
  BY SMTT(60) DEF Packets
<1> QED
  BY <1>1, <1>2, <1>3, <1>4, <1>5 DEF Packets

\* A packet that was read is the last one of its weld.
LEMMA ReadPackets ==
  ASSUME NetShape, Packets, \A w \in Weld : Holding(w), NEW k \in Worker, NEW size \in 0 .. TunBuf,
         TuntapRead(k, size)
  PROVE  Packets'
<1> DEFINE o == worker[k].weld
           after == add_fragment(o, size)
           back == [after EXCEPT !.m_reserved = FALSE]
           old == weld[o].frags
           new == Append(old, tun + 1)
<1>1. /\ worker[k].at = "read" /\ o \in Weld /\ tun' = tun + 1 /\ wire' = wire
      /\ weld' = [weld EXCEPT ![o] = after] \/ weld' = [weld EXCEPT ![o] = back]
  BY DEF TuntapRead, send_to_global_weld, NetShape
<1>2. /\ after \in WeldRecord /\ after.frags = new /\ back.frags = new
  BY <1>1, FragmentFacts, ReservedFacts
<1>3. old \in Seq(Nat) /\ tun \in Nat /\ tun + 1 \in Nat
  BY <1>1 DEF NetShape, WeldRecord
<1>4. /\ Len(new) = Len(old) + 1 /\ Len(old) \in Nat /\ new[Len(old) + 1] = tun + 1
      /\ \A i \in 1 .. Len(old) : new[i] = old[i]
  <2> DEFINE n == tun + 1
  <2>1. old \in Seq(Nat) /\ n \in Nat
    BY <1>3
  <2> HIDE DEF old, n
  <2>2. /\ Len(Append(old, n)) = Len(old) + 1 /\ Len(old) \in Nat
        /\ Append(old, n)[Len(old) + 1] = n
        /\ \A i \in 1 .. Len(old) : Append(old, n)[i] = old[i]
    BY <2>1, AppendFacts
  <2> QED
    BY <2>2 DEF n
<1>5. Works(k, o)
  BY <1>1 DEF Works
<1> HIDE DEF after, back, o
<1>6. weld'[o].frags = new /\ \A w \in Weld : w # o => weld'[w].frags = weld[w].frags
  BY <1>1, <1>2 DEF NetShape
<1>7. Len(old) < FragMax
  <2>1. space_left(weld[o]) >= TunRead
    BY <1>1, <1>5 DEF Holding, Room
  <2> QED
    BY <1>3, <1>4, <2>1, NetConstants DEF space_left
<1> HIDE DEF new, old
<1>8. old = weld[o].frags
  BY DEF old
<1>9. \A w \in Weld : Len(weld[w].frags) \in Nat
  BY DEF NetShape, WeldRecord
<1>10. \A w \in Weld : Len(weld'[w].frags) <= FragMax
  BY <1>4, <1>6, <1>7, NetConstants DEF Packets
\* A place of a packet after the step is a place before it, or the new one.
<1>11. \A w \in Weld : \A i \in 1 .. Len(weld'[w].frags) :
         \/ w = o /\ i = Len(old) + 1 /\ weld'[w].frags[i] = tun + 1
         \/ i \in 1 .. Len(weld[w].frags) /\ weld'[w].frags[i] = weld[w].frags[i]
  <2> SUFFICES ASSUME NEW w \in Weld, NEW i \in 1 .. Len(weld'[w].frags)
               PROVE  \/ w = o /\ i = Len(old) + 1 /\ weld'[w].frags[i] = tun + 1
                      \/ i \in 1 .. Len(weld[w].frags) /\ weld'[w].frags[i] = weld[w].frags[i]
    OBVIOUS
  <2>1. CASE w # o
    BY <1>6, <2>1
  <2>2. CASE w = o
    BY <1>4, <1>6, <1>8, <2>2, SMTT(60)
  <2> QED
    BY <2>1, <2>2
<1>12. \A w \in Weld : \A i \in 1 .. Len(weld[w].frags) :
         i \in 1 .. Len(weld'[w].frags) /\ weld'[w].frags[i] = weld[w].frags[i]
  <2> SUFFICES ASSUME NEW w \in Weld, NEW i \in 1 .. Len(weld[w].frags)
               PROVE  i \in 1 .. Len(weld'[w].frags) /\ weld'[w].frags[i] = weld[w].frags[i]
    OBVIOUS
  <2>1. CASE w # o
    BY <1>6, <2>1
  <2>2. CASE w = o
    BY <1>4, <1>6, <1>8, <2>2
  <2> QED
    BY <2>1, <2>2
<1>13. /\ \A w \in Weld : \A i \in 1 .. Len(weld[w].frags) : weld[w].frags[i] \in 1 .. tun
       /\ \A i \in 1 .. Len(wire) : wire[i] \in 1 .. tun
       /\ tun + 1 \notin 1 .. tun
       /\ \A p \in 1 .. tun : p \in 1 .. tun + 1
       /\ tun + 1 \in 1 .. tun + 1
  BY <1>3 DEF Packets
<1>14. /\ \A w \in Weld : \A i \in 1 .. Len(weld'[w].frags) : weld'[w].frags[i] \in 1 .. tun'
       /\ \A i \in 1 .. Len(wire') : wire'[i] \in 1 .. tun'
  BY <1>1, <1>11, <1>13
<1>15. \A w, v \in Weld : \A i \in 1 .. Len(weld'[w].frags), j \in 1 .. Len(weld'[v].frags) :
         weld'[w].frags[i] = weld'[v].frags[j] => w = v /\ i = j
  <2> SUFFICES ASSUME NEW w \in Weld, NEW v \in Weld, NEW i \in 1 .. Len(weld'[w].frags),
                      NEW j \in 1 .. Len(weld'[v].frags), weld'[w].frags[i] = weld'[v].frags[j]
               PROVE  w = v /\ i = j
    OBVIOUS
  <2>1. \/ w = o /\ i = Len(old) + 1 /\ weld'[w].frags[i] = tun + 1
        \/ i \in 1 .. Len(weld[w].frags) /\ weld'[w].frags[i] = weld[w].frags[i]
    BY <1>11
  <2>2. \/ v = o /\ j = Len(old) + 1 /\ weld'[v].frags[j] = tun + 1
        \/ j \in 1 .. Len(weld[v].frags) /\ weld'[v].frags[j] = weld[v].frags[j]
    BY <1>11
  <2>3. ASSUME i \in 1 .. Len(weld[w].frags), j \in 1 .. Len(weld[v].frags),
               weld[w].frags[i] = weld[v].frags[j]
        PROVE  w = v /\ i = j
    BY <2>3 DEF Packets
  <2> QED
    BY <1>13, <2>1, <2>2, <2>3
<1>16. \A w \in Weld : \A i \in 1 .. Len(weld'[w].frags), j \in 1 .. Len(wire') :
         weld'[w].frags[i] # wire'[j]
  <2> SUFFICES ASSUME NEW w \in Weld, NEW i \in 1 .. Len(weld'[w].frags), NEW j \in 1 .. Len(wire)
               PROVE  weld'[w].frags[i] # wire[j]
    BY <1>1
  <2>1. \/ w = o /\ i = Len(old) + 1 /\ weld'[w].frags[i] = tun + 1
        \/ i \in 1 .. Len(weld[w].frags) /\ weld'[w].frags[i] = weld[w].frags[i]
    BY <1>11
  <2> QED
    BY <1>13, <2>1 DEF Packets
<1>17. \A p \in 1 .. tun' :
         \/ \E w \in Weld : \E i \in 1 .. Len(weld'[w].frags) : weld'[w].frags[i] = p
         \/ \E i \in 1 .. Len(wire') : wire'[i] = p
  <2> SUFFICES ASSUME NEW p \in 1 .. tun + 1
               PROVE  \/ \E w \in Weld : \E i \in 1 .. Len(weld'[w].frags) : weld'[w].frags[i] = p
                      \/ \E i \in 1 .. Len(wire) : wire[i] = p
    BY <1>1
  <2>1. CASE p = tun + 1
    BY <1>1, <1>4, <1>6, <2>1
  <2>2. CASE p \in 1 .. tun
    <3>1. \/ \E w \in Weld : \E i \in 1 .. Len(weld[w].frags) : weld[w].frags[i] = p
          \/ \E i \in 1 .. Len(wire) : wire[i] = p
      BY <2>2 DEF Packets
    <3> QED
      BY <1>12, <3>1
  <2> QED
    BY <1>3, <2>1, <2>2
<1>18. \A i, j \in 1 .. Len(wire') : wire'[i] = wire'[j] => i = j
  BY <1>1 DEF Packets
<1> QED
  BY <1>10, <1>14, <1>15, <1>16, <1>17, <1>18 DEF Packets

\* The packets of a weld that was sent go to the end of what left.
LEMMA DonePackets ==
  ASSUME NetShape, Packets, NEW t \in Thread, NEW v \in Weld, SendDone(t, v)
  PROVE  Packets'
<1> DEFINE old == weld[v].frags
           out == wire \o old
<1>1. wire' = out /\ weld' = [weld EXCEPT ![v] = c_weld] /\ tun' = tun
  BY DEF SendDone
<1>2. old \in Seq(Nat) /\ wire \in Seq(Nat)
  BY DEF NetShape, WeldRecord
<1>3. /\ Len(out) = Len(wire) + Len(old) /\ Len(wire) \in Nat /\ Len(old) \in Nat
      /\ \A i \in 1 .. Len(wire) : out[i] = wire[i]
      /\ \A i \in 1 .. Len(old) : out[Len(wire) + i] = old[i]
      /\ \A i \in 1 .. Len(wire) + Len(old) :
           i \in 1 .. Len(wire) \/ (i - Len(wire) \in 1 .. Len(old) /\ Len(wire) + (i - Len(wire)) = i)
  BY <1>2, ConcatFacts
<1>4. weld'[v] = c_weld /\ Len(c_weld.frags) = 0 /\ \A w \in Weld : w # v => weld'[w] = weld[w]
  BY <1>1 DEF NetShape, c_weld
<1> HIDE DEF old, out, c_weld
<1>5. old = weld[v].frags
  BY DEF old
\* A place of a packet after the step was one before it.
<1>6. \A w \in Weld : \A i \in 1 .. Len(weld'[w].frags) : w # v /\ weld'[w] = weld[w]
  BY <1>4
<1>7. \A i \in 1 .. Len(out) : \/ i \in 1 .. Len(wire) /\ out[i] = wire[i]
                               \/ i - Len(wire) \in 1 .. Len(old) /\ out[i] = old[i - Len(wire)]
  <2> SUFFICES ASSUME NEW i \in 1 .. Len(out), i \notin 1 .. Len(wire)
               PROVE  i - Len(wire) \in 1 .. Len(old) /\ out[i] = old[i - Len(wire)]
    BY <1>3
  <2>1. i - Len(wire) \in 1 .. Len(old) /\ Len(wire) + (i - Len(wire)) = i
    BY <1>3
  <2>2. out[Len(wire) + (i - Len(wire))] = old[i - Len(wire)]
    BY <1>3, <2>1
  <2> QED
    BY <2>1, <2>2
<1>8. /\ \A w \in Weld : Len(weld'[w].frags) <= FragMax
      /\ \A w \in Weld : \A i \in 1 .. Len(weld'[w].frags) : weld'[w].frags[i] \in 1 .. tun'
      /\ \A w, x \in Weld : \A i \in 1 .. Len(weld'[w].frags), j \in 1 .. Len(weld'[x].frags) :
           weld'[w].frags[i] = weld'[x].frags[j] => w = x /\ i = j
  <2>1. \A w \in Weld : Len(weld'[w].frags) <= FragMax
    BY <1>4, NetConstants DEF Packets
  <2>2. \A w \in Weld : \A i \in 1 .. Len(weld'[w].frags) : weld'[w].frags[i] \in 1 .. tun'
    BY <1>1, <1>6 DEF Packets
  <2>3. \A w, x \in Weld : \A i \in 1 .. Len(weld'[w].frags), j \in 1 .. Len(weld'[x].frags) :
          weld'[w].frags[i] = weld'[x].frags[j] => w = x /\ i = j
    <3> SUFFICES ASSUME NEW w \in Weld, NEW x \in Weld, NEW i \in 1 .. Len(weld'[w].frags),
                        NEW j \in 1 .. Len(weld'[x].frags), weld'[w].frags[i] = weld'[x].frags[j]
                 PROVE  w = x /\ i = j
      OBVIOUS
    <3>1. weld'[w] = weld[w] /\ weld'[x] = weld[x]
      BY <1>6
    <3> QED
      BY <3>1 DEF Packets
  <2> QED
    BY <2>1, <2>2, <2>3
<1>9. \A i \in 1 .. Len(out) : out[i] \in 1 .. tun
  BY <1>5, <1>7 DEF Packets
<1>10. \A i, j \in 1 .. Len(out) : out[i] = out[j] => i = j
  <2> SUFFICES ASSUME NEW i \in 1 .. Len(out), NEW j \in 1 .. Len(out), out[i] = out[j] PROVE i = j
    OBVIOUS
  <2>1. \/ i \in 1 .. Len(wire) /\ out[i] = wire[i]
        \/ i - Len(wire) \in 1 .. Len(old) /\ out[i] = old[i - Len(wire)]
    BY <1>7
  <2>2. \/ j \in 1 .. Len(wire) /\ out[j] = wire[j]
        \/ j - Len(wire) \in 1 .. Len(old) /\ out[j] = old[j - Len(wire)]
    BY <1>7
  <2>3. /\ \A m, n \in 1 .. Len(old) : old[m] = old[n] => m = n
        /\ \A m, n \in 1 .. Len(wire) : wire[m] = wire[n] => m = n
        /\ \A m \in 1 .. Len(old), n \in 1 .. Len(wire) : old[m] # wire[n]
    BY <1>5 DEF Packets
  <2>4. CASE i - Len(wire) \in 1 .. Len(old) /\ j - Len(wire) \in 1 .. Len(old)
             /\ out[i] = old[i - Len(wire)] /\ out[j] = old[j - Len(wire)]
    <3>1. i - Len(wire) = j - Len(wire)
      BY <2>3, <2>4
    <3> QED
      BY <1>3, <3>1
  <2> QED
    BY <2>1, <2>2, <2>3, <2>4
<1>11. \A w \in Weld : \A i \in 1 .. Len(weld'[w].frags), j \in 1 .. Len(out) : weld'[w].frags[i] # out[j]
  <2> SUFFICES ASSUME NEW w \in Weld, NEW i \in 1 .. Len(weld'[w].frags), NEW j \in 1 .. Len(out)
               PROVE  weld'[w].frags[i] # out[j]
    OBVIOUS
  <2>1. w # v /\ weld'[w] = weld[w]
    BY <1>6
  <2>2. \/ j \in 1 .. Len(wire) /\ out[j] = wire[j]
        \/ j - Len(wire) \in 1 .. Len(old) /\ out[j] = old[j - Len(wire)]
    BY <1>7
  <2>3. i \in 1 .. Len(weld[w].frags) /\ weld'[w].frags[i] = weld[w].frags[i]
    BY <2>1
  <2>4. \A m \in 1 .. Len(wire) : weld[w].frags[i] # wire[m]
    BY <2>3 DEF Packets
  <2>5. \A m \in 1 .. Len(old) : weld[w].frags[i] # old[m]
    BY <1>5, <2>1, <2>3 DEF Packets
  <2> QED
    BY <2>2, <2>3, <2>4, <2>5
<1>12. \A p \in 1 .. tun : \/ \E w \in Weld : \E i \in 1 .. Len(weld'[w].frags) : weld'[w].frags[i] = p
                           \/ \E i \in 1 .. Len(out) : out[i] = p
  <2> SUFFICES ASSUME NEW p \in 1 .. tun
               PROVE  \/ \E w \in Weld : \E i \in 1 .. Len(weld'[w].frags) : weld'[w].frags[i] = p
                      \/ \E i \in 1 .. Len(out) : out[i] = p
    OBVIOUS
  <2>1. ASSUME NEW i \in 1 .. Len(wire), wire[i] = p PROVE \E j \in 1 .. Len(out) : out[j] = p
    BY <1>3, <2>1
  <2>2. ASSUME NEW w \in Weld, NEW i \in 1 .. Len(weld[w].frags), weld[w].frags[i] = p, w # v
        PROVE  \E x \in Weld : \E j \in 1 .. Len(weld'[x].frags) : weld'[x].frags[j] = p
    BY <1>4, <2>2
  <2>3. ASSUME NEW i \in 1 .. Len(old), old[i] = p PROVE \E j \in 1 .. Len(out) : out[j] = p
    <3>1. Len(wire) + i \in 1 .. Len(out) /\ out[Len(wire) + i] = p
      BY <1>3, <2>3
    <3> QED
      BY <3>1
  <2>4. \/ \E w \in Weld : \E i \in 1 .. Len(weld[w].frags) : weld[w].frags[i] = p
        \/ \E i \in 1 .. Len(wire) : wire[i] = p
    BY DEF Packets
  <2> QED
    BY <1>5, <2>1, <2>2, <2>3, <2>4
<1> QED
  BY <1>1, <1>8, <1>9, <1>10, <1>11, <1>12 DEF Packets

\* No step loses a packet or has it in two places.
LEMMA PacketsStep ==
  NetShape /\ NotStarted /\ Packets /\ (\A w \in Weld : Holding(w)) /\ [NetNext]_netVars => Packets'
<1> SUFFICES ASSUME NetShape, NotStarted, Packets, \A w \in Weld : Holding(w), [NetNext]_netVars
             PROVE  Packets'
  OBVIOUS
<1>a. ASSUME weld' = weld, tun' = tun, wire' = wire PROVE Packets'
  BY <1>a, SamePackets
<1>1. CASE UNCHANGED netVars \/ ParseOptions \/ handler_signal_term \/ thread_stop \/ JoinAll
  BY <1>1, <1>a DEF netVars, ParseOptions, handler_signal_term, thread_stop, JoinAll
<1>2. CASE StartWorkers
  <2>1. tun' = tun /\ wire' = wire
    BY <1>2 DEF StartWorkers
  <2>2. CASE ~option.async
    BY <1>2, <1>a, <2>1, <2>2 DEF StartWorkers
  <2>3. CASE option.async
    <3> DEFINE Y(v) == [weld[v] EXCEPT !.m_reserved = v \in Worker]
    <3>1. weld' = [v \in Weld |-> Y(v)]
      BY <1>2, <2>3, Zenon DEF StartWorkers
    <3>2. ASSUME NEW w \in Weld PROVE weld'[w].frags = weld[w].frags
      <4> DEFINE r == w \in Worker
      <4>1. weld'[w] = Y(w)
        BY <3>1, Zenon
      <4>2. weld'[w] = [weld[w] EXCEPT !.m_reserved = r]
        BY <4>1, Zenon
      <4>3. r \in BOOLEAN /\ weld[w] \in WeldRecord
        BY DEF NetShape
      <4> HIDE DEF r, Y
      <4> QED
        BY <4>2, <4>3, ReservedFacts
    <3> HIDE DEF Y
    <3> QED
      BY <2>1, <3>2, SamePackets
  <2> QED
    BY <2>2, <2>3
<1>3. CASE \E b \in Inbuf : func_spawn_flow_wire(b)
  BY <1>3, <1>a DEF func_spawn_flow_wire
<1>4. ASSUME NEW k \in Worker, get_tun_input_buffer(k) PROVE Packets'
  <2> DEFINE f == FirstUsable
  <2>1. f \in Weld
    BY <1>4, FoundIsUsable DEF get_tun_input_buffer
  <2>2. weld' = [weld EXCEPT ![f].m_reserved = TRUE] /\ tun' = tun /\ wire' = wire
    BY <1>4 DEF get_tun_input_buffer
  <2> HIDE DEF f
  <2>3. \A w \in Weld : weld'[w].frags = weld[w].frags
    BY <2>1, <2>2 DEF NetShape, WeldRecord
  <2> QED
    BY <2>2, <2>3, SamePackets
<1>5. CASE \E k \in Worker : TuntapReadThrows(k) \/ WorkerEnds(k)
  BY <1>5, <1>a DEF TuntapReadThrows, WorkerEnds
<1>6. CASE \E t \in Thread : \/ \E s \in Sock : RunStrand(t, s)
                             \/ \E b \in Inbuf, s \in Sock : RunPosted(t, b, s)
                             \/ UseSocket(t) \/ ThreadEnds(t)
                             \/ \E b \in Inbuf, ec, exit \in BOOLEAN : handler_receive(t, b, ec, exit)
  BY <1>6, <1>a DEF RunStrand, RunPosted, UseSocket, ThreadEnds, handler_receive
<1> QED
  BY <1>1, <1>2, <1>3, <1>4, <1>5, <1>6, ReadPackets, DonePackets DEF NetNext, WireThread

\* What holds in every state of the network model.
LEMMA NetInvariant == NetSpec => []NetInv
<1>1. NetInit => NetInv
  <2> SUFFICES ASSUME NetInit PROVE NetInv
    OBVIOUS
  <2>1. c_weld \in WeldRecord /\ Free \in WorkerRecord /\ Free.at = "none" /\ Idle \in IosTask
        /\ Idle[1] # "mutex" /\ Len(Idle) = 1 /\ ~c_weld.m_reserved /\ Len(c_weld.frags) = 0
        /\ space_left(c_weld) >= TunRead
    BY NetConstants DEF c_weld, Free, WeldRecord, WorkerRecord, IosTask, Idle, space_left
  <2> HIDE DEF c_weld, Free, Idle
  <2>2. NetShape
    BY <2>1 DEF NetInit, NetShape
  <2>3. OneUser
    BY <2>1 DEF NetInit, OneUser, Using
  <2>4. NotStarted
    BY <2>1 DEF NetInit, NotStarted
  <2>5. /\ tun = 0 /\ Len(wire) = 0 /\ \A w \in Weld : weld[w] = c_weld
        /\ 1 .. 0 = {}
    BY DEF NetInit
  <2>6. Packets
    BY <2>1, <2>5, NetConstants DEF Packets
  <2>7. ASSUME NEW w \in Weld PROVE Exclusive(w) /\ Held(w) /\ Room(w)
    <3>1. /\ \A k \in Worker : ~Works(k, w)
          /\ \A s \in Sock, i \in Nat : ~Queued(s, i, w)
          /\ \A t \in Thread : ~Sends(t, w)
          /\ w \notin sending
      BY <2>1 DEF NetInit, Works, Queued, Sends
    <3> QED
      BY <2>1, <2>5, <3>1 DEF Exclusive, Held, Room
  <2> QED
    BY <2>2, <2>3, <2>4, <2>6, <2>7 DEF NetInv
<1>2. NetInv /\ [NetNext]_netVars => NetInv'
  <2> SUFFICES ASSUME NetInv, [NetNext]_netVars PROVE NetInv'
    OBVIOUS
  <2>1. NetShape /\ NotStarted /\ OneUser /\ Packets /\ \A w \in Weld : Holding(w)
    BY DEF NetInv, Holding
  <2>2. NetShape' /\ NotStarted' /\ OneUser' /\ Packets'
    BY <2>1, ShapeStep, NotStartedStep, OneUserStep, PacketsStep
  <2>3. \A w \in Weld : Holding(w)'
    BY <2>1, HoldingStep
  <2> QED
    BY <2>2, <2>3 DEF NetInv, Holding
<1> QED
  BY <1>1, <1>2, PTL DEF NetSpec

\* The set of the holders of a weld, element by element.
LEMMA HolderFacts ==
  ASSUME NetShape, NEW w \in Weld, NEW x
  PROVE  x \in Holders(w) <=> \/ \E k \in Worker : Works(k, w) /\ x = <<"worker", k>>
                              \/ \E s \in Sock, i \in Nat : Queued(s, i, w) /\ x = <<"strand", s>>
                              \/ \E t \in Thread : Sends(t, w) /\ x = <<"thread", t>>
                              \/ w \in sending /\ x = <<"asio", w>>
<1>1. \A k \in Worker : worker[k] = [at |-> "read", weld |-> w] <=> Works(k, w)
  BY DEF NetShape, WorkerRecord, Works
<1>2. \A s \in Sock : Contains(strand[s], <<"send", w>>) <=> \E i \in Nat : Queued(s, i, w)
  <2> SUFFICES ASSUME NEW s \in Sock
               PROVE  Contains(strand[s], <<"send", w>>) <=> \E i \in Nat : Queued(s, i, w)
    OBVIOUS
  <2>1. Len(strand[s]) \in Nat
    BY DEF NetShape
  <2>2. \A i : i \in 1 .. Len(strand[s]) => i \in Nat
    BY <2>1
  <2> QED
    BY <2>2 DEF Contains, Queued
<1>3. \A t \in Thread : Len(ios_thread[t]) = 3 /\ ios_thread[t][3] = <<"send", w>> <=> Sends(t, w)
  BY DEF Sends
<1> QED
  BY <1>1, <1>2, <1>3, Zenon DEF Holders

\* A weld is read into or sent by one holder at a time and a reservation has its holder;
\* a weld that is free has room for a read; a packet that was read is in one place, a weld
\* or the wire (get_tun_input_buffer, send_to_global_weld and the handlers of func_send_weld
\* in netmodel.cpp).  This holds for any number of welds, workers, threads, sockets and packets.
THEOREM WeldsStayExclusive == NetSpec => []WeldsAreExclusive
<1>1. NetInv => WeldHasOneHolder
  <2> SUFFICES ASSUME NetInv, NEW w \in Weld
               PROVE  /\ Cardinality(Holders(w)) <= 1
                      /\ ~weld[w].m_reserved => Holders(w) = {}
                      /\ weld[w].m_reserved /\ option.real => Holders(w) # {}
    BY DEF WeldHasOneHolder
  <2> DEFINE InPlace(x) == \/ \E k \in Worker : Works(k, w) /\ x = <<"worker", k>>
                           \/ \E s \in Sock, i \in Nat : Queued(s, i, w) /\ x = <<"strand", s>>
                           \/ \E t \in Thread : Sends(t, w) /\ x = <<"thread", t>>
                           \/ w \in sending /\ x = <<"asio", w>>
  <2>1. \A x : x \in Holders(w) <=> InPlace(x)
    BY HolderFacts DEF NetInv
  <2>2. Exclusive(w) /\ Held(w)
    BY DEF NetInv
  <2>3. \A x, y : InPlace(x) /\ InPlace(y) => x = y
    BY <2>2, ZenonT(60) DEF Exclusive
  <2>4. ~weld[w].m_reserved => \A x : ~InPlace(x)
    BY <2>2, Zenon DEF Exclusive
  <2>5. weld[w].m_reserved /\ option.real => \E x : InPlace(x)
    BY <2>2, Zenon DEF Held
  <2> HIDE DEF InPlace
  <2>6. Cardinality(Holders(w)) <= 1
    BY <2>1, <2>3, AtMostOne
  <2> QED
    BY <2>1, <2>4, <2>5, <2>6
<1>2. NetInv => FreeWeldHasRoom
  BY DEF NetInv, Room, FreeWeldHasRoom
<1>3. NetInv => PacketsInOnePlace
  <2> DEFINE held == {h \in Weld \X (1 .. FragMax) : h[2] <= Len(weld[h[1]].frags)}
  <2> SUFFICES ASSUME NetInv, NEW p \in 1 .. tun
               PROVE  Cardinality({h \in held : weld[h[1]].frags[h[2]] = p})
                        + Cardinality({i \in 1 .. Len(wire) : wire[i] = p}) = 1
    BY DEF PacketsInOnePlace
  <2> DEFINE A == {h \in held : weld[h[1]].frags[h[2]] = p}
             B == {i \in 1 .. Len(wire) : wire[i] = p}
  <2>0. /\ Packets /\ \A w \in Weld : Len(weld[w].frags) \in Nat
        /\ FragMax \in Nat
    BY NetConstants DEF NetInv, NetShape, WeldRecord
  <2>1. \A h : h \in A => /\ h = <<h[1], h[2]>> /\ h[1] \in Weld
                          /\ h[2] \in 1 .. Len(weld[h[1]].frags) /\ weld[h[1]].frags[h[2]] = p
    BY <2>0
  <2>2. \A w \in Weld : \A i \in 1 .. Len(weld[w].frags) : weld[w].frags[i] = p => <<w, i>> \in A
    <3> SUFFICES ASSUME NEW w \in Weld, NEW i \in 1 .. Len(weld[w].frags), weld[w].frags[i] = p
                 PROVE  <<w, i>> \in A
      OBVIOUS
    <3>1. i \in 1 .. FragMax /\ i <= Len(weld[w].frags)
      BY <2>0 DEF Packets
    <3> QED
      BY <3>1
  <2>3. \A i : i \in B <=> i \in 1 .. Len(wire) /\ wire[i] = p
    OBVIOUS
  <2> HIDE DEF A, B, held
  <2>4. \A g, h \in A : g = h
    <3> SUFFICES ASSUME NEW g \in A, NEW h \in A PROVE g = h
      OBVIOUS
    <3>1. g[1] = h[1] /\ g[2] = h[2]
      BY <2>0, <2>1, SMTT(60) DEF Packets
    <3> QED
      BY <2>1, <3>1
  <2>5. \A i, j \in B : i = j
    BY <2>0, <2>3 DEF Packets
  <2>6. A # {} => B = {}
    BY <2>0, <2>1, <2>3 DEF Packets
  <2>7. A # {} \/ B # {}
    BY <2>0, <2>2, <2>3 DEF Packets
  <2>8. /\ (A # {} => Cardinality(A) = 1) /\ (A = {} => Cardinality(A) = 0)
        /\ (B # {} => Cardinality(B) = 1) /\ (B = {} => Cardinality(B) = 0)
    BY <2>4, <2>5, AtMostOne
  <2>9. Cardinality(A) + Cardinality(B) = 1
    BY <2>6, <2>7, <2>8
  <2> QED
    BY <2>9 DEF A, B
<1>4. NetInv => WeldsAreExclusive
  BY <1>1, <1>2, <1>3 DEF WeldsAreExclusive
<1> QED
  BY <1>4, NetInvariant, PTL

-----------------------------------------------------------------------------
\* The crypto benchmark: the countdown is the number of workers that are not ready, so
\* the main thread sets the flag when there is none, and no worker passes it earlier.
NewWorkers == { n \in 1 .. MaxThreads : bworker[n] = "new" }

BenchInv ==
  /\ benchPc \in {"options", "next", "spawn", "check", "sleep", "go", "notify", "join", "done", "throw"}
  /\ todo_jobs \subseteq Jobs /\ job \in Jobs /\ worker_start_flag \in BOOLEAN
  /\ bworker \in [1 .. MaxThreads -> {"none", "new", "notify", "check", "sleep", "work", "done"}]
  /\ worker_ready_countdown = Cardinality(NewWorkers)
  /\ benchPc = "go" \/ worker_start_flag => NewWorkers = {}
  /\ (\E n \in 1 .. MaxThreads : bworker[n] = "work") => worker_start_flag
  /\ result_sample \in 0 .. BenchSamples
  /\ benchPc \in {"check", "sleep", "go", "notify", "join"} => result_sample < BenchSamples

\* The workers that are not ready are finitely many.
LEMMA NewWorkersFinite ==
  /\ IsFiniteSet(NewWorkers) /\ Cardinality(NewWorkers) \in 0 .. MaxThreads
  /\ Cardinality(NewWorkers) = 0 <=> NewWorkers = {}
<1>1. MaxThreads \in Nat /\ 1 \in Int /\ MaxThreads \in Int
  BY BenchConstants
<1>2. IsFiniteSet(1 .. MaxThreads) /\ Cardinality(1 .. MaxThreads) <= MaxThreads
  BY <1>1, FS_Interval
<1>3. NewWorkers \in SUBSET (1 .. MaxThreads)
  BY DEF NewWorkers
<1>4. IsFiniteSet(NewWorkers) /\ Cardinality(NewWorkers) <= Cardinality(1 .. MaxThreads)
  BY <1>2, <1>3, FS_Subset
<1>5. Cardinality(NewWorkers) \in Nat /\ Cardinality(1 .. MaxThreads) \in Nat
  BY <1>2, <1>4, FS_CardinalityType
<1> QED
  BY <1>1, <1>2, <1>4, <1>5, FS_EmptySet

\* The three nested loops have a first job.
LEMMA FirstJob ==
  ASSUME NEW T, T \subseteq Jobs, T # {}
  PROVE  \E x \in T : \A y \in T : Precedes(x, y)
<1>0. \A x \in T : x.thr \in Nat /\ x.op \in Int /\ x.op + 100 \in Nat /\ x.size \in Nat
  <2>1. \A o \in e_crypto_test \union {0} : o \in Int /\ o + 100 \in Nat
    BY DEF e_crypto_test, AuthPoly, VeriPoly, EncrSalsa, DecrSalsa, MakeBox, OpenBox, EncrChacha,
           DecrChacha, VeriAuth
  <2>2. ASSUME NEW x \in T PROVE x.thr \in Nat /\ x.op \in Int /\ x.op + 100 \in Nat /\ x.size \in Nat
    <3>1. x \in [thr : 1 .. MaxThreads, op : e_crypto_test \union {0}, size : BenchSizes]
      BY <2>2 DEF Jobs
    <3>2. x.thr \in 1 .. MaxThreads /\ x.op \in e_crypto_test \union {0} /\ x.size \in BenchSizes
      BY <3>1
    <3>3. x.thr \in Nat
      BY <3>2, BenchConstants
    <3>4. x.size \in Nat
      BY <3>2, BenchConstants
    <3> QED
      BY <2>1, <3>2, <3>3, <3>4
  <2> QED
    BY <2>2
<1> DEFINE A == { x.thr : x \in T }
<1>1. A \subseteq Nat /\ A # {}
  BY <1>0
<1>2. PICK t \in A : \A y \in A : t <= y
  BY <1>1, LeastElement
<1> DEFINE T1 == { x \in T : x.thr = t }
           B == { x.op + 100 : x \in T1 }
<1>3. B \subseteq Nat /\ B # {}
  BY <1>0, <1>2
<1>4. PICK o \in B : \A y \in B : o <= y
  <2> HIDE DEF B
  <2> QED
    BY <1>3, LeastElement
<1> DEFINE T2 == { x \in T1 : x.op + 100 = o }
           C == { x.size : x \in T2 }
<1>5. C \subseteq Nat /\ C # {}
  <2>1. T2 # {}
    BY <1>4
  <2> QED
    BY <1>0, <2>1
<1>6. PICK s \in C : \A y \in C : s <= y
  <2> HIDE DEF C
  <2> QED
    BY <1>5, LeastElement
<1>7. PICK x \in T2 : x.size = s
  BY <1>6
<1>8. ASSUME NEW y \in T PROVE Precedes(x, y)
  <2>1. x \in T /\ x.thr = t /\ x.op + 100 = o /\ x.size = s
    BY <1>7
  <2>2. t <= y.thr /\ t \in Nat /\ o \in Nat /\ s \in Nat
    BY <1>1, <1>2, <1>3, <1>5
  <2>3. y.thr = t => o <= y.op + 100
    BY <1>4
  <2>4. y.thr = t /\ y.op + 100 = o => s <= y.size
    BY <1>6
  <2> HIDE DEF A, B, C, T1, T2
  <2>5. x.thr \in Nat /\ x.op \in Int /\ y.thr \in Nat /\ y.op \in Int /\ x.size \in Nat /\ y.size \in Nat
    BY <1>0, <2>1
  <2>6. CASE y.thr # t
    BY <2>1, <2>2, <2>5, <2>6 DEF Precedes
  <2>7. CASE y.thr = t
    BY <2>1, <2>2, <2>3, <2>4, <2>5, <2>7 DEF Precedes
  <2> QED
    BY <2>6, <2>7
<1> QED
  BY <1>7, <1>8

\* The benchmark keeps the count.
LEMMA BenchStep == BenchInv /\ [BenchNext]_benchVars => BenchInv'
<1> SUFFICES ASSUME BenchInv, [BenchNext]_benchVars PROVE BenchInv'
  OBVIOUS
<1>0. MaxThreads \in Nat \ {0} /\ BenchSamples \in Nat
  BY BenchConstants
<1>1. ASSUME bworker' = bworker PROVE NewWorkers' = NewWorkers
  BY <1>1 DEF NewWorkers
<1>2. ASSUME UNCHANGED benchVars PROVE BenchInv'
  <2>1. NewWorkers' = NewWorkers
    BY <1>1, <1>2 DEF benchVars
  <2> QED
    BY <1>2, <2>1 DEF BenchInv, benchVars
<1>3. ASSUME NEW threads, NEW op, NEW sizes, cryptotest_main(threads, op, sizes) PROVE BenchInv'
  <2>1. NewWorkers' = NewWorkers
    BY <1>1, <1>3 DEF cryptotest_main
  <2> QED
    BY <1>3, <2>1 DEF BenchInv, cryptotest_main
<1>4. ASSUME cryptotest_mesure_one PROVE BenchInv'
  <2>1. NewWorkers' = NewWorkers /\ benchPc' \in {"done", "spawn", "throw"}
    BY <1>1, <1>4 DEF cryptotest_mesure_one
  <2>2. todo_jobs' \subseteq Jobs /\ job' \in Jobs
    <3>1. CASE todo_jobs = {}
      BY <1>4, <3>1 DEF cryptotest_mesure_one, BenchInv
    <3>2. CASE todo_jobs # {}
      <4> DEFINE j == CHOOSE x \in todo_jobs : \A y \in todo_jobs : Precedes(x, y)
      <4>1. job' = j /\ todo_jobs' = todo_jobs \ {j}
        BY <1>4, <3>2 DEF cryptotest_mesure_one
      <4>2. j \in todo_jobs
        BY <3>2, FirstJob DEF BenchInv
      <4> QED
        BY <4>1, <4>2 DEF BenchInv
    <3> QED
      BY <3>1, <3>2
  <2> QED
    BY <1>0, <1>4, <2>1, <2>2 DEF BenchInv, cryptotest_mesure_one
<1>5. ASSUME SpawnWorkers PROVE BenchInv'
  <2>1. CASE result_sample = BenchSamples
    <3>1. NewWorkers' = NewWorkers
      BY <1>1, <1>5, <2>1 DEF SpawnWorkers
    <3> QED
      BY <1>0, <1>5, <2>1, <3>1 DEF SpawnWorkers, BenchInv
  <2>2. CASE result_sample # BenchSamples
    <3>1. /\ bworker' = [n \in 1 .. MaxThreads |-> IF n <= job.thr THEN "new" ELSE "none"]
          /\ worker_ready_countdown' = job.thr /\ worker_start_flag' = FALSE /\ benchPc' = "check"
          /\ UNCHANGED <<todo_jobs, job, result_sample>>
      BY <1>5, <2>2 DEF SpawnWorkers
    <3>2. job.thr \in 1 .. MaxThreads
      BY DEF BenchInv, Jobs
    <3>3. NewWorkers' = 1 .. job.thr
      BY <1>0, <3>1, <3>2 DEF NewWorkers
    <3>4. Cardinality(1 .. job.thr) = job.thr
      <4>1. 1 \in Int /\ job.thr \in Int /\ ~(1 > job.thr) /\ job.thr - 1 + 1 = job.thr
        BY <1>0, <3>2
      <4> QED
        BY <4>1, FS_Interval
    <3>5. bworker' \in [1 .. MaxThreads -> {"none", "new", "notify", "check", "sleep", "work", "done"}]
          /\ ~\E n \in 1 .. MaxThreads : bworker'[n] = "work"
      BY <3>1
    <3>6. result_sample \in 0 .. BenchSamples /\ result_sample < BenchSamples
      BY <1>0, <2>2 DEF BenchInv
    <3>7. todo_jobs' \subseteq Jobs /\ job' \in Jobs /\ result_sample' = result_sample
      BY <3>1 DEF BenchInv
    <3>8. worker_ready_countdown' = Cardinality(NewWorkers')
      BY <3>1, <3>3, <3>4
    <3>9. ~(benchPc' = "go" \/ worker_start_flag')
      BY <3>1
    <3>10. worker_start_flag' \in BOOLEAN /\ benchPc' = "check"
      BY <3>1
    <3> QED
      BY <3>5, <3>6, <3>7, <3>8, <3>9, <3>10 DEF BenchInv
  <2> QED
    BY <2>1, <2>2
<1>6. ASSUME MainWaits \/ MainStarts PROVE BenchInv'
  <2>1. NewWorkers' = NewWorkers
    BY <1>1, <1>6 DEF MainWaits, MainStarts
  <2>2. CASE MainWaits
    BY <2>1, <2>2, NewWorkersFinite DEF BenchInv, MainWaits
  <2>3. CASE MainStarts
    BY <2>1, <2>3 DEF BenchInv, MainStarts
  <2> QED
    BY <1>6, <2>2, <2>3
<1>7. ASSUME MainNotifies PROVE BenchInv'
  <2>1. NewWorkers' = NewWorkers
    BY <1>7 DEF MainNotifies, NewWorkers, BenchInv
  <2>2. bworker' \in [1 .. MaxThreads -> {"none", "new", "notify", "check", "sleep", "work", "done"}]
    BY <1>7 DEF MainNotifies, BenchInv
  <2>3. (\E n \in 1 .. MaxThreads : bworker'[n] = "work") => worker_start_flag
    BY <1>7 DEF MainNotifies, BenchInv
  <2> QED
    BY <1>7, <2>1, <2>2, <2>3 DEF BenchInv, MainNotifies
<1>8. ASSUME MainJoins PROVE BenchInv'
  <2>1. NewWorkers' = NewWorkers
    BY <1>1, <1>8 DEF MainJoins
  <2> QED
    BY <1>0, <1>8, <2>1 DEF BenchInv, MainJoins
<1>9. ASSUME NEW n \in 1 .. MaxThreads, WorkerReady(n) PROVE BenchInv'
  <2>1. n \in NewWorkers /\ bworker' = [bworker EXCEPT ![n] = "notify"]
        /\ worker_ready_countdown' = worker_ready_countdown - 1
        /\ UNCHANGED <<benchPc, todo_jobs, job, worker_start_flag, result_sample>>
    BY <1>9 DEF WorkerReady, NewWorkers
  <2>2. NewWorkers' = NewWorkers \ {n}
    BY <2>1 DEF NewWorkers, BenchInv
  <2>3. Cardinality(NewWorkers \ {n}) = Cardinality(NewWorkers) - 1
    BY <2>1, NewWorkersFinite, FS_RemoveElement
  <2>4. bworker' \in [1 .. MaxThreads -> {"none", "new", "notify", "check", "sleep", "work", "done"}]
        /\ ((\E m \in 1 .. MaxThreads : bworker'[m] = "work") => worker_start_flag)
    BY <2>1 DEF BenchInv
  <2> QED
    BY <2>1, <2>2, <2>3, <2>4 DEF BenchInv
<1>10. ASSUME NEW n \in 1 .. MaxThreads, WorkerNotifies(n) \/ WorkerWaits(n) \/ WorkerWorks(n) PROVE BenchInv'
  <2>1. PICK at \in {"check", "work", "sleep", "done"} :
          /\ bworker' = [bworker EXCEPT ![n] = at] /\ (at = "work" => worker_start_flag)
          /\ bworker[n] # "new"
    BY <1>10 DEF WorkerNotifies, WorkerWaits, WorkerWorks
  <2>2. /\ todo_jobs' = todo_jobs /\ job' = job /\ result_sample' = result_sample
        /\ worker_ready_countdown' = worker_ready_countdown /\ worker_start_flag' = worker_start_flag
        /\ benchPc' = benchPc \/ (benchPc = "sleep" /\ benchPc' = "check")
    <3>1. CASE WorkerNotifies(n)
      BY <3>1 DEF WorkerNotifies
    <3>2. CASE WorkerWaits(n)
      BY <3>2 DEF WorkerWaits
    <3>3. CASE WorkerWorks(n)
      BY <3>3 DEF WorkerWorks
    <3> QED
      BY <1>10, <3>1, <3>2, <3>3
  <2>3. NewWorkers' = NewWorkers
    BY <2>1 DEF NewWorkers, BenchInv
  <2>4. bworker' \in [1 .. MaxThreads -> {"none", "new", "notify", "check", "sleep", "work", "done"}]
        /\ ((\E m \in 1 .. MaxThreads : bworker'[m] = "work") => worker_start_flag)
    BY <2>1 DEF BenchInv
  <2> QED
    BY <2>2, <2>3, <2>4 DEF BenchInv
<1> QED
  BY <1>2, <1>3, <1>4, <1>5, <1>6, <1>7, <1>8, <1>9, <1>10 DEF BenchNext, run_test_4buf, BenchWorker

BenchSpec == BenchInit /\ [][BenchNext]_benchVars

\* The benchmark never leaves its invariant.
LEMMA BenchInvariant == BenchSpec => []BenchInv
<1>1. ASSUME BenchInit PROVE BenchInv
  <2>1. NewWorkers = {}
    BY <1>1 DEF BenchInit, NewWorkers
  <2>2. Cardinality(NewWorkers) = 0
    BY <2>1, FS_EmptySet
  <2>3. bworker \in [1 .. MaxThreads -> {"none", "new", "notify", "check", "sleep", "work", "done"}]
        /\ ~\E n \in 1 .. MaxThreads : bworker[n] = "work"
    BY <1>1 DEF BenchInit
  <2>4. benchPc = "options" /\ todo_jobs \subseteq Jobs /\ worker_start_flag = FALSE
        /\ worker_ready_countdown = 0 /\ result_sample = 0
    BY <1>1 DEF BenchInit
  <2>5. job \in Jobs
    BY <1>1 DEF BenchInit
  <2>6. 0 \in 0 .. BenchSamples
    BY BenchConstants
  <2> QED
    BY <2>1, <2>2, <2>3, <2>4, <2>5, <2>6 DEF BenchInv
<1> QED
  BY <1>1, BenchStep, PTL DEF BenchSpec

\* The samples of the benchmark measure all the threads at once, for any number of threads:
\* none works while another is still getting ready, however the two condition variables
\* and their notifications interleave; and the function that is measured stays in its
\* buffers (run_test_4buf, cryptotest_mesure_one in netmodel.cpp).
THEOREM BenchmarkSound == BenchSpec => [](StartTogether /\ BenchInBounds /\ BenchTypeOK)
<1>1. ASSUME BenchInv PROVE StartTogether /\ BenchInBounds /\ BenchTypeOK
  <2>1. StartTogether
    BY <1>1, NewWorkersFinite DEF BenchInv, StartTogether, NewWorkers
  <2>2. BenchInBounds
    <3>1. job.size \in Nat
      BY <1>1, BenchConstants DEF BenchInv, Jobs
    <3> DEFINE z == job.size
    <3>2. SUFFICES ASSUME z >= 4
                   PROVE  /\ Touched(job).msg <= Buffers(job).msg
                          /\ Touched(job).two <= Buffers(job).two
                          /\ hash_state <= Buffers(job).two
      BY DEF BenchInBounds
    <3>3. z \in Nat
      BY <3>1
    <3>4. Touched(job).msg = z /\ Buffers(job).msg \in {z, z + 16}
      BY DEF Touched, Buffers, MacBytes
    <3>5. Buffers(job).two \in {16, z + 16, z}
      BY DEF Buffers, MacBytes, OneTimeAuthBytes
    <3>6. Touched(job).two <= Buffers(job).two
      BY <3>3 DEF Touched, Buffers, MacBytes, OneTimeAuthBytes, OpenBox, MakeBox, AuthPoly, VeriPoly, VeriAuth
    <3> HIDE DEF z
    <3> QED
      BY <3>2, <3>3, <3>4, <3>5, <3>6 DEF hash_state
  <2>3. BenchTypeOK
    BY <1>1, NewWorkersFinite DEF BenchInv, BenchTypeOK
  <2> QED
    BY <2>1, <2>2, <2>3
<1> QED
  BY <1>1, BenchInvariant, PTL

-----------------------------------------------------------------------------
\* The measuring tools.

ToolSpec == ToolInit /\ [][SendNext \/ RecvNext]_toolVars

\* The sender with a count is never past it, and stops at it.
SendInv ==
  /\ tool \in {"start", "usage", "undefined", "sending", "look", "sent", "limit",
               "accept", "command", "expired"}
  /\ arg \in [argc : 2 .. 8, remote : BOOLEAN, count : -1 .. MaxCount, limit : BOOLEAN]
  /\ packets_sent \in 0 .. MaxCount + Burst
  /\ arg.count # -1 => packets_sent <= arg.count
  /\ tool = "sent" => packets_sent = arg.count

\* What a burst sends: a whole one, or what is left of the count.
LEMMA BurstFits ==
  ASSUME NEW left \in Nat \ {0}
  PROVE  Min({Burst, left}) \in Nat \ {0} /\ Min({Burst, left}) <= left
<1>1. Burst \in Nat \ {0}
  BY ToolConstants
<1>2. \E x \in {Burst, left} : \A y \in {Burst, left} : x =< y
  BY <1>1
<1>3. Min({Burst, left}) \in {Burst, left} /\ \A y \in {Burst, left} : Min({Burst, left}) =< y
  BY <1>2 DEF Min
<1> QED
  BY <1>1, <1>3

\* A burst does not run over the count.
LEMMA SendStep == SendInv /\ [SendNext \/ RecvNext]_toolVars => SendInv'
<1> SUFFICES ASSUME SendInv, [SendNext \/ RecvNext]_toolVars PROVE SendInv'
  OBVIOUS
<1>0. MaxCount \in Nat /\ Burst \in Nat \ {0}
  BY ToolConstants
<1>00. arg.count \in -1 .. MaxCount /\ packets_sent \in Nat
  BY <1>0 DEF SendInv
<1>1. ASSUME UNCHANGED sendVars PROVE SendInv'
  BY <1>1 DEF SendInv, sendVars
<1>2. ASSUME RecvNext PROVE UNCHANGED sendVars
  <2>1. CASE run_tests
    BY <2>1 DEF run_tests
  <2>2. ASSUME NEW r \in Receiver, handler(r) \/ add(r) PROVE UNCHANGED sendVars
    BY <2>2 DEF handler, add
  <2>3. ASSUME NEW speed, server(speed) PROVE UNCHANGED sendVars
    BY <2>3 DEF server
  <2>4. ASSUME NEW speed_now, NEW short, step(speed_now, short) PROVE UNCHANGED sendVars
    BY <2>4 DEF step
  <2> QED
    BY <1>2, <2>1, <2>2, <2>3, <2>4 DEF RecvNext
<1>3. ASSUME run \/ run_remote \/ (\E late, authorized \in BOOLEAN : start_listen(late, authorized))
             \/ (\E late \in BOOLEAN : SessionEnds(late))
             \/ (\E print, reached \in BOOLEAN : LookAtClock(print, reached))
      PROVE SendInv'
  <2>1. arg' = arg /\ packets_sent' = packets_sent
    BY <1>3 DEF run, run_remote, start_listen, SessionEnds, LookAtClock
  <2>2. tool' \in {"usage", "undefined", "sending", "limit", "accept", "command", "expired"}
    BY <1>3 DEF run, run_remote, start_listen, SessionEnds, LookAtClock
  <2> QED
    BY <2>1, <2>2 DEF SendInv
<1>4. ASSUME SendBurst PROVE SendInv'
  <2>1. arg' = arg /\ tool' = "look" /\ ~func_done
    BY <1>4 DEF SendBurst
  <2> DEFINE n == IF arg.count = -1 THEN Burst ELSE Min({Burst, arg.count - packets_sent})
  <2>2. packets_sent' = packets_sent + n /\ packets_sent + n <= MaxCount + Burst
    BY <1>4 DEF SendBurst
  <2>3. n \in Nat /\ (arg.count # -1 => packets_sent + n <= arg.count)
    <3>1. CASE arg.count = -1
      BY <1>0, <3>1
    <3>2. CASE arg.count # -1
      <4>1. arg.count - packets_sent \in Nat \ {0}
        BY <1>0, <1>00, <2>1, <3>2 DEF func_done
      <4>2. n \in Nat \ {0} /\ n <= arg.count - packets_sent
        BY <3>2, <4>1, BurstFits
      <4> HIDE DEF n
      <4> QED
        BY <1>0, <1>00, <4>2
    <3> QED
      BY <3>1, <3>2
  <2> HIDE DEF n
  <2>4. packets_sent' \in 0 .. MaxCount + Burst
    BY <1>0, <1>00, <2>2, <2>3
  <2> QED
    BY <2>1, <2>2, <2>3, <2>4 DEF SendInv
<1>5. ASSUME SendEnds PROVE SendInv'
  <2>1. CASE arg.remote
    BY <1>5, <2>1 DEF SendEnds, SendInv
  <2>2. CASE ~arg.remote /\ arg.argc < 6
    <3>1. PICK c \in 0 .. MaxCount : arg' = [arg EXCEPT !.count = c]
      BY <1>5, <2>2 DEF SendEnds
    <3>2. packets_sent' = 0 /\ tool' = tool /\ tool # "sent"
      BY <1>5, <2>2 DEF SendEnds
    <3>3. arg' \in [argc : 2 .. 8, remote : BOOLEAN, count : -1 .. MaxCount, limit : BOOLEAN]
          /\ arg'.count = c
      BY <1>0, <3>1 DEF SendInv
    <3>4. packets_sent' \in 0 .. MaxCount + Burst /\ packets_sent' <= c
      BY <1>0, <3>2
    <3> QED
      BY <3>2, <3>3, <3>4 DEF SendInv
  <2>3. CASE ~arg.remote /\ ~(arg.argc < 6)
    <3>1. func_done /\ tool' = "sent" /\ arg' = arg /\ packets_sent' = packets_sent
      BY <1>5, <2>3 DEF SendEnds
    <3>2. packets_sent = arg.count
      BY <1>0, <1>00, <3>1 DEF SendInv, func_done
    <3> QED
      BY <3>1, <3>2 DEF SendInv
  <2> QED
    BY <2>1, <2>2, <2>3
<1>6. ASSUME NEW text, run_rpc_command_string(text) PROVE SendInv'
  <2>1. arg' = arg /\ tool' \in {"sending", tool}
        /\ (packets_sent' = 0 \/ (packets_sent' = packets_sent /\ tool' = tool))
    BY <1>6 DEF run_rpc_command_string
  <2>2. tool # "sent"
    BY <1>6 DEF run_rpc_command_string
  <2>3. packets_sent' \in 0 .. MaxCount + Burst /\ (arg.count # -1 => packets_sent' <= arg.count)
    BY <1>0, <1>00, <2>1 DEF SendInv
  <2> QED
    BY <2>1, <2>2, <2>3 DEF SendInv
<1>7. CASE UNCHANGED toolVars
  BY <1>1, <1>7 DEF toolVars
<1>8. CASE SendNext
  BY <1>3, <1>4, <1>5, <1>6, <1>8 DEF SendNext
<1>9. CASE RecvNext
  BY <1>1, <1>2, <1>9
<1> QED
  BY <1>7, <1>8, <1>9

\* sum[T] is what f counts for the threads in T: the fold that adds the counts of the
\* receivers, as a function of the set of receivers.
IsSum(sum, f) ==
  /\ sum \in [SUBSET Receiver -> Nat]
  /\ sum[{}] = 0
  /\ \A T \in SUBSET Receiver, r \in Receiver : r \notin T => sum[T \union {r}] = sum[T] + f[r]

\* Every datagram is in the count of a thread or in the timer.
CountInv ==
  /\ armed \subseteq Receiver
  /\ timeradd \in [Receiver -> 0 .. UpdateAfter]
  /\ m_total_bytes \in Nat /\ received \in 0 .. MaxReceived
  /\ \E sum \in [SUBSET Receiver -> Nat] :
       IsSum(sum, timeradd) /\ sum[Receiver] + m_total_bytes = received

\* The sums after the count of r has become v.
SumAfter(f, sum, r, v) ==
  \E more \in [SUBSET Receiver -> Nat] :
    IsSum(more, [f EXCEPT ![r] = v]) /\ more[Receiver] = sum[Receiver] - f[r] + v

\* One count changes, and the sums of the sets with that thread.
LEMMA SumChanges ==
  \A f \in [Receiver -> Nat], sum \in [SUBSET Receiver -> Nat], r \in Receiver, v \in Nat :
    IsSum(sum, f) => SumAfter(f, sum, r, v)
<1> SUFFICES ASSUME NEW f \in [Receiver -> Nat], NEW sum \in [SUBSET Receiver -> Nat],
                    NEW r \in Receiver, NEW v \in Nat, IsSum(sum, f)
             PROVE  \E more \in [SUBSET Receiver -> Nat] :
                      IsSum(more, [f EXCEPT ![r] = v]) /\ more[Receiver] = sum[Receiver] - f[r] + v
  BY DEF SumAfter
<1> DEFINE g == [f EXCEPT ![r] = v]
           more == [T \in SUBSET Receiver |-> IF r \in T THEN sum[T] - f[r] + v ELSE sum[T]]
<1>1. sum \in [SUBSET Receiver -> Nat] /\ sum[{}] = 0 /\ f[r] \in Nat
  BY DEF IsSum
<1>2. \A T \in SUBSET Receiver, q \in Receiver : q \notin T => sum[T \union {q}] = sum[T] + f[q]
  BY DEF IsSum
<1>3. ASSUME NEW T \in SUBSET Receiver, r \in T PROVE sum[T] = sum[T \ {r}] + f[r] /\ sum[T \ {r}] \in Nat
  <2>1. T \ {r} \in SUBSET Receiver /\ (T \ {r}) \union {r} = T /\ r \notin T \ {r}
    BY <1>3
  <2> QED
    BY <1>1, <1>2, <2>1
<1>4. ASSUME NEW T \in SUBSET Receiver PROVE more[T] \in Nat
  <2>1. CASE r \in T
    <3>1. more[T] = sum[T] - f[r] + v
      BY <2>1
    <3>2. sum[T] = sum[T \ {r}] + f[r] /\ sum[T \ {r}] \in Nat
      BY <1>3, <2>1
    <3> DEFINE a == sum[T]
               b == sum[T \ {r}]
    <3>3. more[T] = a - f[r] + v /\ a = b + f[r] /\ b \in Nat /\ f[r] \in Nat
      BY <1>1, <3>1, <3>2
    <3> HIDE DEF more, a, b
    <3> QED
      BY <3>3
  <2>2. CASE r \notin T
    BY <1>1, <2>2
  <2> QED
    BY <2>1, <2>2
<1>5. more \in [SUBSET Receiver -> Nat]
  BY <1>4
<1>6. more[{}] = 0
  BY <1>1
<1>7. ASSUME NEW T \in SUBSET Receiver, NEW q \in Receiver, q \notin T
      PROVE  more[T \union {q}] = more[T] + g[q]
  <2>1. T \union {q} \in SUBSET Receiver
    OBVIOUS
  <2>2. sum[T \union {q}] = sum[T] + f[q] /\ sum[T] \in Nat /\ f[q] \in Nat
    BY <1>1, <1>2, <1>7
  <2>3. CASE q = r
    <3>1. more[T \union {q}] = sum[T \union {q}] - f[r] + v /\ more[T] = sum[T] /\ g[q] = v
      BY <1>7, <2>1, <2>3
    <3> HIDE DEF more, g
    <3> QED
      BY <1>1, <2>2, <2>3, <3>1
  <2>4. CASE q # r /\ r \in T
    <3>1. more[T \union {q}] = sum[T \union {q}] - f[r] + v /\ more[T] = sum[T] - f[r] + v /\ g[q] = f[q]
      BY <1>7, <2>1, <2>4
    <3> HIDE DEF more, g
    <3> QED
      BY <1>1, <2>2, <2>4, <3>1
  <2>5. CASE q # r /\ r \notin T
    <3>1. more[T \union {q}] = sum[T \union {q}] /\ more[T] = sum[T] /\ g[q] = f[q]
      BY <1>7, <2>1, <2>5
    <3> HIDE DEF more, g
    <3> QED
      BY <2>2, <3>1
  <2> QED
    BY <2>3, <2>4, <2>5
<1>8. more[Receiver] = sum[Receiver] - f[r] + v
  OBVIOUS
<1>9. IsSum(more, g)
  <2> HIDE DEF more, g
  <2> QED
    BY <1>5, <1>6, <1>7 DEF IsSum
<1> QED
  BY <1>5, <1>8, <1>9

\* The recursion that defines the fold has one solution on the receivers: the sum.
LEMMA SumIsFold ==
  ASSUME NEW f \in [Receiver -> Nat], NEW sum, IsSum(sum, f)
  PROVE  MapThenSumSet(LAMBDA r : f[r], Receiver) = sum[Receiver]
<1> DEFINE pick(s) == CHOOSE x \in s : TRUE
           Rec(h) == h = [s \in SUBSET Receiver |-> IF s = {} THEN 0 ELSE f[pick(s)] + h[s \ {pick(s)}]]
<1>1. sum \in [SUBSET Receiver -> Nat] /\ sum[{}] = 0
  BY DEF IsSum
<1>2. \A T \in SUBSET Receiver, q \in Receiver : q \notin T => sum[T \union {q}] = sum[T] + f[q]
  BY DEF IsSum
<1>3. ASSUME NEW T \in SUBSET Receiver, T # {}
      PROVE  /\ pick(T) \in T /\ T \ {pick(T)} \in SUBSET Receiver
             /\ sum[T] = f[pick(T)] + sum[T \ {pick(T)}]
  <2>1. pick(T) \in T
    BY <1>3
  <2> HIDE DEF pick
  <2>2. T \ {pick(T)} \in SUBSET Receiver /\ pick(T) \notin T \ {pick(T)}
        /\ (T \ {pick(T)}) \union {pick(T)} = T /\ pick(T) \in Receiver
    BY <2>1
  <2>3. sum[T] = sum[T \ {pick(T)}] + f[pick(T)]
    BY <1>2, <2>2
  <2>4. sum[T \ {pick(T)}] \in Nat /\ f[pick(T)] \in Nat
    BY <1>1, <2>2
  <2> QED
    BY <2>1, <2>2, <2>3, <2>4
<1> DEFINE h0 == CHOOSE h : Rec(h)
<1>4. Rec(sum)
  <2> HIDE DEF pick
  <2> DEFINE k == [s \in SUBSET Receiver |-> IF s = {} THEN 0 ELSE f[pick(s)] + sum[s \ {pick(s)}]]
  <2>1. ASSUME NEW T \in SUBSET Receiver PROVE sum[T] = k[T]
    BY <1>1, <1>3
  <2>2. sum = [T \in SUBSET Receiver |-> sum[T]] /\ k = [T \in SUBSET Receiver |-> k[T]]
    BY <1>1
  <2>3. sum = k
    <3> HIDE DEF k
    <3> QED
      BY <2>1, <2>2
  <2> QED
    BY <2>3
<1>5. Rec(h0)
  <2> HIDE DEF Rec
  <2> QED
    BY <1>4
<1>6. ASSUME NEW T \in SUBSET Receiver PROVE h0[T] = IF T = {} THEN 0 ELSE f[pick(T)] + h0[T \ {pick(T)}]
  <2> HIDE DEF h0, pick
  <2> QED
    BY <1>5
<1>7. h0[Receiver] = sum[Receiver]
  <2> HIDE DEF h0, pick, Rec
  <2> DEFINE Bad == { Cardinality(T) : T \in { S \in SUBSET Receiver : h0[S] # sum[S] } }
  <2>1. SUFFICES Bad = {}
    OBVIOUS
  <2>2. \A T \in SUBSET Receiver : IsFiniteSet(T) /\ Cardinality(T) \in Nat
    BY ToolConstants, FS_Subset, FS_CardinalityType
  <2>3. Bad \subseteq Nat
    BY <2>2
  <2>4. SUFFICES ASSUME Bad # {} PROVE FALSE
    OBVIOUS
  <2>5. PICK n \in Bad : \A m \in Bad : n <= m
    <3> HIDE DEF Bad
    <3> QED
      BY <2>3, <2>4, LeastElement
  <2>6. PICK T \in SUBSET Receiver : h0[T] # sum[T] /\ n = Cardinality(T)
    BY <2>5
  <2>7. T # {}
    BY <1>1, <1>6, <2>6
  <2> DEFINE U == T \ {pick(T)}
  <2>8. pick(T) \in T /\ U \in SUBSET Receiver
    BY <1>3, <2>7
  <2>9. Cardinality(U) = Cardinality(T) - 1
    BY <2>2, <2>8, FS_RemoveElement
  <2>10. h0[U] = sum[U]
    <3>1. CASE h0[U] # sum[U]
      <4>1. Cardinality(U) \in Bad
        BY <2>8, <3>1
      <4>2. n <= Cardinality(U) /\ Cardinality(U) \in Nat /\ Cardinality(T) \in Nat
        BY <2>2, <2>5, <2>8, <4>1
      <4> HIDE DEF Bad, U
      <4> QED
        BY <2>6, <2>9, <4>2
    <3> QED
      BY <3>1
  <2> QED
    BY <1>3, <1>6, <2>6, <2>7, <2>8, <2>10
<1>8. MapThenSumSet(LAMBDA r : f[r], Receiver) = h0[Receiver]
  BY DEF MapThenSumSet, MapThenFoldSet
<1> QED
  BY <1>7, <1>8

\* What a thread counts reaches the timer, or stays with the thread.
LEMMA CountStep == CountInv /\ [SendNext \/ RecvNext]_toolVars => CountInv'
<1> SUFFICES ASSUME CountInv, [SendNext \/ RecvNext]_toolVars PROVE CountInv'
  OBVIOUS
<1>0. UpdateAfter \in Nat /\ MaxReceived \in Nat
  BY ToolConstants
<1>1. ASSUME UNCHANGED recvVars PROVE CountInv'
  BY <1>1 DEF CountInv, recvVars
<1>2. ASSUME SendNext PROVE UNCHANGED recvVars
  BY <1>2 DEF SendNext, run, SendBurst, SendEnds, run_remote, LookAtClock, start_listen,
              run_rpc_command_string, SessionEnds
<1>3. PICK sum \in [SUBSET Receiver -> Nat] :
        IsSum(sum, timeradd) /\ sum[Receiver] + m_total_bytes = received
  BY DEF CountInv
<1>4. sum[Receiver] \in Nat /\ m_total_bytes \in Nat /\ received \in 0 .. MaxReceived
      /\ timeradd \in [Receiver -> 0 .. UpdateAfter] /\ timeradd \in [Receiver -> Nat]
      /\ armed \subseteq Receiver
  BY <1>0, <1>3 DEF CountInv
<1>5. ASSUME UNCHANGED <<timeradd, m_total_bytes, received>>, armed' \subseteq Receiver PROVE CountInv'
  BY <1>5 DEF CountInv
<1>6. CASE run_tests
  BY <1>5, <1>6 DEF run_tests
<1>7. ASSUME NEW speed, server(speed) PROVE CountInv'
  BY <1>4, <1>5, <1>7 DEF server
<1>8. ASSUME NEW speed_now, NEW short, step(speed_now, short) PROVE CountInv'
  BY <1>4, <1>5, <1>8 DEF step
<1>9. ASSUME NEW r \in Receiver, handler(r) PROVE CountInv'
  <2>1. timeradd' = timeradd /\ m_total_bytes' = m_total_bytes + 1 /\ received' = received + 1
        /\ received < MaxReceived /\ armed' = armed
    BY <1>9 DEF handler, timer_add
  <2>2. m_total_bytes' \in Nat /\ received' \in 0 .. MaxReceived
        /\ sum[Receiver] + m_total_bytes' = received'
    BY <1>0, <1>3, <1>4, <2>1
  <2>3. IsSum(sum, timeradd')
    BY <1>3, <2>1
  <2> QED
    BY <1>3, <1>4, <2>1, <2>2, <2>3 DEF CountInv
<1>10. ASSUME NEW r \in Receiver, add(r) PROVE CountInv'
  <2> DEFINE mine == timeradd[r] + 1
             v == IF mine > UpdateAfter THEN 0 ELSE mine
             handed == IF mine > UpdateAfter THEN mine ELSE 0
  <2>1. timeradd' = [timeradd EXCEPT ![r] = v] /\ m_total_bytes' = m_total_bytes + handed
        /\ received' = received + 1 /\ received < MaxReceived /\ armed' = armed
    BY <1>4, <1>10 DEF add, timer_add
  <2>2. timeradd[r] \in 0 .. UpdateAfter
    BY <1>4
  <2>3. v \in 0 .. UpdateAfter /\ v \in Nat /\ handed \in Nat /\ v + handed = timeradd[r] + 1
    BY <1>0, <2>2
  <2> HIDE DEF mine, v, handed
  <2>4. PICK more \in [SUBSET Receiver -> Nat] :
          IsSum(more, [timeradd EXCEPT ![r] = v]) /\ more[Receiver] = sum[Receiver] - timeradd[r] + v
    <3>1. IsSum(sum, timeradd) /\ timeradd \in [Receiver -> Nat] /\ v \in Nat
      BY <1>3, <1>4, <2>3
    <3>2. SumAfter(timeradd, sum, r, v)
      BY <3>1, SumChanges
    <3> QED
      BY <3>2 DEF SumAfter
  <2>5. more[Receiver] + m_total_bytes' = received'
    BY <1>0, <1>3, <1>4, <2>1, <2>2, <2>3, <2>4
  <2>6. m_total_bytes' \in Nat /\ received' \in 0 .. MaxReceived
    BY <1>0, <1>4, <2>1, <2>3
  <2>7. timeradd' \in [Receiver -> 0 .. UpdateAfter]
    BY <1>4, <2>1, <2>3
  <2>8. IsSum(more, timeradd')
    BY <2>1, <2>4
  <2> QED
    BY <1>4, <2>1, <2>4, <2>5, <2>6, <2>7, <2>8 DEF CountInv
<1>11. CASE UNCHANGED toolVars
  BY <1>1, <1>11 DEF toolVars
<1>12. CASE SendNext
  BY <1>1, <1>2, <1>12
<1>13. CASE RecvNext
  BY <1>6, <1>7, <1>8, <1>9, <1>10, <1>13 DEF RecvNext
<1> QED
  BY <1>11, <1>12, <1>13

\* The tables of the timer and of the blocking receiver.
TableInv ==
  /\ m_step_nr \in 0 .. StepsTillReset - 1
  /\ m_speed_tab \in Seq(0 .. MaxSpeed)
  /\ block \in [count_interval : 0 .. 1, speed_tab : Seq(0 .. MaxSpeed), all_done : BOOLEAN]

\* A step of the timer adds a speed or clears the table.
LEMMA TableStep == TableInv /\ [SendNext \/ RecvNext]_toolVars => TableInv'
<1> SUFFICES ASSUME TableInv, [SendNext \/ RecvNext]_toolVars PROVE TableInv'
  OBVIOUS
<1>0. StepsTillReset \in Nat \ {0} /\ MaxSpeed \in Nat
  BY ToolConstants
<1>1. ASSUME UNCHANGED <<m_step_nr, m_speed_tab, block>> PROVE TableInv'
  BY <1>1 DEF TableInv
<1>2. ASSUME SendNext PROVE UNCHANGED recvVars
  BY <1>2 DEF SendNext, run, SendBurst, SendEnds, run_remote, LookAtClock, start_listen,
              run_rpc_command_string, SessionEnds
<1>3. ASSUME NEW tab \in Seq(0 .. MaxSpeed), NEW speed \in 0 .. MaxSpeed
      PROVE  Append(tab, speed) \in Seq(0 .. MaxSpeed)
  BY <1>3
<1>4. CASE run_tests
  BY <1>1, <1>4 DEF run_tests
<1>5. ASSUME NEW r \in Receiver, handler(r) \/ add(r) PROVE TableInv'
  BY <1>1, <1>5 DEF handler, add
<1>6. ASSUME NEW speed \in 0 .. MaxSpeed, server(speed) PROVE TableInv'
  <2>1. m_step_nr' = m_step_nr /\ m_speed_tab' = m_speed_tab
    BY <1>6 DEF server
  <2>2. block' \in [count_interval : 0 .. 1, speed_tab : Seq(0 .. MaxSpeed), all_done : BOOLEAN]
    <3>1. CASE block.count_interval = 0
      BY <1>6, <3>1 DEF server, TableInv
    <3>2. CASE block.count_interval # 0
      <4>1. block' = [count_interval |-> 0, speed_tab |-> Append(block.speed_tab, speed),
                      all_done |-> Len(block.speed_tab) + 1 = FullTests]
        BY <1>6, <3>2 DEF server
      <4>2. block.speed_tab \in Seq(0 .. MaxSpeed)
        BY DEF TableInv
      <4>3. Append(block.speed_tab, speed) \in Seq(0 .. MaxSpeed)
        BY <1>3, <4>2
      <4>4. (Len(block.speed_tab) + 1 = FullTests) \in BOOLEAN
        OBVIOUS
      <4> QED
        BY <4>1, <4>3, <4>4
    <3> QED
      BY <3>1, <3>2
  <2> QED
    BY <2>1, <2>2 DEF TableInv
<1>7. ASSUME NEW speed_now \in 0 .. MaxSpeed, NEW short, step(speed_now, short) PROVE TableInv'
  <2>1. block' = block
    BY <1>7 DEF step
  <2>2. m_step_nr' \in 0 .. StepsTillReset - 1
    BY <1>0, <1>7 DEF step, reset, TableInv
  <2>3. m_speed_tab' \in {<<>>, m_speed_tab, Append(m_speed_tab, speed_now)}
    BY <1>7 DEF step, reset
  <2>4. m_speed_tab' \in Seq(0 .. MaxSpeed)
    <3>1. m_speed_tab \in Seq(0 .. MaxSpeed)
      BY DEF TableInv
    <3>2. Append(m_speed_tab, speed_now) \in Seq(0 .. MaxSpeed)
      BY <1>3, <3>1
    <3>3. <<>> \in Seq(0 .. MaxSpeed)
      OBVIOUS
    <3> QED
      BY <2>3, <3>1, <3>2, <3>3
  <2> QED
    BY <2>1, <2>2, <2>4 DEF TableInv
<1>8. CASE UNCHANGED toolVars
  BY <1>1, <1>8 DEF toolVars, recvVars
<1>9. CASE SendNext
  BY <1>1, <1>2, <1>9 DEF recvVars
<1>10. CASE RecvNext
  BY <1>4, <1>5, <1>6, <1>7, <1>10 DEF RecvNext
<1> QED
  BY <1>8, <1>9, <1>10

ToolInv == SendInv /\ CountInv /\ TableInv

\* The tools never leave their invariant.
LEMMA ToolInvariant == ToolSpec => []ToolInv
<1>1. ASSUME ToolInit PROVE ToolInv
  <2>1. MaxCount \in Nat /\ Burst \in Nat \ {0} /\ UpdateAfter \in Nat /\ MaxReceived \in Nat
        /\ StepsTillReset \in Nat \ {0}
    BY ToolConstants
  <2>2. arg \in [argc : 2 .. 8, remote : BOOLEAN, count : -1 .. MaxCount, limit : BOOLEAN]
        /\ packets_sent = 0 /\ tool = "start"
    BY <1>1 DEF ToolInit
  <2>3. arg.count \in -1 .. MaxCount
    BY <2>2
  <2>4. 0 \in 0 .. MaxCount + Burst /\ (arg.count # -1 => 0 <= arg.count)
    BY <2>1, <2>3
  <2>5. SendInv
    BY <2>2, <2>4 DEF SendInv
  <2>6. CountInv
    <3> DEFINE sum == [T \in SUBSET Receiver |-> 0]
    <3>1. sum \in [SUBSET Receiver -> Nat] /\ sum[{}] = 0 /\ sum[Receiver] = 0
      OBVIOUS
    <3>2. timeradd = [r \in Receiver |-> 0] /\ m_total_bytes = 0 /\ received = 0 /\ armed = {}
      BY <1>1 DEF ToolInit
    <3>3. ASSUME NEW T \in SUBSET Receiver, NEW r \in Receiver PROVE sum[T \union {r}] = sum[T] + timeradd[r]
      BY <3>2
    <3> HIDE DEF sum
    <3>4. IsSum(sum, timeradd)
      BY <3>1, <3>3 DEF IsSum
    <3>5. sum[Receiver] + m_total_bytes = received
      BY <3>1, <3>2
    <3>6. timeradd \in [Receiver -> 0 .. UpdateAfter] /\ received \in 0 .. MaxReceived /\ m_total_bytes \in Nat
      BY <2>1, <3>2
    <3> QED
      BY <3>1, <3>2, <3>4, <3>5, <3>6 DEF CountInv
  <2>7. TableInv
    <3>1. m_step_nr = 0 /\ m_speed_tab = <<>>
          /\ block = [count_interval |-> 0, speed_tab |-> <<>>, all_done |-> FALSE]
      BY <1>1 DEF ToolInit
    <3> QED
      BY <2>1, <3>1 DEF TableInv
  <2> QED
    BY <2>5, <2>6, <2>7 DEF ToolInv
<1>2. ToolInv /\ [SendNext \/ RecvNext]_toolVars => ToolInv'
  BY SendStep, CountStep, TableStep DEF ToolInv
<1> QED
  BY <1>1, <1>2, PTL DEF ToolSpec

\* p lists the indices D in the order of the values that tab has there.
InOrder(p, tab, D) ==
  LET n == Cardinality(D)
  IN  /\ p \in [1 .. n -> D]
      /\ \A a, b \in 1 .. n : p[a] = p[b] => a = b
      /\ \A k \in D : \E i \in 1 .. n : p[i] = k
      /\ \A i, j \in 1 .. n : i < j => tab[p[i]] <= tab[p[j]]

\* The index of a greatest value goes last.
LEMMA OrderGrows ==
  ASSUME NEW D, IsFiniteSet(D), NEW k \in D, NEW tab \in [D -> Nat], \A i \in D : tab[i] <= tab[k],
         NEW q, InOrder(q, tab, D \ {k})
  PROVE  \E p : InOrder(p, tab, D)
<1> DEFINE n == Cardinality(D)
           p == [i \in 1 .. n |-> IF i = n THEN k ELSE q[i]]
<1>1. n \in Nat /\ Cardinality(D \ {k}) = n - 1 /\ n - 1 \in Nat
  <2>1. n \in Nat
    BY FS_CardinalityType
  <2>2. Cardinality(D \ {k}) = n - 1 /\ IsFiniteSet(D \ {k})
    BY FS_RemoveElement
  <2>3. Cardinality(D \ {k}) \in Nat
    BY <2>2, FS_CardinalityType
  <2> QED
    BY <2>1, <2>2, <2>3
<1> HIDE DEF n
<1>2. /\ q \in [1 .. n - 1 -> D \ {k}]
      /\ \A a, b \in 1 .. n - 1 : q[a] = q[b] => a = b
      /\ \A x \in D \ {k} : \E i \in 1 .. n - 1 : q[i] = x
      /\ \A i, j \in 1 .. n - 1 : i < j => tab[q[i]] <= tab[q[j]]
  BY <1>1 DEF InOrder
<1>3. \A i \in 1 .. n : i = n \/ i \in 1 .. n - 1
  BY <1>1
<1>4. n \in 1 .. n /\ (\A i \in 1 .. n - 1 : i \in 1 .. n /\ i # n)
  BY <1>1
<1>5. p[n] = k /\ \A i \in 1 .. n - 1 : p[i] = q[i] /\ q[i] \in D \ {k}
  BY <1>2, <1>4
<1>6. p \in [1 .. n -> D]
  BY <1>2, <1>3
<1> HIDE DEF p
<1>7. \A a, b \in 1 .. n : p[a] = p[b] => a = b
  BY <1>2, <1>3, <1>5
<1>8. \A x \in D : \E i \in 1 .. n : p[i] = x
  BY <1>2, <1>4, <1>5
<1>9. ASSUME NEW i \in 1 .. n, NEW j \in 1 .. n, i < j PROVE tab[p[i]] <= tab[p[j]]
  <2>1. i \in 1 .. n - 1
    BY <1>1, <1>9
  <2>2. CASE j = n
    BY <1>5, <2>1, <2>2
  <2>3. CASE j \in 1 .. n - 1
    <3>1. p[i] = q[i] /\ p[j] = q[j]
      BY <1>5, <2>1, <2>3
    <3>2. tab[q[i]] <= tab[q[j]]
      BY <1>2, <1>9, <2>1, <2>3
    <3> QED
      BY <3>1, <3>2
  <2> QED
    BY <1>3, <2>2, <2>3
<1>10. InOrder(p, tab, D)
  BY <1>6, <1>7, <1>8, <1>9 DEF InOrder, n
<1> QED
  BY <1>10

\* Every table can be sorted: a smallest set of indices without an order would have one
\* without the index of its greatest value.
LEMMA OrderExists ==
  ASSUME NEW N \in Nat, NEW m \in Nat, NEW tab \in [1 .. N -> 0 .. m]
  PROVE  \E p : InOrder(p, tab, 1 .. N)
<1> DEFINE Bad == { D \in SUBSET (1 .. N) : ~\E p : InOrder(p, tab, D) }
           Sizes == { Cardinality(D) : D \in Bad }
<1>1. \A D \in SUBSET (1 .. N) : IsFiniteSet(D) /\ Cardinality(D) \in Nat
  <2>1. 1 \in Int /\ N \in Int
    OBVIOUS
  <2>2. IsFiniteSet(1 .. N)
    BY <2>1, FS_Interval
  <2> QED
    BY <2>2, FS_Subset, FS_CardinalityType
<1>2. SUFFICES ASSUME Bad # {} PROVE FALSE
  OBVIOUS
<1>3. Sizes \subseteq Nat /\ Sizes # {}
  BY <1>1, <1>2
<1>4. PICK n \in Sizes : \A x \in Sizes : n <= x
  <2> HIDE DEF Sizes
  <2> QED
    BY <1>3, LeastElement
<1>5. PICK D \in Bad : n = Cardinality(D)
  BY <1>4
<1>6. D \in SUBSET (1 .. N) /\ ~\E p : InOrder(p, tab, D)
  BY <1>5
<1>7. \A E \in SUBSET (1 .. N) : Cardinality(E) < n => \E p : InOrder(p, tab, E)
  <2> SUFFICES ASSUME NEW E \in SUBSET (1 .. N), Cardinality(E) < n, E \in Bad PROVE FALSE
    OBVIOUS
  <2>1. Cardinality(E) \in Sizes
    OBVIOUS
  <2>2. n <= Cardinality(E) /\ Cardinality(E) \in Nat /\ n \in Nat
    BY <1>1, <1>3, <1>4, <2>1
  <2> HIDE DEF Bad, Sizes
  <2> QED
    BY <2>2
<1> HIDE DEF Bad, Sizes
<1>8. D # {}
  <2>1. ASSUME D = {} PROVE FALSE
    <3>1. Cardinality(D) = 0 /\ 1 .. 0 = {}
      BY <2>1, FS_EmptySet
    <3>2. [x \in {} |-> x] \in [1 .. 0 -> D]
      BY <2>1, <3>1
    <3>3. InOrder([x \in {} |-> x], tab, D)
      BY <2>1, <3>1, <3>2 DEF InOrder
    <3> QED
      BY <1>6, <3>3
  <2> QED
    BY <2>1
<1> DEFINE A == { m - tab[i] : i \in D }
<1>9. \A i \in D : tab[i] \in 0 .. m
  BY <1>6
<1>10. A \subseteq Nat /\ A # {}
  BY <1>8, <1>9
<1>11. PICK v \in A : \A x \in A : v <= x
  <2> HIDE DEF A
  <2> QED
    BY <1>10, LeastElement
<1>12. PICK k \in D : v = m - tab[k]
  BY <1>11
<1>13. \A i \in D : tab[i] <= tab[k]
  <2> SUFFICES ASSUME NEW i \in D PROVE tab[i] <= tab[k]
    OBVIOUS
  <2>1. v <= m - tab[i]
    BY <1>11
  <2>2. tab[i] \in 0 .. m /\ tab[k] \in 0 .. m
    BY <1>9
  <2> HIDE DEF A
  <2> QED
    BY <1>12, <2>1, <2>2
<1> DEFINE t == [i \in D |-> tab[i]]
           E == D \ {k}
<1>14. E \in SUBSET (1 .. N) /\ Cardinality(E) < n /\ IsFiniteSet(D)
  <2>1. IsFiniteSet(D) /\ Cardinality(E) = Cardinality(D) - 1 /\ Cardinality(D) \in Nat
    BY <1>1, <1>6, FS_RemoveElement
  <2> QED
    BY <1>5, <1>6, <2>1
<1>15. PICK q : InOrder(q, tab, E)
  BY <1>7, <1>14
<1>16. t \in [D -> Nat] /\ \A i \in D : t[i] <= t[k]
  BY <1>9, <1>13
<1>17. InOrder(q, t, E)
  <2>1. \A i \in 1 .. Cardinality(E) : q[i] \in D /\ t[q[i]] = tab[q[i]]
    BY <1>15 DEF InOrder
  <2> HIDE DEF t
  <2> QED
    BY <1>15, <2>1 DEF InOrder
<1>18. PICK p : InOrder(p, t, D)
  <2> HIDE DEF t
  <2> QED
    BY <1>14, <1>16, <1>17, OrderGrows
<1>19. InOrder(p, tab, D)
  <2>1. \A i \in 1 .. Cardinality(D) : p[i] \in D /\ t[p[i]] = tab[p[i]]
    BY <1>18 DEF InOrder
  <2> HIDE DEF t
  <2> QED
    BY <1>18, <2>1 DEF InOrder
<1> QED
  BY <1>6, <1>19

\* sorted has the values of tab, from the smallest on.
SortedFrom(sorted, tab) ==
  LET n == Len(tab)
  IN  /\ sorted \in [1 .. n -> 0 .. MaxSpeed]
      /\ \A i, j \in 1 .. n : i <= j => sorted[i] <= sorted[j]
      /\ \E p \in [1 .. n -> 1 .. n] : /\ \A k \in 1 .. n : \E i \in 1 .. n : p[i] = k
                                       /\ \A i \in 1 .. n : sorted[i] = tab[p[i]]

\* std::sort sorts.
LEMMA SortSorts == \A tab \in Seq(0 .. MaxSpeed) : SortedFrom(sort(tab), tab)
<1> SUFFICES ASSUME NEW tab \in Seq(0 .. MaxSpeed) PROVE SortedFrom(sort(tab), tab)
  OBVIOUS
<1> DEFINE n == Len(tab)
           Good(p) == \A i, j \in 1 .. n : i < j => tab[p[i]] <= tab[p[j]]
           p0 == CHOOSE p \in Bijection(1 .. n, 1 .. n) : Good(p)
<1>1. n \in Nat /\ tab \in [1 .. n -> 0 .. MaxSpeed] /\ MaxSpeed \in Nat
  BY ToolConstants
<1>2. Cardinality(1 .. n) = n
  <2>1. 1 \in Int /\ n \in Int /\ (1 > n => n = 0) /\ n - 1 + 1 = n
    BY <1>1
  <2> QED
    BY <2>1, FS_Interval
<1>3. \E p \in Bijection(1 .. n, 1 .. n) : Good(p)
  <2> HIDE DEF n
  <2>1. PICK p : InOrder(p, tab, 1 .. n)
    BY <1>1, OrderExists
  <2>2. p \in [1 .. n -> 1 .. n] /\ Good(p)
        /\ (\A a, b \in 1 .. n : p[a] = p[b] => a = b) /\ (\A k \in 1 .. n : \E i \in 1 .. n : p[i] = k)
    BY <1>2, <2>1 DEF InOrder
  <2>3. p \in Bijection(1 .. n, 1 .. n)
    BY <2>2 DEF Bijection, Injection, Surjection, IsInjective
  <2> QED
    BY <2>2, <2>3
<1>4. p0 \in Bijection(1 .. n, 1 .. n) /\ Good(p0)
  <2> HIDE DEF Good
  <2> QED
    BY <1>3
<1>5. sort(tab) = [i \in 1 .. n |-> tab[p0[i]]]
  BY DEF sort
<1> HIDE DEF p0
<1>6. p0 \in [1 .. n -> 1 .. n] /\ \A k \in 1 .. n : \E i \in 1 .. n : p0[i] = k
  BY <1>4 DEF Bijection, Surjection
<1> DEFINE sorted == sort(tab)
<1>7. \A i \in 1 .. n : sorted[i] = tab[p0[i]] /\ sorted[i] \in 0 .. MaxSpeed
  BY <1>1, <1>5, <1>6
<1>8. sorted \in [1 .. n -> 0 .. MaxSpeed]
  BY <1>1, <1>5, <1>6
<1> HIDE DEF sorted, n
<1>9. ASSUME NEW i \in 1 .. n, NEW j \in 1 .. n, i <= j PROVE sorted[i] <= sorted[j]
  <2>1. CASE i = j
    BY <1>1, <1>7, <2>1
  <2>2. CASE i < j
    BY <1>4, <1>7, <2>2
  <2> QED
    BY <1>1, <1>9, <2>1, <2>2
<1>10. SortedFrom(sorted, tab)
  BY <1>6, <1>7, <1>8, <1>9 DEF SortedFrom, n
<1> QED
  BY <1>10 DEF sorted

\* A set of indices whose places in the sorted table are among a .. b has no more members.
LEMMA PlacesBound ==
  ASSUME NEW n \in Nat, NEW p \in [1 .. n -> 1 .. n], \A k \in 1 .. n : \E i \in 1 .. n : p[i] = k,
         NEW a \in 1 .. n + 1, NEW b \in 0 .. n, a <= b + 1,
         NEW S \in SUBSET (1 .. n), \A i \in 1 .. n : p[i] \in S => i \in a .. b
  PROVE  Cardinality(S) <= b - a + 1
<1> DEFINE I == a .. b
           T == { p[i] : i \in I }
           f == [i \in I |-> p[i]]
<1>1. I \subseteq 1 .. n /\ a \in Int /\ b \in Int
  OBVIOUS
<1>2. IsFiniteSet(I) /\ Cardinality(I) = b - a + 1
  <2>1. a > b => b - a + 1 = 0
    BY <1>1
  <2> QED
    BY <1>1, <2>1, FS_Interval
<1>3. f \in Surjection(I, T)
  BY <1>1 DEF Surjection
<1>4. IsFiniteSet(T) /\ Cardinality(T) <= Cardinality(I)
  <2> HIDE DEF T, I, f
  <2> QED
    BY <1>2, <1>3, FS_Surjection
<1>5. S \in SUBSET T
  <2> SUFFICES ASSUME NEW k \in S PROVE k \in T
    OBVIOUS
  <2>1. PICK i \in 1 .. n : p[i] = k
    OBVIOUS
  <2> QED
    BY <2>1
<1>6. IsFiniteSet(S) /\ Cardinality(S) <= Cardinality(T)
  <2> HIDE DEF T
  <2> QED
    BY <1>4, <1>5, FS_Subset
<1>7. Cardinality(S) \in Nat /\ Cardinality(T) \in Nat /\ Cardinality(I) \in Nat
  BY <1>2, <1>4, <1>6, FS_CardinalityType
<1> HIDE DEF T, I
<1> QED
  BY <1>1, <1>2, <1>4, <1>6, <1>7

\* At most half of a table is on either side of its median.
MiddleOf(tab) ==
  LET m == mediana(tab)
      n == Len(tab)
  IN  /\ 2 * Cardinality({i \in 1 .. n : 2 * tab[i] < m}) <= n
      /\ 2 * Cardinality({i \in 1 .. n : 2 * tab[i] > m}) <= n

\* The code's median is one.
LEMMA MedianHalves == \A tab \in Seq(0 .. MaxSpeed) : MiddleOf(tab)
<1> SUFFICES ASSUME NEW tab \in Seq(0 .. MaxSpeed) PROVE MiddleOf(tab)
  OBVIOUS
<1>0. Len(tab) \in Nat /\ tab \in [1 .. Len(tab) -> 0 .. MaxSpeed] /\ MaxSpeed \in Nat
  BY ToolConstants
<1> DEFINE n == Len(tab)
           h == n \div 2
           sorted == sort(tab)
           m == mediana(tab)
           Low == {i \in 1 .. n : 2 * tab[i] < m}
           High == {i \in 1 .. n : 2 * tab[i] > m}
<1>1. n \in Nat /\ tab \in [1 .. n -> 0 .. MaxSpeed]
  BY <1>0
<1>2. SortedFrom(sorted, tab)
  BY SortSorts
<1> HIDE DEF sorted
<1>3. /\ sorted \in [1 .. n -> 0 .. MaxSpeed]
      /\ \A i, j \in 1 .. n : i <= j => sorted[i] <= sorted[j]
  BY <1>2 DEF SortedFrom
<1>4. PICK p \in [1 .. n -> 1 .. n] : /\ \A k \in 1 .. n : \E i \in 1 .. n : p[i] = k
                                      /\ \A i \in 1 .. n : sorted[i] = tab[p[i]]
  BY <1>2 DEF SortedFrom
<1>5. m = IF n = 0 THEN 0 ELSE IF n % 2 = 1 THEN 2 * sorted[h + 1] ELSE sorted[h] + sorted[h + 1]
  BY DEF mediana, sorted
<1>6. h \in Nat /\ (n % 2 = 1 => n = 2 * h + 1) /\ (n % 2 # 1 => n = 2 * h)
  <2> HIDE DEF sorted, m, Low, High
  <2> HIDE DEF n
  <2> QED
    BY <1>1
<1> HIDE DEF n, h, m, Low, High
<1>7. 2 * Cardinality(Low) <= n /\ 2 * Cardinality(High) <= n
  <2>1. CASE n = 0
    <3>1. Low = {} /\ High = {} /\ Cardinality({}) = 0
      BY <2>1, FS_EmptySet DEF Low, High
    <3> QED
      BY <2>1, <3>1
  <2>2. CASE n # 0 /\ n % 2 = 1
    <3>1. h + 1 \in 1 .. n /\ m = 2 * sorted[h + 1] /\ n = 2 * h + 1
      BY <1>1, <1>5, <1>6, <2>2
    <3>2. \A i \in 1 .. n : p[i] \in Low => i \in 1 .. h
      <4> SUFFICES ASSUME NEW i \in 1 .. n, p[i] \in Low, ~(i \in 1 .. h) PROVE FALSE
        OBVIOUS
      <4>1. 2 * sorted[i] < m
        BY <1>4 DEF Low
      <4>2. h + 1 <= i
        BY <1>1, <1>6
      <4>3. sorted[h + 1] <= sorted[i]
        BY <1>3, <3>1, <4>2
      <4>4. sorted[i] \in 0 .. MaxSpeed /\ sorted[h + 1] \in 0 .. MaxSpeed
        BY <1>3, <3>1
      <4> QED
        BY <3>1, <4>1, <4>3, <4>4
    <3>3. \A i \in 1 .. n : p[i] \in High => i \in h + 2 .. n
      <4> SUFFICES ASSUME NEW i \in 1 .. n, p[i] \in High, ~(i \in h + 2 .. n) PROVE FALSE
        OBVIOUS
      <4>1. 2 * sorted[i] > m
        BY <1>4 DEF High
      <4>2. i <= h + 1
        BY <1>1, <1>6
      <4>3. sorted[i] <= sorted[h + 1]
        BY <1>3, <3>1, <4>2
      <4>4. sorted[i] \in 0 .. MaxSpeed /\ sorted[h + 1] \in 0 .. MaxSpeed
        BY <1>3, <3>1
      <4> QED
        BY <3>1, <4>1, <4>3, <4>4
    <3>4. Cardinality(Low) <= h - 1 + 1
      <4>1. 1 \in 1 .. n + 1 /\ h \in 0 .. n /\ 1 <= h + 1 /\ Low \in SUBSET (1 .. n)
        BY <1>1, <1>6, <3>1 DEF Low
      <4> QED
        BY <1>1, <1>4, <3>2, <4>1, PlacesBound
    <3>5. Cardinality(High) <= n - (h + 2) + 1
      <4>1. h + 2 \in 1 .. n + 1 /\ n \in 0 .. n /\ h + 2 <= n + 1 /\ High \in SUBSET (1 .. n)
        BY <1>1, <1>6, <3>1 DEF High
      <4> QED
        BY <1>1, <1>4, <3>3, <4>1, PlacesBound
    <3>6. Cardinality(Low) \in Nat /\ Cardinality(High) \in Nat
      <4>1. Low \in SUBSET (1 .. n) /\ High \in SUBSET (1 .. n)
        BY DEF Low, High
      <4>2. 1 \in Int /\ n \in Int
        BY <1>1
      <4>3. IsFiniteSet(1 .. n)
        BY <4>2, FS_Interval
      <4> QED
        BY <4>1, <4>3, FS_Subset, FS_CardinalityType
    <3> DEFINE low == Cardinality(Low)
               high == Cardinality(High)
    <3>7. low <= h - 1 + 1 /\ high <= n - (h + 2) + 1 /\ low \in Nat /\ high \in Nat
      BY <3>4, <3>5, <3>6
    <3> HIDE DEF low, high
    <3>8. 2 * low <= n /\ 2 * high <= n
      BY <1>1, <1>6, <3>1, <3>7
    <3> QED
      BY <3>8 DEF low, high
  <2>3. CASE n # 0 /\ n % 2 # 1
    <3>1. h \in 1 .. n /\ h + 1 \in 1 .. n /\ m = sorted[h] + sorted[h + 1] /\ n = 2 * h
      BY <1>1, <1>5, <1>6, <2>3
    <3>2. \A i \in 1 .. n : p[i] \in Low => i \in 1 .. h
      <4> SUFFICES ASSUME NEW i \in 1 .. n, p[i] \in Low, ~(i \in 1 .. h) PROVE FALSE
        OBVIOUS
      <4>1. 2 * sorted[i] < m
        BY <1>4 DEF Low
      <4>2. h + 1 <= i /\ h <= i
        BY <1>1, <1>6
      <4>3. sorted[h + 1] <= sorted[i] /\ sorted[h] <= sorted[i]
        BY <1>3, <3>1, <4>2
      <4>4. sorted[i] \in Nat /\ sorted[h + 1] \in Nat /\ sorted[h] \in Nat
        BY <1>0, <1>3, <3>1
      <4> DEFINE x == sorted[i]
                 y == sorted[h]
                 z == sorted[h + 1]
      <4>5. x \in Nat /\ y \in Nat /\ z \in Nat /\ z <= x /\ y <= x /\ 2 * x < y + z
        BY <3>1, <4>1, <4>3, <4>4
      <4> HIDE DEF x, y, z
      <4> QED
        BY <4>5
    <3>3. \A i \in 1 .. n : p[i] \in High => i \in h + 1 .. n
      <4> SUFFICES ASSUME NEW i \in 1 .. n, p[i] \in High, ~(i \in h + 1 .. n) PROVE FALSE
        OBVIOUS
      <4>1. 2 * sorted[i] > m
        BY <1>4 DEF High
      <4>2. i <= h /\ i <= h + 1
        BY <1>1, <1>6
      <4>3. sorted[i] <= sorted[h + 1] /\ sorted[i] <= sorted[h]
        BY <1>3, <3>1, <4>2
      <4>4. sorted[i] \in Nat /\ sorted[h + 1] \in Nat /\ sorted[h] \in Nat
        BY <1>0, <1>3, <3>1
      <4> DEFINE x == sorted[i]
                 y == sorted[h]
                 z == sorted[h + 1]
      <4>5. x \in Nat /\ y \in Nat /\ z \in Nat /\ x <= z /\ x <= y /\ 2 * x > y + z
        BY <3>1, <4>1, <4>3, <4>4
      <4> HIDE DEF x, y, z
      <4> QED
        BY <4>5
    <3>4. Cardinality(Low) <= h - 1 + 1
      <4>1. 1 \in 1 .. n + 1 /\ h \in 0 .. n /\ 1 <= h + 1 /\ Low \in SUBSET (1 .. n)
        BY <1>1, <1>6, <3>1 DEF Low
      <4> QED
        BY <1>1, <1>4, <3>2, <4>1, PlacesBound
    <3>5. Cardinality(High) <= n - (h + 1) + 1
      <4>1. h + 1 \in 1 .. n + 1 /\ n \in 0 .. n /\ h + 1 <= n + 1 /\ High \in SUBSET (1 .. n)
        BY <1>1, <1>6, <3>1 DEF High
      <4> QED
        BY <1>1, <1>4, <3>3, <4>1, PlacesBound
    <3>6. Cardinality(Low) \in Nat /\ Cardinality(High) \in Nat
      <4>1. Low \in SUBSET (1 .. n) /\ High \in SUBSET (1 .. n)
        BY DEF Low, High
      <4>2. 1 \in Int /\ n \in Int
        BY <1>1
      <4>3. IsFiniteSet(1 .. n)
        BY <4>2, FS_Interval
      <4> QED
        BY <4>1, <4>3, FS_Subset, FS_CardinalityType
    <3> DEFINE low == Cardinality(Low)
               high == Cardinality(High)
    <3>7. low <= h - 1 + 1 /\ high <= n - (h + 1) + 1 /\ low \in Nat /\ high \in Nat
      BY <3>4, <3>5, <3>6
    <3> HIDE DEF low, high
    <3>8. 2 * low <= n /\ 2 * high <= n
      BY <1>1, <1>6, <3>1, <3>7
    <3> QED
      BY <3>8 DEF low, high
  <2> QED
    BY <2>1, <2>2, <2>3
<1> QED
  BY <1>7 DEF MiddleOf, n, m, Low, High

\* The average takes samples of the table only.
LEMMA AverageInside == \A n \in Nat : corrected_avg_range(n) \subseteq 1 .. n
<1> SUFFICES ASSUME NEW n \in Nat PROVE corrected_avg_range(n) \subseteq 1 .. n
  OBVIOUS
<1> DEFINE margin == Max({1, n \div 4})
           pos2 == n - 1 - margin
<1>1. n \div 4 \in Nat
  OBVIOUS
<1>2. margin \in Nat \ {0}
  <2>1. \E x \in {1, n \div 4} : \A y \in {1, n \div 4} : x >= y
    BY <1>1
  <2>2. margin \in {1, n \div 4} /\ \A y \in {1, n \div 4} : margin >= y
    BY <2>1 DEF Max
  <2> HIDE DEF margin
  <2> QED
    BY <1>1, <2>2
<1>3. corrected_avg_range(n) = IF n <= 1 THEN 1 .. n ELSE IF pos2 - margin < 2 THEN {} ELSE margin + 1 .. pos2
  BY DEF corrected_avg_range
<1> HIDE DEF margin
<1>4. margin + 1 .. pos2 \subseteq 1 .. n
  BY <1>2
<1> QED
  BY <1>3, <1>4

\* A behaviour of the model of all transports is one of the benchmark and one of the tools.
LEMMA PartsMeasure == MCSpec => BenchSpec /\ ToolSpec
<1>1. MCInit => BenchInit /\ ToolInit
  BY DEF MCInit
<1>2. [MCNext]_mcvars => [BenchNext]_benchVars
  BY DEF MCNext, mcvars, Net, Bench, Send, Recv, Turbo, Siom, Vector
<1>3. [MCNext]_mcvars => [SendNext \/ RecvNext]_toolVars
  BY DEF MCNext, mcvars, Net, Bench, Send, Recv, Turbo, Siom, Vector
<1> QED
  BY <1>1, <1>2, <1>3, PTL DEF MCSpec, BenchSpec, ToolSpec

\* What the tools measure is what happened, for any number of threads, packets, datagrams
\* and samples: no count is lost or taken twice between a thread and the timer, a sender
\* stops at its count, and the median of every table of speeds is its middle
\* (c_timeradd::add, the send loop of asio_send_block.cpp, tools_helper.hpp).
THEOREM MeasuresAreExact == ToolSpec => [](CountsAreExact /\ MedianIsMiddle /\ ToolTypeOK)
<1>1. ASSUME ToolInv PROVE CountsAreExact /\ MedianIsMiddle /\ ToolTypeOK
  <2>1. SendInv /\ CountInv /\ TableInv
    BY <1>1 DEF ToolInv
  <2>2. UpdateAfter \in Nat /\ MaxReceived \in Nat
    BY ToolConstants
  <2>3. PICK sum \in [SUBSET Receiver -> Nat] :
          IsSum(sum, timeradd) /\ sum[Receiver] + m_total_bytes = received
    BY <2>1 DEF CountInv
  <2>4. timeradd \in [Receiver -> 0 .. UpdateAfter] /\ timeradd \in [Receiver -> Nat]
    BY <2>1, <2>2 DEF CountInv
  <2>5. MapThenSumSet(LAMBDA r : timeradd[r], Receiver) = sum[Receiver]
    BY <2>3, <2>4, SumIsFold
  <2>6. CountsAreExact
    BY <2>1, <2>3, <2>5 DEF CountsAreExact, SendInv
  <2>7. MedianIsMiddle
    <3>1. m_speed_tab \in Seq(0 .. MaxSpeed) /\ block.speed_tab \in Seq(0 .. MaxSpeed)
      BY <2>1 DEF TableInv
    <3>2. ASSUME NEW tab \in Seq(0 .. MaxSpeed)
          PROVE  LET m == calc_avg(tab).avg1
                     n == Len(tab)
                 IN  /\ 2 * Cardinality({i \in 1 .. n : 2 * tab[i] < m}) <= n
                     /\ 2 * Cardinality({i \in 1 .. n : 2 * tab[i] > m}) <= n
                     /\ calc_avg(tab).avg2 \subseteq 1 .. n
      <4>1. calc_avg(tab).avg1 = mediana(tab) /\ calc_avg(tab).avg2 = corrected_avg_range(Len(tab))
        BY DEF calc_avg
      <4>2. MiddleOf(tab)
        BY MedianHalves
      <4>3. corrected_avg_range(Len(tab)) \subseteq 1 .. Len(tab)
        <5>1. Len(tab) \in Nat
          OBVIOUS
        <5> QED
          BY <5>1, AverageInside
      <4> QED
        BY <4>1, <4>2, <4>3 DEF MiddleOf
    <3> QED
      BY <3>1, <3>2 DEF MedianIsMiddle
  <2>8. ToolTypeOK
    <3>1. m_total_bytes \in 0 .. MaxReceived
      <4>1. sum[Receiver] \in Nat
        BY <2>3
      <4>2. m_total_bytes \in Nat /\ received \in 0 .. MaxReceived
        BY <2>1 DEF CountInv
      <4> QED
        BY <2>2, <2>3, <4>1, <4>2
    <3> QED
      BY <2>1, <3>1 DEF ToolTypeOK, SendInv, CountInv, TableInv
  <2> QED
    BY <2>6, <2>7, <2>8
<1> QED
  BY <1>1, ToolInvariant, PTL

\* What the tools measure is what happened, in the model of all transports.
THEOREM ToolsMeasure == MCSpec => []ToolsAreExact
<1>1. CountsAreExact /\ MedianIsMiddle /\ ToolTypeOK /\ StartTogether /\ BenchInBounds => ToolsAreExact
  BY DEF ToolsAreExact
<1> QED
  BY <1>1, PartsMeasure, MeasuresAreExact, BenchmarkSound, PTL

-----------------------------------------------------------------------------
\* The types of all the transports.

\* What the network model's types say beyond its shape.
NetBounds ==
  /\ asiotest \in {"parse", "start", "flows", "join", "done", "throw", "abort"}
  /\ flow \in [Inbuf -> {"none", "posted", "armed", "ended"}]
  /\ g_atomic_exit \in BOOLEAN /\ stopped \in BOOLEAN
  /\ tun <= MaxPacket
  /\ \A w \in Weld : weld[w].m_pos <= TunBuf

\* A read ends inside its weld.
LEMMA ReadFits ==
  ASSUME NetShape, NetBounds, NEW w \in Weld, NEW size \in 0 .. TunBuf, size <= space_left(weld[w])
  PROVE  add_fragment(w, size).m_pos <= TunBuf
<1>1. weld[w] \in WeldRecord /\ weld[w].m_pos <= TunBuf /\ TunBuf \in Nat
  BY NetConstants DEF NetShape, NetBounds
<1>2. weld[w].m_pos \in Nat
  BY <1>1 DEF WeldRecord
<1>3. add_fragment(w, size).m_pos = weld[w].m_pos + size
  BY <1>1 DEF add_fragment, WeldRecord
<1>4. space_left(weld[w]) = 0 \/ space_left(weld[w]) = TunBuf - weld[w].m_pos
  BY DEF space_left
<1> DEFINE m == weld[w].m_pos
           room == space_left(weld[w])
<1>5. m \in Nat /\ m <= TunBuf /\ size <= room /\ (room = 0 \/ room = TunBuf - m)
  BY <1>1, <1>2, <1>4
<1> HIDE DEF m, room
<1>6. m + size <= TunBuf
  BY <1>1, <1>5
<1> QED
  BY <1>3, <1>6 DEF m

\* The steps of the network model keep these bounds.
LEMMA BoundsStep == NetShape /\ NetBounds /\ [NetNext]_netVars => NetBounds'
<1> SUFFICES ASSUME NetShape, NetBounds, [NetNext]_netVars PROVE NetBounds'
  OBVIOUS
<1>0. TunBuf \in Nat /\ MaxPacket \in Nat /\ tun \in Nat
  BY NetConstants DEF NetShape
<1>1. ASSUME weld' = weld, tun' = tun, flow' = flow, g_atomic_exit' \in BOOLEAN, stopped' \in BOOLEAN,
             asiotest' \in {"parse", "start", "flows", "join", "done", "throw", "abort"}
      PROVE  NetBounds'
  BY <1>1 DEF NetBounds
<1>2. CASE UNCHANGED netVars
  BY <1>1, <1>2 DEF netVars, NetBounds
<1>3. CASE ParseOptions
  BY <1>1, <1>3 DEF ParseOptions, NetBounds
<1>4. CASE handler_signal_term \/ thread_stop \/ JoinAll
  <2>1. CASE handler_signal_term
    BY <1>1, <2>1 DEF handler_signal_term, NetBounds
  <2>2. CASE thread_stop
    BY <1>1, <2>2 DEF thread_stop, NetBounds
  <2>3. CASE JoinAll
    BY <1>1, <2>3 DEF JoinAll, NetBounds
  <2> QED
    BY <1>4, <2>1, <2>2, <2>3
<1>5. ASSUME StartWorkers PROVE NetBounds'
  <2>1. tun' = tun /\ flow' = flow /\ g_atomic_exit' = g_atomic_exit /\ stopped' = stopped
        /\ asiotest' = "flows"
    BY <1>5 DEF StartWorkers
  <2>2. ASSUME NEW w \in Weld PROVE weld'[w].m_pos = weld[w].m_pos
    <3>1. weld[w] \in WeldRecord
      BY DEF NetShape
    <3>2. CASE option.async
      <4>1. weld'[w] = [weld[w] EXCEPT !.m_reserved = w \in Worker]
        BY <1>5, <3>2 DEF StartWorkers
      <4> QED
        BY <3>1, <4>1 DEF WeldRecord
    <3>3. CASE ~option.async
      BY <1>5, <3>3 DEF StartWorkers
    <3> QED
      BY <3>2, <3>3
  <2> QED
    BY <2>1, <2>2 DEF NetBounds
<1>6. ASSUME NEW b \in Inbuf, func_spawn_flow_wire(b) PROVE NetBounds'
  <2>1. tun' = tun /\ weld' = weld /\ g_atomic_exit' = g_atomic_exit /\ stopped' = stopped
        /\ asiotest' \in {asiotest, "join"} /\ flow' = [flow EXCEPT ![b] = "posted"]
    BY <1>6 DEF func_spawn_flow_wire
  <2> QED
    BY <2>1 DEF NetBounds
<1>7. ASSUME NEW k \in Worker, get_tun_input_buffer(k) PROVE NetBounds'
  <2> DEFINE f == FirstUsable
  <2>1. tun' = tun /\ flow' = flow /\ g_atomic_exit' = g_atomic_exit /\ stopped' = stopped
        /\ asiotest' = asiotest /\ weld' = [weld EXCEPT ![f].m_reserved = TRUE]
    BY <1>7 DEF get_tun_input_buffer
  <2> HIDE DEF f
  <2>2. ASSUME NEW w \in Weld PROVE weld'[w].m_pos = weld[w].m_pos
    <3>1. weld[w] \in WeldRecord /\ weld \in [Weld -> WeldRecord]
      BY DEF NetShape
    <3>2. CASE w = f
      <4>1. weld'[w] = [weld[w] EXCEPT !.m_reserved = TRUE]
        BY <2>1, <3>1, <3>2
      <4> QED
        BY <3>1, <4>1 DEF WeldRecord
    <3>3. CASE w # f
      BY <2>1, <3>1, <3>3
    <3> QED
      BY <3>2, <3>3
  <2> QED
    BY <2>1, <2>2 DEF NetBounds
<1>8. ASSUME NEW k \in Worker, NEW size \in 0 .. TunBuf, TuntapRead(k, size) PROVE NetBounds'
  <2> DEFINE w == worker[k].weld
             after == add_fragment(w, size)
             back == [after EXCEPT !.m_reserved = FALSE]
  <2>1. w \in Weld /\ tun' = tun + 1 /\ tun < MaxPacket /\ size <= space_left(weld[w])
        /\ flow' = flow /\ g_atomic_exit' = g_atomic_exit /\ stopped' = stopped /\ asiotest' = asiotest
    BY <1>8 DEF TuntapRead, send_to_global_weld, NetShape
  <2>2. weld' = [weld EXCEPT ![w] = after] \/ weld' = [weld EXCEPT ![w] = back]
    BY <1>8 DEF TuntapRead, send_to_global_weld
  <2>3. after.m_pos <= TunBuf /\ after \in WeldRecord
    BY <2>1, ReadFits, FragmentFacts
  <2>4. back.m_pos <= TunBuf
    <3> HIDE DEF after
    <3> QED
      BY <2>3 DEF WeldRecord
  <2> HIDE DEF w, after, back
  <2>5. \A v \in Weld : weld'[v].m_pos <= TunBuf
    BY <2>1, <2>2, <2>3, <2>4 DEF NetBounds, NetShape
  <2>6. tun' <= MaxPacket
    BY <1>0, <2>1
  <2> QED
    BY <2>1, <2>5, <2>6 DEF NetBounds
<1>9. ASSUME NEW k \in Worker, TuntapReadThrows(k) \/ WorkerEnds(k) PROVE NetBounds'
  <2>1. CASE TuntapReadThrows(k)
    BY <1>1, <2>1 DEF TuntapReadThrows, NetBounds
  <2>2. CASE WorkerEnds(k)
    BY <1>1, <2>2 DEF WorkerEnds, NetBounds
  <2> QED
    BY <1>9, <2>1, <2>2
<1>10. ASSUME NEW t \in Thread, (\E s \in Sock : RunStrand(t, s))
                                \/ (\E b \in Inbuf, s \in Sock : RunPosted(t, b, s)) \/ ThreadEnds(t)
       PROVE  NetBounds'
  <2>1. CASE \E s \in Sock : RunStrand(t, s)
    BY <1>1, <2>1 DEF RunStrand, NetBounds
  <2>2. CASE \E b \in Inbuf, s \in Sock : RunPosted(t, b, s)
    BY <1>1, <2>2 DEF RunPosted, NetBounds
  <2>3. CASE ThreadEnds(t)
    BY <1>1, <2>3 DEF ThreadEnds, NetBounds
  <2> QED
    BY <1>10, <2>1, <2>2, <2>3
<1>11. ASSUME NEW t \in Thread, UseSocket(t) PROVE NetBounds'
  <2> DEFINE b == ios_thread[t][3][2]
  <2>1. tun' = tun /\ weld' = weld /\ g_atomic_exit' = g_atomic_exit /\ stopped' = stopped
        /\ asiotest' = asiotest /\ (flow' = flow \/ flow' = [flow EXCEPT ![b] = "armed"])
    BY <1>11 DEF UseSocket
  <2> HIDE DEF b
  <2>2. flow' \in [Inbuf -> {"none", "posted", "armed", "ended"}]
    BY <2>1 DEF NetBounds
  <2> QED
    BY <2>1, <2>2 DEF NetBounds
<1>12. ASSUME NEW t \in Thread, NEW w \in Weld, SendDone(t, w) PROVE NetBounds'
  <2>1. tun' = tun /\ flow' = flow /\ g_atomic_exit' = g_atomic_exit /\ stopped' = stopped
        /\ asiotest' = asiotest /\ weld' = [weld EXCEPT ![w] = c_weld]
    BY <1>12 DEF SendDone
  <2>2. c_weld.m_pos <= TunBuf
    BY <1>0 DEF c_weld
  <2> QED
    BY <2>1, <2>2 DEF NetBounds, NetShape
<1>13. ASSUME NEW t \in Thread, NEW b \in Inbuf, NEW ec \in BOOLEAN, NEW exit \in BOOLEAN,
              handler_receive(t, b, ec, exit)
       PROVE  NetBounds'
  <2>1. tun' = tun /\ weld' = weld /\ g_atomic_exit' = (g_atomic_exit \/ exit) /\ stopped' = stopped
        /\ asiotest' = asiotest /\ flow' = [flow EXCEPT ![b] = IF ec THEN "ended" ELSE "posted"]
    BY <1>13 DEF handler_receive
  <2>2. g_atomic_exit' \in BOOLEAN
    BY <2>1
  <2>3. flow' \in [Inbuf -> {"none", "posted", "armed", "ended"}]
    BY <2>1 DEF NetBounds
  <2> QED
    BY <2>1, <2>2, <2>3 DEF NetBounds
<1> QED
  BY <1>2, <1>3, <1>4, <1>5, <1>6, <1>7, <1>8, <1>9, <1>10, <1>11, <1>12, <1>13
  DEF NetNext, WireThread

\* The network model keeps its types.
LEMMA NetTypes == NetSpec => []NetTypeOK
<1>1. ASSUME NetInit PROVE NetBounds
  <2>1. \A w \in Weld : weld[w].m_pos = 0
    BY <1>1 DEF NetInit, c_weld
  <2>2. flow \in [Inbuf -> {"none", "posted", "armed", "ended"}]
    BY <1>1 DEF NetInit
  <2>3. tun = 0 /\ asiotest = "parse" /\ g_atomic_exit = FALSE /\ stopped = FALSE
    BY <1>1 DEF NetInit
  <2>4. 0 <= MaxPacket /\ 0 <= TunBuf
    BY NetConstants
  <2>5. \A w \in Weld : weld[w].m_pos <= TunBuf
    BY <2>1, <2>4
  <2> QED
    BY <2>2, <2>3, <2>4, <2>5 DEF NetBounds
<1>2. NetInv => NetShape
  BY DEF NetInv
<1>3. ASSUME NetInv, NetBounds PROVE NetTypeOK
  <2>0. NetShape /\ Packets /\ MaxPacket \in Nat /\ TunBuf \in Nat /\ tun \in Nat
    BY <1>3, NetConstants DEF NetInv, NetShape
  <2>1. ASSUME NEW w \in Weld
        PROVE  weld[w] \in [frags : Seq(1 .. MaxPacket), m_pos : 0 .. TunBuf, m_reserved : BOOLEAN]
    <3>1. weld[w] \in [frags : Seq(Nat), m_pos : Nat, m_reserved : BOOLEAN]
      BY <2>0 DEF NetShape, WeldRecord
    <3>2. weld[w].m_pos \in 0 .. TunBuf
      BY <1>3, <2>0, <3>1 DEF NetBounds
    <3> DEFINE q == weld[w].frags
    <3>3. q \in Seq(Nat)
      BY <3>1
    <3>4. \A i \in 1 .. Len(q) : q[i] \in 1 .. MaxPacket
      <4>1. ASSUME NEW i \in 1 .. Len(q) PROVE q[i] \in 1 .. tun
        BY <2>0 DEF Packets
      <4>2. 1 .. tun \subseteq 1 .. MaxPacket
        BY <1>3, <2>0 DEF NetBounds
      <4> QED
        BY <4>1, <4>2
    <3> HIDE DEF q
    <3>5. q \in Seq(1 .. MaxPacket)
      <4>1. Len(q) \in Nat /\ q = [i \in 1 .. Len(q) |-> q[i]]
        BY <3>3
      <4>2. q \in [1 .. Len(q) -> 1 .. MaxPacket]
        BY <3>4, <4>1
      <4> DEFINE n == Len(q)
      <4>3. n \in Nat /\ q \in [1 .. n -> 1 .. MaxPacket]
        BY <4>1, <4>2
      <4> HIDE DEF n
      <4> QED
        BY <4>3, SeqDef
    <3> QED
      BY <3>1, <3>2, <3>5 DEF q
  <2>2. weld \in [Weld -> [frags : Seq(1 .. MaxPacket), m_pos : 0 .. TunBuf, m_reserved : BOOLEAN]]
    BY <2>0, <2>1 DEF NetShape
  <2>3. worker \in [Worker -> [at : {"none", "pick", "read", "ended", "undefined"},
                               weld : {0} \union Weld]]
    BY <2>0 DEF NetShape, WorkerRecord
  <2>4. \A w \in Weld : Len(weld[w].frags) <= FragMax
    BY <2>0 DEF Packets
  <2>5. tun \in 0 .. MaxPacket
    BY <1>3, <2>0 DEF NetBounds
  <2> QED
    BY <1>3, <2>0, <2>2, <2>3, <2>4, <2>5 DEF NetTypeOK, NetBounds, NetShape
<1> QED
  BY <1>1, <1>2, <1>3, BoundsStep, NetInvariant, PTL DEF NetSpec

\* A message is numbered within the bound on messages.
TurboBounds ==
  /\ shm \in {"none", "created", "queued", "open"}
  /\ \A d \in Direction : /\ sent[d] <= MaxMessage /\ header[d].data <= MaxMessage
                          /\ writer[d] = "hold" => sent[d] < MaxMessage

\* The shared-memory socket keeps its types.
LEMMA TurboBoundsStep == TurboInv /\ TurboBounds /\ [TurboNext]_turboVars => TurboBounds'
<1> SUFFICES ASSUME TurboInv, TurboBounds, [TurboNext]_turboVars PROVE TurboBounds'
  OBVIOUS
<1>0. TurboTypes /\ MaxMessage \in Nat
  BY CableConstants DEF TurboInv
<1>1. CASE UNCHANGED turboVars
  BY <1>1 DEF turboVars, TurboBounds
<1>2. CASE connect_as_client \/ wait_for_connection
  <2>1. shm' \in {"created", "queued", "open"} /\ UNCHANGED dirVars
    BY <1>2 DEF connect_as_client, wait_for_connection
  <2> QED
    BY <2>1 DEF dirVars, TurboBounds
<1>3. CASE server_data_ready_for_read
  BY <1>3 DEF server_data_ready_for_read, TurboBounds
<1>4. ASSUME NEW d \in Direction, get_buffer_for_write(d) PROVE TurboBounds'
  <2>1. shm' = shm /\ sent' = sent /\ sent[d] < MaxMessage
        /\ (writer' = [writer EXCEPT ![d] = "hold"] \/ writer' = [writer EXCEPT ![d] = "wait_full"])
        /\ (header' = header \/ header' = [header EXCEPT ![d].mutex = "W"])
    BY <1>4 DEF get_buffer_for_write, Lock
  <2>2. \A e \in Direction : header'[e].data = header[e].data
    <3>1. CASE header' = header
      BY <3>1
    <3>2. CASE header' = [header EXCEPT ![d].mutex = "W"]
      BY <1>0, <3>2 DEF TurboTypes
    <3> QED
      BY <2>1, <3>1, <3>2
  <2>3. \A e \in Direction : writer'[e] = "hold" => sent[e] < MaxMessage
    BY <1>0, <2>1 DEF TurboTypes, TurboBounds
  <2> QED
    BY <2>1, <2>2, <2>3 DEF TurboBounds
<1>5. ASSUME NEW d \in Direction, send_to(d) PROVE TurboBounds'
  <2>1. shm' = shm /\ sent' = [sent EXCEPT ![d] = sent[d] + 1] /\ writer[d] = "hold"
        /\ writer' = [writer EXCEPT ![d] = "idle"]
        /\ header' = [header EXCEPT ![d] = [mutex |-> "free", message_in |-> TRUE, data |-> sent'[d]]]
    BY <1>5 DEF send_to
  <2>2. sent[d] < MaxMessage /\ sent[d] \in Nat
    BY <1>0, <2>1 DEF TurboTypes, TurboBounds
  <2>3. sent'[d] <= MaxMessage
    BY <1>0, <2>1, <2>2 DEF TurboTypes
  <2>4. ASSUME NEW e \in Direction
        PROVE  /\ sent'[e] <= MaxMessage /\ header'[e].data <= MaxMessage
               /\ writer'[e] = "hold" => sent'[e] < MaxMessage
    <3>1. CASE e = d
      BY <1>0, <2>1, <2>3, <3>1 DEF TurboTypes
    <3>2. CASE e # d
      <4>1. sent'[e] = sent[e] /\ header'[e] = header[e] /\ writer'[e] = writer[e]
        BY <1>0, <2>1, <3>2 DEF TurboTypes
      <4> QED
        BY <4>1 DEF TurboBounds
    <3> QED
      BY <3>1, <3>2
  <2> QED
    BY <2>1, <2>4 DEF TurboBounds
<1>6. ASSUME NEW d \in Direction, get_buffer_for_read(d) PROVE TurboBounds'
  <2>1. shm' = shm /\ sent' = sent /\ writer' = writer
        /\ (header' = header \/ header' = [header EXCEPT ![d].mutex = "R"])
    BY <1>6 DEF get_buffer_for_read, Lock
  <2>2. \A e \in Direction : header'[e].data = header[e].data
    <3>1. CASE header' = header
      BY <3>1
    <3>2. CASE header' = [header EXCEPT ![d].mutex = "R"]
      BY <1>0, <3>2 DEF TurboTypes
    <3> QED
      BY <2>1, <3>1, <3>2
  <2> QED
    BY <2>1, <2>2 DEF TurboBounds
<1>7. ASSUME NEW d \in Direction, received_from(d) PROVE TurboBounds'
  <2>1. shm' = shm /\ sent' = sent
        /\ header' = [header EXCEPT ![d].mutex = "free", ![d].message_in = FALSE]
    BY <1>7 DEF received_from
  <2>2. \A e \in Direction : header'[e].data = header[e].data
    BY <1>0, <2>1 DEF TurboTypes
  <2>3. \A e \in Direction : writer'[e] = "hold" => writer[e] = "hold"
    BY <1>0, <1>7 DEF TurboTypes, received_from
  <2> QED
    BY <2>1, <2>2, <2>3 DEF TurboBounds
<1>8. ASSUME NEW d \in Direction, SpuriousWake(d) PROVE TurboBounds'
  <2>1. shm' = shm /\ sent' = sent /\ header' = header
        /\ (writer' = [writer EXCEPT ![d] = "woken"] \/ writer' = writer)
    BY <1>8 DEF SpuriousWake
  <2>2. \A e \in Direction : writer'[e] = "hold" => writer[e] = "hold"
    BY <1>0, <2>1 DEF TurboTypes
  <2> QED
    BY <2>1, <2>2 DEF TurboBounds
<1> QED
  BY <1>1, <1>2, <1>3, <1>4, <1>5, <1>6, <1>7, <1>8 DEF TurboNext

\* The manager never has more services than its array holds.
SiomBounds == m_size \in 0 .. Capacity /\ DOMAIN cards \subseteq Selector

\* Its steps keep that.
LEMMA SiomBoundsStep == SiomBounds /\ [SiomNext]_siomVars => SiomBounds'
<1> SUFFICES ASSUME SiomBounds, [SiomNext]_siomVars PROVE SiomBounds'
  OBVIOUS
<1>0. Capacity \in Nat \ {0}
  BY CableConstants
<1>1. ASSUME m_size' = m_size, cards' = cards PROVE SiomBounds'
  BY <1>1 DEF SiomBounds
<1>2. CASE UNCHANGED siomVars \/ stop_all_threadsafe \/ SiomJoin \/ \E i \in Services : ServiceThread(i)
  BY <1>1, <1>2 DEF siomVars, stop_all_threadsafe, SiomJoin, ServiceThread
<1>3. CASE get_asioservice
  BY <1>0, <1>3 DEF get_asioservice, SiomBounds
<1>4. CASE SiomDestructor
  BY <1>4 DEF SiomDestructor, SiomBounds
<1>5. ASSUME NEW n \in 1 .. Capacity, resize_to_at_least(n) PROVE SiomBounds'
  BY <1>0, <1>5 DEF resize_to_at_least, SiomBounds
<1>6. ASSUME NEW s \in Selector, get_card(s) PROVE SiomBounds'
  <2>1. m_size' = m_size /\ (cards' = cards \/ DOMAIN cards' = DOMAIN cards \cup {s})
    BY <1>6 DEF get_card
  <2> QED
    BY <2>1 DEF SiomBounds
<1> QED
  BY <1>2, <1>3, <1>4, <1>5, <1>6 DEF SiomNext

\* The container has the elements that were pushed, and its readers are its callers.
VectorBounds == Len(m_data) <= Element /\ m_mutex_all \subseteq Caller

\* Its steps keep that.
LEMMA VectorBoundsStep ==
  VectorInv /\ VectorInv' /\ VectorBounds /\ [VectorNext]_vectorVars => VectorBounds'
<1> SUFFICES ASSUME VectorInv, VectorInv', VectorBounds, [VectorNext]_vectorVars PROVE VectorBounds'
  OBVIOUS
<1>0. m_data \in Seq(Slot) /\ m_data' \in Seq(Slot) /\ Element \in Nat
  BY CableConstants DEF VectorInv, CallTypes
<1>1. ASSUME DOMAIN m_data' = DOMAIN m_data, m_mutex_all' \subseteq Caller PROVE VectorBounds'
  <2>1. Len(m_data') = Len(m_data)
    <3>1. Len(m_data) \in Nat /\ Len(m_data') \in Nat /\ 1 .. Len(m_data) = 1 .. Len(m_data')
      BY <1>0, <1>1
    <3> DEFINE a == Len(m_data)
               b == Len(m_data')
    <3>2. a \in Nat /\ b \in Nat /\ 1 .. a = 1 .. b
      BY <3>1
    <3> HIDE DEF a, b
    <3>3. a = b
      <4>1. (a \in 1 .. a <=> a \in 1 .. b) /\ (b \in 1 .. a <=> b \in 1 .. b)
        BY <3>2
      <4> QED
        BY <3>2, <4>1
    <3> QED
      BY <3>3 DEF a, b
  <2> QED
    BY <1>1, <2>1 DEF VectorBounds
<1>2. CASE UNCHANGED vectorVars
  BY <1>2 DEF vectorVars, VectorBounds
<1>3. CASE push_back
  <2>1. Len(m_data') = Len(m_data) + 1 /\ Len(m_data) < Element /\ m_mutex_all' = m_mutex_all
    BY <1>0, <1>3 DEF push_back
  <2>2. Len(m_data) \in Nat
    BY <1>0
  <2> QED
    BY <1>0, <2>1, <2>2 DEF VectorBounds
<1>4. ASSUME NEW c \in Caller, run_on_matching(c) \/ TestElement(c) PROVE VectorBounds'
  <2>1. m_data' = m_data /\ m_mutex_all' \in {m_mutex_all, m_mutex_all \cup {c}, m_mutex_all \ {c}}
    BY <1>4 DEF run_on_matching, TestElement
  <2> QED
    BY <2>1 DEF VectorBounds
<1>5. ASSUME NEW c \in Caller, RunElement(c) PROVE VectorBounds'
  <2>1. DOMAIN m_data' = DOMAIN m_data /\ m_mutex_all' \in {m_mutex_all, m_mutex_all \ {c}}
    BY <1>5 DEF RunElement
  <2>2. m_mutex_all' \subseteq Caller
    BY <2>1 DEF VectorBounds
  <2> QED
    BY <1>1, <2>1, <2>2
<1>6. ASSUME NEW c \in Caller, NEW limit, LockMatched(c, limit) PROVE VectorBounds'
  <2>1. DOMAIN m_data' = DOMAIN m_data /\ m_mutex_all' = m_mutex_all
    BY <1>6 DEF LockMatched
  <2> QED
    BY <1>1, <2>1 DEF VectorBounds
<1>7. ASSUME NEW c \in Caller, NEW i, run_on(c, i) PROVE VectorBounds'
  <2>1. DOMAIN m_data' = DOMAIN m_data /\ m_mutex_all' = m_mutex_all
    BY <1>7 DEF run_on
  <2> QED
    BY <1>1, <2>1 DEF VectorBounds
<1> QED
  BY <1>2, <1>3, <1>4, <1>5, <1>6, <1>7 DEF VectorNext

\* The cables keep their types.
LEMMA CableTypes == TurboSpec /\ SiomSpec /\ VectorSpec => []CablesTypeOK
<1>0. Element \in Nat /\ MaxMessage \in Nat /\ Capacity \in Nat
  BY CableConstants
<1>1. TurboInit => TurboInv /\ TurboBounds
  <2>1. TurboInit => TurboInv
    BY DEF TurboInit, TurboInv, TurboTypes, Flows, Handover, Balance, Arrived, NoHeader
  <2>2. TurboInit => TurboBounds
    BY CableConstants DEF TurboInit, TurboBounds, NoHeader
  <2> QED
    BY <2>1, <2>2
<1>2. SiomInit => SiomBounds
  BY <1>0 DEF SiomInit, SiomBounds
<1>3. VectorInit => VectorInv /\ VectorBounds
  <2>1. VectorInit => VectorInv
    BY DEF VectorInit, VectorInv, CallTypes, MatchedOnUse, NoCall, CallRecord, Slot
  <2>2. VectorInit => VectorBounds
    BY <1>0 DEF VectorInit, VectorBounds
  <2> QED
    BY <2>1, <2>2
<1>4. ASSUME TurboInv, TurboBounds, SiomBounds, VectorBounds PROVE CablesTypeOK
  <2>1. \A d \in Direction : header[d].mutex \in {"free", "W", "R"} /\ header[d].data \in 0 .. MaxMessage
    BY <1>0, <1>4 DEF TurboInv, TurboTypes, TurboBounds
  <2> QED
    BY <1>4, <2>1 DEF CablesTypeOK, TurboBounds, SiomBounds, VectorBounds
<1>5. TurboSpec => [](TurboInv /\ TurboBounds)
  BY <1>1, TurboStep, TurboBoundsStep, PTL DEF TurboSpec
<1>6. SiomSpec => []SiomBounds
  BY <1>2, SiomBoundsStep, PTL DEF SiomSpec
<1>7. VectorSpec => [](VectorInv /\ VectorBounds)
  BY <1>3, VectorStep, VectorBoundsStep, PTL DEF VectorSpec
<1> QED
  BY <1>4, <1>5, <1>6, <1>7, PTL

\* Every part of the transports keeps its types, among them the bounds the code's buffers
\* rest on: no read leaves its weld, and the manager has no service outside its array
\* (send_to_global_weld in netmodel.cpp, resize_to_at_least in asio_ioservice_manager.cpp).
THEOREM TransportsTypes == MCSpec => []TypeOK
<1>1. NetTypeOK /\ BenchTypeOK /\ ToolTypeOK /\ CablesTypeOK => TypeOK
  BY DEF TypeOK
<1>2. StartTogether /\ BenchInBounds /\ BenchTypeOK => BenchTypeOK
  OBVIOUS
<1>3. CountsAreExact /\ MedianIsMiddle /\ ToolTypeOK => ToolTypeOK
  OBVIOUS
<1> QED
  BY <1>1, <1>2, <1>3, PartsOfTransports, PartsMeasure, NetTypes, CableTypes, BenchmarkSound,
     MeasuresAreExact, PTL
=============================================================================
