---------------------------- MODULE EventDevices ----------------------------
(***************************************************************************)
(* How the event loop waits for its two devices and reads them:            *)
(* c_event_manager, c_udp_wrapper and the reading side of c_tun_device.    *)
(* flavour "select" is Linux; "reactor" is asio on MAC OS, where data is   *)
(* copied into the buffer when a handler is run; "overlapped" is asio on   *)
(* Windows, where the system may fill the armed buffer at any time.        *)
(* A packet is a number.  A buffer holds the number of the packet whose    *)
(* bytes are in it; lengths and addresses are kept as the packet they      *)
(* belong to.                                                              *)
(***************************************************************************)
EXTENDS Integers, Sequences, FiniteSets

CONSTANTS Flavours, MaxUdp, MaxTun   \* bounds: packets that arrive

ASSUME EventDevicesConstants == MaxUdp \in Nat /\ MaxTun \in Nat

VARIABLES flavour,
          lpc,           \* of the loop: "wait" or "dispatch"
          failed,        \* arrivals whose read fails: too short a frame, an error of the system
          m_disabled,    \* listen_port was 0
          udpQueue, tunQueue,     \* what the system holds
          udpIn, tunIn,           \* packets that arrived so far
          udpDev, tunDev,         \* the asio devices
          m_udp_event, m_tun_event,
          got                     \* what the loop was given, in order

eventVars == <<flavour, lpc, failed, m_disabled, udpQueue, tunQueue, udpIn, tunIn, udpDev, tunDev,
               m_udp_event, m_tun_event, got>>

\* buffer: m_buffer; armed: an asynchronous read is under way; done: the packet with
\* which it has completed; readed: m_bytes_readed; endpoint: m_sender_endpoint.
NewDev == [buffer |-> 0, armed |-> TRUE, done |-> 0, readed |-> 0, endpoint |-> 0]

EventInit ==
  /\ flavour \in Flavours /\ lpc = "wait" /\ m_disabled \in BOOLEAN
  /\ failed \in [udp : SUBSET (1 .. MaxUdp), tun : SUBSET (1 .. MaxTun)]
  /\ udpQueue = <<>> /\ tunQueue = <<>> /\ udpIn = 0 /\ tunIn = 0
  /\ udpDev = [NewDev EXCEPT !.armed = ~m_disabled] /\ tunDev = NewDev
  /\ m_udp_event = FALSE /\ m_tun_event = FALSE /\ got = [udp |-> <<>>, tun |-> <<>>]

loopVars == <<flavour, lpc, failed, m_disabled, m_udp_event, m_tun_event, got>>

UdpArrives ==
  /\ udpIn < MaxUdp /\ udpIn' = udpIn + 1 /\ udpQueue' = Append(udpQueue, udpIn + 1)
  /\ UNCHANGED <<tunQueue, tunIn, udpDev, tunDev, loopVars>>

TunArrives ==
  /\ tunIn < MaxTun /\ tunIn' = tunIn + 1 /\ tunQueue' = Append(tunQueue, tunIn + 1)
  /\ UNCHANGED <<udpQueue, udpIn, udpDev, tunDev, loopVars>>

\* The read of a device completes with the packet at the head of the queue.
Filled(dev, queue) ==
  [dev EXCEPT !.buffer = Head(queue), !.done = Head(queue), !.endpoint = Head(queue)]

CanFill(dev, queue) == dev.armed /\ dev.done = 0 /\ queue # <<>>

\* The system writes into the buffer of an overlapped read, whenever it likes.
SystemFillsUdp ==
  /\ flavour = "overlapped" /\ CanFill(udpDev, udpQueue)
  /\ udpDev' = Filled(udpDev, udpQueue) /\ udpQueue' = Tail(udpQueue)
  /\ UNCHANGED <<tunQueue, udpIn, tunIn, tunDev, loopVars>>

SystemFillsTun ==
  /\ flavour = "overlapped" /\ CanFill(tunDev, tunQueue)
  /\ tunDev' = Filled(tunDev, tunQueue) /\ tunQueue' = Tail(tunQueue)
  /\ UNCHANGED <<udpQueue, udpIn, tunIn, udpDev, loopVars>>

-----------------------------------------------------------------------------
MutKeepFirst(dev) ==
  [dev EXCEPT !.readed = IF dev.readed = 0 THEN dev.done ELSE @, !.done = 0]

\* c_udp_wrapper_asio: the bytes that were not read yet are forgotten, also when the
\* read failed, and the same buffer is armed again.
read_handle(dev) ==
  [dev EXCEPT !.readed = IF dev.done \in failed.udp THEN 0 ELSE dev.done, !.done = 0]

\* c_tun_device_windows and _apple; after an exception the read is not armed again.
handle_read(dev) ==
  IF dev.done \in failed.tun THEN [dev EXCEPT !.readed = IF flavour = "reactor" THEN @ ELSE 0,
                                         !.done = 0, !.armed = FALSE]
  ELSE [dev EXCEPT !.readed = dev.done, !.done = 0]

\* poll_one runs at most one handler; on a reactor it reads first.
Ready(dev, queue) == IF flavour = "reactor" /\ CanFill(dev, queue) THEN Filled(dev, queue) ELSE dev
Rest(dev, queue) == IF flavour = "reactor" /\ CanFill(dev, queue) THEN Tail(queue) ELSE queue

MutTunEventStays(ran) == m_tun_event \/ ran
TunEvent(ran) == ran

\* c_event_manager_asio::wait_for_event, one round that ends: an event, an exception
\* of the tun handler (the flags keep their values, the loop starts over), or the
\* time out.
AsioWait ==
  /\ flavour # "select" /\ lpc = "wait"
  /\ LET t == Ready(tunDev, tunQueue)
         u == Ready(udpDev, udpQueue)
     IN IF t.done # 0 /\ t.done \in failed.tun
        THEN /\ tunDev' = handle_read(t) /\ tunQueue' = Rest(tunDev, tunQueue)
             /\ UNCHANGED <<udpDev, udpQueue, m_tun_event, m_udp_event, lpc>>
        ELSE /\ tunDev' = IF t.done # 0 THEN handle_read(t) ELSE t
             /\ tunQueue' = Rest(tunDev, tunQueue)
             /\ udpDev' = IF u.done # 0 THEN read_handle(u) ELSE u
             /\ udpQueue' = Rest(udpDev, udpQueue)
             /\ m_tun_event' = TunEvent(t.done # 0) /\ m_udp_event' = (u.done # 0)
             /\ lpc' = "dispatch"
  /\ UNCHANGED <<flavour, failed, m_disabled, udpIn, tunIn, got>>

\* select() on Linux, which may also time out.
LinuxWait ==
  /\ flavour = "select" /\ lpc = "wait" /\ lpc' = "dispatch"
  /\ m_tun_event' = (tunQueue # <<>>) /\ m_udp_event' = (udpQueue # <<>> /\ ~m_disabled)
  /\ UNCHANGED <<flavour, failed, m_disabled, udpQueue, tunQueue, udpIn, tunIn, udpDev, tunDev, got>>

Whole(p) == [data |-> p, size |-> p, from |-> p]

\* What is in the buffer of an asio device, whoever wrote it there last, with the length
\* that its handler was told.  The source of a frame is in its bytes.
Buffered(dev) == [data |-> dev.buffer, size |-> dev.readed, from |-> dev.endpoint]

\* recvfrom's -1 as a size_t, the greatest one.
WrappedSize == -1

\* What the loop takes for the i-th datagram when that receive failed: its buffer has what
\* was received before, and the sender is not set.
Stale(s, i) == [data |-> IF i = 1 THEN 0 ELSE s[i - 1].data, size |-> WrappedSize, from |-> 0]

LinuxReceive(p) == IF p \in failed.udp THEN Stale(got.udp, Len(got.udp) + 1) ELSE Whole(p)

\* A read of the tun that fails throws, and the loop starts over.
LinuxRead(p) == IF p \in failed.tun THEN got ELSE [got EXCEPT !.tun = Append(@, Whole(p))]

\* The loop reads one packet, of the tun first.
read_from_tun ==
  /\ lpc = "dispatch" /\ m_tun_event /\ lpc' = "wait"
  /\ IF flavour = "select"
     THEN /\ got' = LinuxRead(Head(tunQueue))
          /\ tunQueue' = Tail(tunQueue) /\ UNCHANGED tunDev
     ELSE /\ got' = [got EXCEPT !.tun = Append(@, Buffered(tunDev))]
          /\ tunDev' = [tunDev EXCEPT !.readed = 0] /\ UNCHANGED tunQueue
  /\ UNCHANGED <<flavour, failed, m_disabled, udpQueue, udpIn, tunIn, udpDev, m_udp_event, m_tun_event>>

receive_data ==
  /\ lpc = "dispatch" /\ ~m_tun_event /\ m_udp_event /\ lpc' = "wait"
  /\ IF flavour = "select"
     THEN /\ got' = [got EXCEPT !.udp = Append(@, LinuxReceive(Head(udpQueue)))]
          /\ udpQueue' = Tail(udpQueue) /\ UNCHANGED udpDev
     ELSE /\ got' = IF udpDev.readed = 0 THEN got
                    ELSE [got EXCEPT !.udp = Append(@, Buffered(udpDev))]
          /\ udpDev' = [udpDev EXCEPT !.readed = 0] /\ UNCHANGED udpQueue
  /\ UNCHANGED <<flavour, failed, m_disabled, tunQueue, udpIn, tunIn, tunDev, m_udp_event, m_tun_event>>

Idle ==
  /\ lpc = "dispatch" /\ ~m_tun_event /\ ~m_udp_event /\ lpc' = "wait"
  /\ UNCHANGED <<flavour, failed, m_disabled, udpQueue, tunQueue, udpIn, tunIn, udpDev, tunDev,
                 m_udp_event, m_tun_event, got>>

EventNext ==
  \/ UdpArrives \/ TunArrives \/ SystemFillsUdp \/ SystemFillsTun
  \/ AsioWait \/ LinuxWait \/ read_from_tun \/ receive_data \/ Idle

-----------------------------------------------------------------------------
EventTypeOK ==
  /\ lpc \in {"wait", "dispatch"} /\ m_udp_event \in BOOLEAN /\ m_tun_event \in BOOLEAN
  /\ udpDev.readed \in 0 .. MaxUdp /\ tunDev.readed \in 0 .. MaxTun

Received(r) == r.size # WrappedSize

\* The length of one packet with the bytes and the sender of the next.
Torn(p) == [data |-> p + 1, size |-> p, from |-> p + 1]

InOrder(s) == \A i, j \in DOMAIN s : i < j /\ Received(s[i]) /\ Received(s[j]) => s[i].size < s[j].size

\* What the loop is given, and how it may differ from what was sent.  No packet comes twice
\* or before an older one, and the tun is never read when nothing was read from it (its size
\* would wrap).  A receive that failed on Linux is taken for a datagram of the greatest size,
\* with the bytes of the one given before and no sender (c_udp_wrapper.cpp:49-60); every
\* other packet is whole, except where the system fills the armed buffer while the loop is at
\* work: then the bytes and the sender, both or neither, are those of the packet after the
\* one whose length they are given with (c_udp_wrapper.cpp:128-131).
LoopReadsWhole ==
  /\ InOrder(got.udp) /\ InOrder(got.tun)
  /\ \A i \in DOMAIN got.tun : got.tun[i].size > 0
  /\ \A i \in DOMAIN got.udp : ~Received(got.udp[i]) =>
       flavour = "select" /\ i \in failed.udp /\ got.udp[i] = Stale(got.udp, i)
  /\ \A s \in {got.udp, got.tun} : \A i \in DOMAIN s : Received(s[i]) =>
       s[i] = Whole(s[i].size) \/ (flavour = "overlapped" /\ s[i] = Torn(s[i].size))

\* Packets taken off the queue, whose read does not fail, that are gone.
Lost(bad, dev, taken, g) ==
  { p \in 1 .. taken : p \notin bad /\ p \notin {dev.done, dev.readed} /\ \A i \in DOMAIN g : g[i].size # p }

\* No frame is lost, and with select no datagram.  The asio loop reads the frame when a round
\* completes both reads, and the next datagram then takes the place of the one not read
\* (c_udp_wrapper.cpp:127-131, tunserver.cpp:1393-1451): it loses at most one datagram for
\* every frame it reads.
LossesBounded ==
  /\ Lost(failed.tun, tunDev, tunIn - Len(tunQueue), got.tun) = {}
  /\ Cardinality(Lost(failed.udp, udpDev, udpIn - Len(udpQueue), got.udp))
       <= IF flavour = "select" THEN 0 ELSE Len(got.tun)
=============================================================================
