------------------------------ MODULE TunFrames ------------------------------
(***************************************************************************)
(* What goes through a tun or tap device: IPv6 packets whose addresses are *)
(* kept apart from the rest (Linux, MAC OS), ethernet frames (Windows),    *)
(* and the neighbour advertisements with which the Windows versions answer *)
(* the system's own solicitations.  Checksums are computed on the 16 bit   *)
(* words of the packet.                                                    *)
(***************************************************************************)
EXTENDS Integers, Sequences, SequencesExt

CONSTANTS WordSet,     \* words of which addresses are made
          MaxPayload,  \* bound: octets after the IPv6 header
          MaxAnswers   \* bound: solicitations answered

\* The greatest word.
MaxWord == 65535

ASSUME TunFramesConstants ==
  WordSet \subseteq 0 .. MaxWord /\ MaxPayload \in Nat /\ MaxAnswers \in Nat

VARIABLES system,    \* "linux", "macosx", "windows", or "ndp" for the solicitations
          frame,       \* the octets that the system hands over
          readData, readSrc, readDst, readSize,   \* what reading them gives
          written,   \* what sending this back gives the system
          reply,     \* m_generate_neighbor_advertisement_packet
          answers    \* solicitations answered

frameVars == <<system, frame, readData, readSrc, readDst, readSize, written, reply, answers>>

-----------------------------------------------------------------------------
\* Addresses of 16 octets after the first 8 octets of the header.

HeadLen == 8
AddrLen == 16
EthLen == 14
TunLen == 4    \* the header of a MAC OS tun

Tagged(tag, n) == [i \in 1 .. n |-> <<tag, i>>]
Ipv6(payload) == Tagged("head", HeadLen) \o Tagged("src", AddrLen) \o Tagged("dst", AddrLen)
                   \o Tagged("payload", payload)
LinkHeader(s) ==
  CASE s = "linux" -> <<>> [] s = "macosx" -> Tagged("tun", TunLen) [] s = "windows" -> Tagged("eth", EthLen)

\* send_to_tun_separated_addresses gathers its four buffers behind the header of the system.
send_to_tun_separated_addresses(s, data, src, dst) ==
  LinkHeader(s) \o SubSeq(data, 1, HeadLen) \o src \o dst \o SubSeq(data, HeadLen + 1, Len(data))

\* read_from_tun_separated_addresses: the octets of buffer i of a scattered read, which begins
\* after `from` octets and takes at most n.
Scattered(octets, from, n) == SubSeq(octets, from + 1, from + n)
ReadAt(s) == Len(LinkHeader(s))
ReadData(s, octets) ==
  Scattered(octets, ReadAt(s), HeadLen)
    \o SubSeq(octets, ReadAt(s) + HeadLen + 2 * AddrLen + 1, Len(octets))
ReadSrc(s, octets) == Scattered(octets, ReadAt(s) + HeadLen, AddrLen)
\* Mutant: the second address is read where the first one begins.
MutReadDst(s, octets) == Scattered(octets, ReadAt(s) + HeadLen, AddrLen)

ReadDst(s, octets) == Scattered(octets, ReadAt(s) + HeadLen + AddrLen, AddrLen)

\* The Windows version reads a frame, drops its header, and then copies the parts.
ReadWindows(octets) ==
  LET packet == SubSeq(octets, EthLen + 1, Len(octets))
  IN  [data |-> SubSeq(packet, 1, HeadLen) \o SubSeq(packet, HeadLen + 2 * AddrLen + 1, Len(packet)),
       src |-> SubSeq(packet, HeadLen + 1, HeadLen + AddrLen),
       dst |-> SubSeq(packet, HeadLen + AddrLen + 1, HeadLen + 2 * AddrLen),
       size |-> Len(packet) - 2 * AddrLen]

ReadUnix ==
  /\ system \in {"linux", "macosx"} /\ readSize = 0
  /\ readData' = ReadData(system, frame) /\ readSrc' = ReadSrc(system, frame)
  /\ readDst' = ReadDst(system, frame) /\ readSize' = Len(frame) - 2 * AddrLen - ReadAt(system)
  /\ UNCHANGED <<system, frame, written, reply, answers>>

ReadTap ==
  /\ system = "windows" /\ readSize = 0 /\ Len(frame) >= EthLen + HeadLen + 2 * AddrLen
  /\ LET r == ReadWindows(frame)
     IN  readData' = r.data /\ readSrc' = r.src /\ readDst' = r.dst /\ readSize' = r.size
  /\ UNCHANGED <<system, frame, written, reply, answers>>

\* send_to_tun_separated_addresses is not written for Windows; there the packet is sent whole.
SendBack ==
  /\ system # "ndp" /\ readSize > 0 /\ written = <<>>
  /\ written' = send_to_tun_separated_addresses(system, readData, readSrc, readDst)
  /\ UNCHANGED <<system, frame, readData, readSrc, readDst, readSize, reply, answers>>

-----------------------------------------------------------------------------
\* Neighbour advertisements.

\* An address of eight words: all are f but the last.
Address(f, l) == [i \in 1 .. 8 |-> IF i = 8 THEN l ELSE f]
Mac(w) == <<w, w, w>>

\* The words of the packet template, low octet first.
AdvertType == 136
Flags == 224
Option(kind) == kind + 256
SourceMac == <<252, 0, 0>>

NewReply == [src |-> Address(0, 0), dst |-> Address(0, 0), target |-> Address(0, 0),
             checksum |-> 0, toMac |-> Mac(0), optMac |-> Mac(0)]

\* The ICMPv6 part.
Icmp(p) ==
  <<AdvertType, p.checksum, Flags, 0>> \o p.target \o <<Option(2)>> \o SourceMac
    \o <<Option(1)>> \o p.optMac

Total(words) == FoldLeft(LAMBDA sum, w : sum + w, 0, words)

\* htonl of a number below 256, as its two halves are added.
Htonl(n) == n * 256

\* while (result >> 16) result = (result >> 16) + (result & 0xFFFF)
FoldWords[n \in Nat] == IF n < 65536 THEN n ELSE FoldWords[(n \div 65536) + (n % 65536)]

\* Mutant: the carries are added only once.
MutCarriedOnce(n) == ((n \div 65536) + (n % 65536)) % 65536

Carried(n) == FoldWords[n]

PseudoSum(p) == Total(p.src) + Total(p.dst) + Total(Icmp(p)) + Htonl(40) + Htonl(58)

checksum_ipv6_packet(p) == MaxWord - Carried(PseudoSum(p))

\* The packet is static: fields that are not written keep what the answer before left in them.
generate_neighbor_advertisement_new(mac, src, target) ==
  LET p == [reply EXCEPT !.toMac = mac, !.src = target, !.dst = src, !.target = target,
                         !.optMac = mac, !.checksum = 0]
  IN  [p EXCEPT !.checksum = checksum_ipv6_packet(p)]

\* The version of c_tun_device_windows builds the packet from nothing.
generate_neighbor_advertisement(mac, src, target) ==
  LET p == [NewReply EXCEPT !.toMac = mac, !.src = target, !.dst = src, !.target = target,
                            !.optMac = mac]
  IN  [p EXCEPT !.checksum = checksum_ipv6_packet(p)]

\* A packet whose octet after the headers is 135 is taken for a solicitation.
AnswerSolicitation ==
  /\ system = "ndp" /\ answers < MaxAnswers
  /\ \E mac \in {Mac(w) : w \in WordSet}, f, l, g \in WordSet :
       \/ reply' = generate_neighbor_advertisement_new(mac, Address(f, l), Address(g, g))
       \/ reply' = generate_neighbor_advertisement(mac, Address(f, l), Address(g, g))
  /\ answers' = answers + 1
  /\ UNCHANGED <<system, frame, readData, readSrc, readDst, readSize, written>>

-----------------------------------------------------------------------------

FrameInit ==
  /\ system \in {"linux", "macosx", "windows", "ndp"}
  /\ \E n \in 0 .. MaxPayload :
       frame = IF system = "ndp" THEN <<>> ELSE LinkHeader(system) \o Ipv6(n)
  /\ readData = <<>> /\ readSrc = <<>> /\ readDst = <<>> /\ readSize = 0 /\ written = <<>>
  /\ reply = NewReply /\ answers = 0

FrameNext == ReadUnix \/ ReadTap \/ SendBack \/ AnswerSolicitation

FrameTypeOK ==
  /\ readSize \in 0 .. HeadLen + MaxPayload /\ Len(readData) = readSize /\ answers \in 0 .. MaxAnswers
  /\ reply.checksum \in 0 .. MaxWord

\* A packet that was read in parts and is sent back is the packet that was read, and the reader
\* is told the size of what it got (c_tuntap_linux_obj.cpp:71-110, c_tuntap_windows.cpp:113-128).
\* The receiver of an advertisement finds the sum of its words, with the checksum among
\* them, to be all ones, as often as carries had to be added (c_ndp.cpp:145-210).
FramesAreExact ==
  /\ readSize > 0 => /\ readSrc = Tagged("src", AddrLen) /\ readDst = Tagged("dst", AddrLen)
                     /\ readSize = Len(readData)
  /\ written # <<>> => written = frame
  /\ answers > 0 => FoldWords[PseudoSum(reply)] = MaxWord
=============================================================================
