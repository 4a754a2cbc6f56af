---------------------------- MODULE CryptoTunnel ----------------------------
(***************************************************************************)
(* c_crypto_tunnel between Alice, who starts it, and Bob: the key exchange *)
(* of the IDC keys (KCTab), the exchange of the ephemeral IDe keys over it *)
(* (KCTf), and the texts sent with either.  A packetstart may be lost,     *)
(* delayed and read again.  Last, the tunnels as c_tunserver makes them.   *)
(*                                                                         *)
(* A key K is the set of the secrets that were combined by xor, which are  *)
(* pairwise different.  Ciphertexts, hashes and the sodiumpp boxers are    *)
(* those of an ideal library: a text is read with the key and nonce it was *)
(* written with, and with no other.                                        *)
(***************************************************************************)
EXTENDS Integers, FiniteSets

CONSTANTS Dh,         \* systems with a key agreement: X25519, SIDH
          Asym,       \* systems where the initiator sends passwords: NTRU
          Sign,       \* systems without an exchange: Ed25519, NTRU_sign
          MaxKeys,    \* bound: keys of one system in an ID
          MaxStarts,  \* bound: packetstarts that Alice makes
          MaxText     \* bound: texts sent by one side

ASSUME TunnelConstants == MaxKeys \in Nat /\ MaxStarts \in Nat /\ MaxText \in Nat

VARIABLES IDC,      \* the IDs of both sides when the tunnel is made
          CT,       \* the c_crypto_tunnel of each side
          wire,     \* packetstarts on their way
          boxed,    \* everything that was encrypted: key, nonce, text
          texts,    \* number of texts each side has sent
          nodeCT    \* the tunnels of two c_tunserver

tunnelVars == <<IDC, CT, wire, boxed, texts, nodeCT>>

Side == {"A", "B"}
Systems == Dh \cup Asym \cup Sign
Other(s) == IF s = "A" THEN "B" ELSE "A"

\* A c_multikeys: its keys are numbered in each system; the hash of the public
\* part orders the IDs.
ID(owner, keys, hash) == [owner |-> owner, keys |-> keys, hash |-> hash]

Bigger(a, b) == IF a > b THEN a ELSE b
Shared(a, b) == { sys \in Systems : a.keys[sys] > 0 /\ b.keys[sys] > 0 }

\* The numbers of the two keys of exchange i; who has fewer keys wraps around.
MutKeyPair(a, b, sys, i) == {<<a.owner, i % a.keys[sys]>>, <<b.owner, i % a.keys[sys]>>}

KeyPair(a, b, sys, i) == {<<a.owner, i % a.keys[sys]>>, <<b.owner, i % b.keys[sys]>>}

Exchanges(a, b, sys) == 0 .. Bigger(a.keys[sys], b.keys[sys]) - 1

\* What the initiator of a stream generates for the asymmetric systems, and sends.
Passwords(a, b, stream) ==
  { <<stream, sys, i>> : sys \in Shared(a, b) \cap Asym, i \in 0 .. MaxKeys - 1 }

\* passwords: those generated here, or those received.
calculate_KCT(self, them, passwords) ==
  UNION { { <<sys, KeyPair(self, them, sys, i), {p \in passwords : sys \in Asym /\ p[2] = sys /\ p[3] = i}>> :
              i \in Exchanges(self, them, sys) } : sys \in Shared(self, them) \ Sign }

calculate_nonce_odd(self, them) == self.hash > them.hash

\* create_boxer_with_K: both directions count from zero.
Stream(self, them, passwords) ==
  [K |-> calculate_KCT(self, them, passwords), odd |-> calculate_nonce_odd(self, them),
   out |-> 0, in |-> 0]

Nonce(odd, n) == 2 * n + (IF odd THEN 1 ELSE 0)

\* The next nonce of the boxer, and of the unboxer (its parity is the other one).
BoxNonce(st) == Nonce(st.odd, st.out)
UnboxNonce(st) == Nonce(~st.odd, st.in)

MutNonceStays(n) == n

\* c_stream::box counts up.
NonceAfter(n) == n + 1

NoStream == [K |-> {}, odd |-> FALSE, out |-> -1, in |-> -1]
NoID == ID(<<"none", "none">>, [sys \in Systems |-> 0], 0)
NoCT == [pc |-> "none", ab |-> NoStream, IDe |-> NoID, final |-> NoStream]

TunnelInit ==
  /\ IDC \in [Side -> [owner : {<<o, "IDC">> : o \in Side}, keys : [Systems -> 0 .. MaxKeys], hash : {1, 2}]]
  /\ \A s \in Side : IDC[s].owner[1] = s
  /\ IDC["A"].hash # IDC["B"].hash
  /\ CT = [s \in Side |-> NoCT] /\ wire = {} /\ boxed = {} /\ texts = [s \in Side |-> 0]
  /\ nodeCT = [s \in Side |-> NoStream]

\* c_stream::box, and the nonce that it used is handed out.
Box(st, text) == boxed' = boxed \cup {[K |-> st.K, nonce |-> BoxNonce(st), text |-> text]}

\* The ephemeral ID: one key in each system that both sides have.
Ephemeral(s, hash) ==
  ID(<<s, "IDe">>, [sys \in Systems |-> IF sys \in Shared(IDC["A"], IDC["B"]) THEN 1 ELSE 0], hash)

-----------------------------------------------------------------------------
\* The initiator's constructor: exchange_start.
AliceCtor ==
  /\ CT["A"].pc = "none"
  /\ CT' = [CT EXCEPT !["A"].pc = "ab", !["A"].ab =
              Stream(IDC["A"], IDC["B"], Passwords(IDC["A"], IDC["B"], "ab"))]
  /\ UNCHANGED <<IDC, wire, boxed, texts, nodeCT>>

\* create_IDe throws when there already is one.
create_IDe(hash) ==
  /\ CT["A"].pc = "ab" /\ CT["A"].IDe = NoID
  /\ CT' = [CT EXCEPT !["A"].IDe = Ephemeral("A", hash)]
  /\ UNCHANGED <<IDC, wire, boxed, texts, nodeCT>>

\* Every call of generate_packetstart takes a nonce of the ab stream.
Packetstart(s, kex) ==
  LET p == [to |-> Other(s), kex |-> kex, IDe |-> CT[s].IDe,
            K |-> CT[s].ab.K, nonce |-> BoxNonce(CT[s].ab)]
  IN /\ wire' = wire \cup {p}
     /\ Box(CT[s].ab, <<"IDe", s, CT[s].ab.out>>)
     /\ CT' = [CT EXCEPT ![s].ab.out = NonceAfter(@)]

get_packetstart_ab ==
  /\ CT["A"].pc = "ab" /\ CT["A"].ab.out < MaxStarts
  /\ Packetstart("A", Passwords(IDC["A"], IDC["B"], "ab"))
  /\ UNCHANGED <<IDC, texts, nodeCT>>

\* parse_packetstart_IDe takes the nonce the unboxer expects next.
CanReadIDe(st, p) == p.K = st.K /\ p.nonce = UnboxNonce(st) /\ p.IDe # NoID

\* The respondent's constructor: exchange_done for the IDCs, then it is the
\* initiator of the final stream.  It throws for a packetstart it cannot read.
BobCtor(p, hash) ==
  LET ab == Stream(IDC["B"], IDC["A"], p.kex)
      IDe == Ephemeral("B", hash)
  IN /\ CT["B"].pc = "none" /\ p \in wire /\ p.to = "B"
     /\ CanReadIDe(ab, p) /\ hash # p.IDe.hash
     /\ CT' = [CT EXCEPT !["B"] =
                 [pc |-> "final", ab |-> [ab EXCEPT !.in = 1], IDe |-> IDe,
                  final |-> Stream(IDe, p.IDe, Passwords(IDe, p.IDe, "final"))]]
     /\ UNCHANGED <<IDC, wire, boxed, texts, nodeCT>>

get_packetstart_final ==
  /\ CT["B"].pc = "final" /\ CT["B"].ab.out < MaxStarts
  /\ Packetstart("B", { <<"final", sys, i>> : sys \in Shared(IDC["A"], IDC["B"]) \cap Asym,
                                              i \in 0 .. MaxKeys - 1 })
  /\ UNCHANGED <<IDC, texts, nodeCT>>

create_CTf(p) ==
  /\ CT["A"].pc = "ab" /\ p \in wire /\ p.to = "A" /\ CT["A"].IDe # NoID
  /\ CanReadIDe(CT["A"].ab, p)
  /\ CT' = [CT EXCEPT !["A"].pc = "final", !["A"].ab.in = @ + 1,
                      !["A"].final = Stream(CT["A"].IDe, p.IDe, p.kex)]
  /\ UNCHANGED <<IDC, wire, boxed, texts, nodeCT>>

\* box and box_ab.  The text travels with its nonce; unbox with a given nonce reads
\* it in any order and changes nothing.
SendText(s, stream) ==
  /\ CT[s][stream] # NoStream /\ texts[s] < MaxText
  /\ Box(CT[s][stream], <<"text", s, texts[s]>>)
  /\ texts' = [texts EXCEPT ![s] = @ + 1]
  /\ CT' = [CT EXCEPT ![s][stream].out = NonceAfter(@)]
  /\ UNCHANGED <<IDC, wire, nodeCT>>

\* c_tunserver::add_tunnel_to_pubkey: both nodes construct an initiator, from the
\* key of their session (IDC) and the permanent key (IDI) of the other node.
NodeKeys(kind) == [sys \in Systems |-> IF sys \in (IF kind = "IDC" THEN {"X25519"} ELSE {"Ed25519"}) THEN 1 ELSE 0]

add_tunnel_to_pubkey(s, hash) ==
  /\ nodeCT[s] = NoStream
  /\ LET self == ID(<<s, "IDC">>, NodeKeys("IDC"), hash)
         them == ID(<<Other(s), "IDI">>, NodeKeys("IDI"), 1)
     IN nodeCT' = [nodeCT EXCEPT ![s] = Stream(self, them, {})]
  /\ UNCHANGED <<IDC, CT, wire, boxed, texts>>

\* box_ab for a packet of our TUN.
NodeSend(s) ==
  /\ nodeCT[s] # NoStream /\ nodeCT[s].out < MaxText
  /\ nodeCT' = [nodeCT EXCEPT ![s].out = @ + 1]
  /\ UNCHANGED <<IDC, CT, wire, boxed, texts>>

TunnelNext ==
  \/ AliceCtor \/ get_packetstart_ab \/ get_packetstart_final
  \/ \E hash \in {1, 2} : create_IDe(hash) \/ \E p \in wire : BobCtor(p, hash)
  \/ \E p \in wire : create_CTf(p)
  \/ \E s \in Side, stream \in {"ab", "final"} : SendText(s, stream)

NodeTunnelNext ==
  \E s \in Side : NodeSend(s) \/ \E hash \in {1, 2} : add_tunnel_to_pubkey(s, hash)

-----------------------------------------------------------------------------
TunnelTypeOK ==
  /\ \A s \in Side : CT[s].pc \in {"none", "ab", "final"} /\ texts[s] \in 0 .. MaxText
  /\ \A p \in wire : p.to \in Side /\ p.nonce \in 0 .. 2 * (MaxStarts + MaxText) + 1

\* Both sides compute one key, however many keys each has: Bob can read the first
\* packetstart of Alice that carries her IDe, she can read his first one, and from
\* then on the ends of a stream have one key and write with nonces of other parity.
KeysAgree ==
  /\ \A p \in wire : p.to = "B" /\ p.IDe # NoID /\ p.nonce = Nonce(CT["A"].ab.odd, 0) =>
       CanReadIDe(Stream(IDC["B"], IDC["A"], p.kex), p)
  /\ \A p \in wire : p.to = "A" /\ CT["A"].pc = "ab" /\ p.nonce = Nonce(CT["B"].ab.odd, 0) =>
       CanReadIDe(CT["A"].ab, p)
  /\ \A stream \in {"ab", "final"} :
       CT["A"][stream] # NoStream /\ CT["B"][stream] # NoStream =>
         /\ CT["A"][stream].K = CT["B"][stream].K
         /\ CT["A"][stream].odd # CT["B"][stream].odd

\* Among IDs that share a system with an exchange, no two texts are ever encrypted
\* with one key and one nonce: not by the two sides, not by repeated packetstarts,
\* not by the ab and the final stream.
NonceOnce ==
  Shared(IDC["A"], IDC["B"]) \subseteq Sign
    \/ \A x, y \in boxed : x.K = y.K /\ x.nonce = y.nonce => x.text = y.text

\* What crypto.hpp says of KCTab, of the tunnels that the node makes: the key is the
\* result of an exchange.
KeyIsExchanged == \A s \in Side : nodeCT[s] # NoStream => nodeCT[s].K # {}
=============================================================================
