----------------------------- MODULE Multikeys ------------------------------
(***************************************************************************)
(* c_multikeys_PAIR (a public and a private part, each a list of keys for  *)
(* every crypto system), its cached hash, its serialized form and its      *)
(* files, and the signatures c_multisign.  A key is a number; the private  *)
(* and the public key of a number belong together.                         *)
(***************************************************************************)
EXTENDS Integers, Sequences, FiniteSets

CONSTANTS Pair,       \* c_multikeys_PAIR objects
          KexSystems, \* crypto systems that do not sign
          SignSystems,\* cryptosystem_sign_allowed
          MaxKeyNr    \* bound: keys ever generated

ASSUME MultikeysConstants == MaxKeyNr \in Nat /\ KexSystems \cap SignSystems = {}

VARIABLES m_pub, m_PRV,   \* keys of each Pair
          m_hash_cached,  \* of m_pub; NoHash when dirty
          blob,           \* a saved pair of serialized keys, or none
          load_failed,    \* the Pair whose last load threw
          next_key,
          sig             \* the last signature

multikeysVars == <<m_pub, m_PRV, m_hash_cached, blob, load_failed, next_key, sig>>

AllSystems == KexSystems \cup SignSystems
NoKeys == [sys \in AllSystems |-> <<>>]
NoHash == {<<"dirty", {}>>}
NoSig == [made |-> FALSE, signs |-> NoKeys]

KeySet(seq) == { seq[i] : i \in DOMAIN seq }

MultikeysInit ==
  /\ m_pub = [p \in Pair |-> NoKeys] /\ m_PRV = [p \in Pair |-> NoKeys]
  /\ m_hash_cached = [p \in Pair |-> NoHash]
  /\ blob = [pub |-> <<>>, PRV |-> <<>>] /\ load_failed = {} /\ next_key = 1
  /\ sig = NoSig

\* update_hash: the xor of the keys' fingerprints in each system that is used, so
\* the order of the keys does not matter.
Fingerprint(keys) == { <<sys, KeySet(keys[sys])>> : sys \in { s \in AllSystems : keys[s] # <<>> } }

MutKeepHash(p, n) == UNCHANGED m_hash_cached

\* generate ends with set_hash_dirty, unless it had nothing to do; add_key itself
\* leaves the hash alone.
GeneratedHash(p, n) ==
  IF n = 0 THEN UNCHANGED m_hash_cached ELSE m_hash_cached' = [m_hash_cached EXCEPT ![p] = NoHash]

\* The generators of the crypto systems: each call makes a pair that is new.
NewKeys(count) == [i \in 1 .. count |-> next_key + i - 1]

add_public_and_PRIVATE(p, sys, new) ==
  /\ m_pub' = [m_pub EXCEPT ![p][sys] = @ \o new]
  /\ m_PRV' = [m_PRV EXCEPT ![p][sys] = @ \o new]

generate(p, sys, count) ==
  /\ next_key + count - 1 <= MaxKeyNr
  /\ add_public_and_PRIVATE(p, sys, NewKeys(count))
  /\ next_key' = next_key + count
  /\ GeneratedHash(p, count)
  /\ UNCHANGED <<blob, load_failed, sig>>

get_hash(p) ==
  /\ m_hash_cached[p] = NoHash
  /\ m_hash_cached' = [m_hash_cached EXCEPT ![p] = Fingerprint(m_pub[p])]
  /\ UNCHANGED <<m_pub, m_PRV, blob, load_failed, next_key, sig>>

\* Systems without a key are not written.
serialize_bin(keys) == [sys \in { s \in AllSystems : keys[s] # <<>> } |-> keys[sys]]

\* datastore_save_PRV_and_pub.
datastore_save(p) ==
  /\ blob' = [pub |-> serialize_bin(m_pub[p]), PRV |-> serialize_bin(m_PRV[p])]
  /\ UNCHANGED <<m_pub, m_PRV, m_hash_cached, load_failed, next_key, sig>>

\* load_from_bin puts the lists that are in the data in place of the old ones; of
\* damaged data it has read the systems in read when it throws.
load_from_bin(keys, data, read) ==
  [sys \in AllSystems |-> IF sys \in read \cap DOMAIN data THEN data[sys] ELSE keys[sys]]

\* datastore_load_PRV_and_pub clears and loads each part; clear does not set the
\* hash dirty, the end of load_from_bin does.
datastore_load(p) ==
  /\ m_PRV' = [m_PRV EXCEPT ![p] = load_from_bin(NoKeys, blob.PRV, AllSystems)]
  /\ m_pub' = [m_pub EXCEPT ![p] = load_from_bin(NoKeys, blob.pub, AllSystems)]
  /\ m_hash_cached' = [m_hash_cached EXCEPT ![p] = NoHash]
  /\ load_failed' = load_failed \ {p}
  /\ UNCHANGED <<blob, next_key, sig>>

\* As above with damaged data in the public part.
DamagedLoad(p, read) ==
  /\ m_PRV' = [m_PRV EXCEPT ![p] = load_from_bin(NoKeys, blob.PRV, AllSystems)]
  /\ m_pub' = [m_pub EXCEPT ![p] = load_from_bin(NoKeys, blob.pub, read)]
  /\ load_failed' = load_failed \cup {p}
  /\ UNCHANGED <<m_hash_cached, blob, next_key, sig>>

\* A signature by key k is the number k.  Only the systems that sign have any.
Signatures(PRV) == [sys \in AllSystems |-> IF sys \in SignSystems THEN PRV[sys] ELSE <<>>]

multi_sign(p) ==
  /\ sig' = [made |-> TRUE, signs |-> Signatures(m_PRV[p])]
  /\ UNCHANGED <<m_pub, m_PRV, m_hash_cached, blob, load_failed, next_key>>

MutVerifyFirst(pub) ==
  \A sys \in SignSystems : pub[sys] # <<>> =>
    sig.signs[sys] # <<>> /\ sig.signs[sys][1] = pub[sys][1]

\* The numbers of keys must agree in every system, then every signature is checked.
\* Without keys nothing is.
multi_sign_verify(pub) ==
  /\ \A sys \in AllSystems : Len(sig.signs[sys]) = Len(pub[sys])
  /\ \A sys \in SignSystems : \A i \in DOMAIN pub[sys] : sig.signs[sys][i] = pub[sys][i]

MultikeysNext ==
  \E p \in Pair :
    \/ \E sys \in AllSystems, count \in 0 .. 2 : generate(p, sys, count)
    \/ get_hash(p) \/ datastore_save(p) \/ datastore_load(p) \/ multi_sign(p)
    \/ \E read \in SUBSET AllSystems : DamagedLoad(p, read)

-----------------------------------------------------------------------------
MultikeysTypeOK ==
  /\ \A p \in Pair : \A sys \in AllSystems : KeySet(m_pub[p][sys]) \subseteq 1 .. MaxKeyNr
  /\ next_key \in 1 .. MaxKeyNr + 1 /\ load_failed \subseteq Pair

\* The address of a node is its hash: over generating, saving and loading, in any
\* order, the hash that is handed out is that of the keys the object has now, except
\* in an object whose load threw (clear and add_key leave the cached hash as it is).
HashIsFresh ==
  \A p \in Pair \ load_failed : m_hash_cached[p] \in {NoHash, Fingerprint(m_pub[p])}

\* A signature that an object accepts, at any moment, was made with the same keys in
\* every signing system, none missing and none in addition: not with some of them, and
\* not by a pair that was saved before a key was added.
VerifiedMeansSigned ==
  \A p \in Pair : sig.made /\ multi_sign_verify(m_pub[p]) =>
    \A sys \in SignSystems : m_pub[p][sys] = sig.signs[sys]
=============================================================================
