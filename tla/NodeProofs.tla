----------------------------- MODULE NodeProofs -----------------------------
(***************************************************************************)
(* Proofs about the parts of a node below its routing: how it starts, its  *)
(* tunnels, its keys, its devices and its statistics.  MCNode takes a      *)
(* behaviour from one part and leaves the variables of the others alone,   *)
(* so every behaviour of MCSpec is one of each part.  What is proved of    *)
(* the formats in CodecsProofs is carried over to it.                      *)
(***************************************************************************)
EXTENDS MCNode, CodecsProofs, FiniteSetTheorems, TLAPS

StartSpec == StartInit /\ [][StartNext]_startVars
TunnelSpec == TunnelInit /\ [][TunnelNext]_tunnelVars
KeysSpec == MultikeysInit /\ [][MultikeysNext]_multikeysVars
DeviceSpec == TunDeviceInit /\ [][TunDeviceNext]_tunDeviceVars
EventSpec == EventInit /\ [][EventNext]_eventVars
DebugSpec == DebugInit /\ [][DebugNext]_debugVars

\* The behaviours that MCNode checks are behaviours of the parts.
LEMMA PartsOfNode ==
  MCSpec => /\ StartSpec /\ TunnelSpec /\ KeysSpec /\ DeviceSpec /\ EventSpec /\ DebugSpec
            /\ SerialSpec /\ NumberSpec /\ FrameSpec /\ ReferenceSpec /\ [](part \in Parts)
<1> USE DEF MCNext, nodeVars, Start, Tunnel, Keys, Device, Events, Debug, Serial, Number, Frame, Reference
<1>1. MCInit => /\ StartInit /\ TunnelInit /\ MultikeysInit /\ TunDeviceInit /\ EventInit /\ DebugInit
                /\ SerialInit /\ NumberInit /\ FrameInit /\ ReferenceInit /\ part \in Parts
  BY DEF MCInit
<1>2. [MCNext]_nodeVars => [StartNext]_startVars
  OBVIOUS
<1>3. [MCNext]_nodeVars => [TunnelNext]_tunnelVars
  OBVIOUS
<1>4. [MCNext]_nodeVars => [MultikeysNext]_multikeysVars
  OBVIOUS
<1>5. [MCNext]_nodeVars => [TunDeviceNext]_tunDeviceVars
  OBVIOUS
<1>6. [MCNext]_nodeVars => [EventNext]_eventVars
  OBVIOUS
<1>7. [MCNext]_nodeVars => [DebugNext]_debugVars
  OBVIOUS
<1>8. [MCNext]_nodeVars => [SerialNext]_serialVars
  OBVIOUS
<1>9. [MCNext]_nodeVars => [NumberNext]_numberVars
  OBVIOUS
<1>10. [MCNext]_nodeVars => [FrameNext]_frameVars
  OBVIOUS
<1>11. [MCNext]_nodeVars => [ReferenceNext]_referenceVars
  OBVIOUS
<1>12. part \in Parts /\ [MCNext]_nodeVars => (part \in Parts)'
  OBVIOUS
<1> HIDE DEF MCNext, nodeVars, Start, Tunnel, Keys, Device, Events, Debug, Serial, Number, Frame, Reference
<1> QED
  BY <1>1, <1>2, <1>3, <1>4, <1>5, <1>6, <1>7, <1>8, <1>9, <1>10, <1>11, <1>12, PTL
     DEF MCSpec, StartSpec, TunnelSpec, KeysSpec, DeviceSpec, EventSpec, DebugSpec,
         SerialSpec, NumberSpec, FrameSpec, ReferenceSpec

-----------------------------------------------------------------------------
\* The start of the program.

\* From configure_mykey on the process has an identity.
Keyed == {"peers", "prepare_socket", "after_tuntap", "before_mainloop", "verify", "loop"}

KeyFiles == [PRV : Int, pub : Int, IDI : Int]

StartShape ==
  /\ home_dir \in Homes /\ generated \in Nat
  /\ files \in [Homes -> KeyFiles] /\ firstId \in [Homes -> Nat]

\* The identity is what the files of the home directory hold.
IdentityIsStored ==
  startPc \in Keyed =>
    /\ identity.PRV = Here.PRV /\ identity.pub = Here.pub
    /\ Here.PRV = Here.pub /\ Here.pub > 0

\* What is written was empty.
WritesEmpty ==
  /\ startPc = "write_PRV" => Here.PRV = Empty
  /\ startPc = "write_pub" => Here.pub = Empty

\* The files of a node that ran are still those it ran with.
FilesKept ==
  \A h \in Homes : firstId[h] # 0 /\ h \notin granted =>
    files[h].PRV = firstId[h] /\ files[h].pub = firstId[h]

StartInv == StartShape /\ IdentityIsStored /\ WritesEmpty /\ FilesKept /\ LoopIsUnprivileged

\* A step of the start that writes no file: whether it leaves a process with an identity,
\* and with what rights it enters the main loop.
Leaves ==
  /\ startPc' \notin {"write_PRV", "write_pub"} /\ cmdline' = cmdline
  /\ home_dir' \in {home_dir, "env", "user"}
  /\ startPc' \in Keyed =>
       /\ home_dir' = home_dir
       /\ \/ startPc \in Keyed /\ identity' = identity
          \/ /\ identity' = [PRV |-> Here.PRV, pub |-> Here.pub]
             /\ Here.PRV = Here.pub /\ Here.pub > Empty
  /\ startPc' = "loop" => \/ cmdline.newloop
                          \/ /\ creds' = creds /\ ~have_any_cap
                             /\ ~SuidBinary /\ ~do_we_need_to_change_uid_or_gid

\* A process that ends does.
LEMMA EndedLeaves ==
  ASSUME startPc' = "ended", cmdline' = cmdline, home_dir' = home_dir
  PROVE  Leaves
  BY DEF Leaves, Keyed

\* Every step of the start that writes no file is such a step.
LEMMA QuietLeaves == ASSUME Quiet PROVE Leaves
<1> USE DEF Goto, Terminate, Throws, Aborts, MainReturns, StdException, ErrorExit
<1>1. CASE drop_root
  <2>1. cmdline' = cmdline /\ startPc' \in {"ended", "drop_priv"} /\ home_dir' \in {home_dir, "env", "user"}
    BY <1>1 DEF drop_root, drop_root_from_sudo
  <2> QED
    BY <2>1 DEF Leaves, Keyed
<1>2. CASE drop_privileges_on_startup
  <2>1. cmdline' = cmdline /\ home_dir' = home_dir /\ startPc' \in {"ended", "init"}
    BY <1>2 DEF drop_privileges_on_startup, ApplyCaps, CapngFails
  <2> QED
    BY <2>1 DEF Leaves, Keyed
<1>3. CASE main_early
  <2>1. cmdline' = cmdline /\ home_dir' = home_dir /\ startPc' \in {"ended", "drop_root"}
    BY <1>3 DEF main_early
  <2> QED
    BY <2>1 DEF Leaves, Keyed
<1>4. CASE init_library_sodium
  <2>1. cmdline' = cmdline /\ home_dir' = home_dir /\ startPc' \in {"ended", "options"}
    BY <1>4 DEF init_library_sodium
  <2> QED
    BY <2>1 DEF Leaves, Keyed
<1>5. CASE options_commands_run
  <2>1. cmdline' = cmdline /\ home_dir' = home_dir /\ startPc' \in {"ended", "main_execution"}
    BY <1>5 DEF options_commands_run
  <2> QED
    BY <2>1 DEF Leaves, Keyed
<1>6. CASE main_execution
  <2>1. cmdline' = cmdline /\ home_dir' = home_dir /\ startPc' \in {"ended", "generate", "load_my_keys"}
    BY <1>6 DEF main_execution
  <2> QED
    BY <2>1 DEF Leaves, Keyed
<1>7. CASE programtask_load_my_keys
  <2>1. /\ cmdline' = cmdline /\ home_dir' = home_dir
        /\ startPc' \in {"ended", "generate", "configure_mykey"}
    BY <1>7 DEF programtask_load_my_keys
  <2> QED
    BY <2>1 DEF Leaves, Keyed
<1>8. CASE ConfigureStep
  <2>1. cmdline' = cmdline /\ home_dir' = home_dir
    BY <1>8 DEF ConfigureStep
  <2>2. CASE load_string("IDI") /\ KeysReadable /\ Here.PRV = Here.pub
    <3>1. identity' = [PRV |-> Here.PRV, pub |-> Here.pub] /\ startPc' = "peers"
      BY <1>8, <2>2 DEF ConfigureStep, configure_mykey, Configured
    <3> QED
      BY <2>1, <2>2, <3>1 DEF Leaves, Keyed, KeysReadable, load_string
  <2>3. CASE ~(load_string("IDI") /\ KeysReadable /\ Here.PRV = Here.pub)
    <3>1. startPc' = "ended"
      BY <1>8, <2>3 DEF ConfigureStep, configure_mykey
    <3> QED
      BY <2>1, <3>1, EndedLeaves
  <2> QED
    BY <2>2, <2>3
<1>9. CASE use_options_peerref
  <2>1. /\ cmdline' = cmdline /\ home_dir' = home_dir /\ identity' = identity
        /\ startPc = "peers" /\ startPc' \in {"ended", "prepare_socket"}
    BY <1>9 DEF use_options_peerref
  <2> QED
    BY <2>1 DEF Leaves, Keyed
<1>10. CASE prepare_socket
  <2>1. /\ cmdline' = cmdline /\ home_dir' = home_dir /\ identity' = identity
        /\ startPc = "prepare_socket" /\ startPc' \in {"ended", "after_tuntap"}
    BY <1>10 DEF prepare_socket
  <2> QED
    BY <2>1 DEF Leaves, Keyed
<1>11. CASE run
  <2>0. cmdline' = cmdline /\ home_dir' = home_dir /\ identity' = identity
    BY <1>11 DEF run
  <2>1. CASE startPc = "after_tuntap"
    <3>1. startPc' \in {"ended", "before_mainloop"}
      BY <1>11, <2>1 DEF run, drop_privileges_after_tuntap, ApplyCaps, CapngFails
    <3> QED
      BY <2>0, <2>1, <3>1 DEF Leaves, Keyed
  <2>2. CASE startPc = "before_mainloop"
    <3>1. startPc' \in {"ended", "verify", "loop"} /\ (startPc' = "loop" => cmdline.newloop)
      BY <1>11, <2>2 DEF run, drop_privileges_before_mainloop, ApplyCaps, CapngFails
    <3> QED
      BY <2>0, <2>2, <3>1 DEF Leaves, Keyed
  <2>3. CASE startPc = "verify"
    <3>1. /\ creds' = creds /\ startPc' \in {"ended", "loop"}
          /\ startPc' = "loop" => ~have_any_cap /\ ~SuidBinary /\ ~do_we_need_to_change_uid_or_gid
      BY <1>11, <2>3 DEF run, verify_privileges_are_as_for_mainloop
    <3> QED
      BY <2>0, <2>3, <3>1 DEF Leaves, Keyed
  <2> QED
    BY <1>11, <2>1, <2>2, <2>3 DEF run
<1> QED
  BY <1>1, <1>2, <1>3, <1>4, <1>5, <1>6, <1>7, <1>8, <1>9, <1>10, <1>11 DEF Quiet

\* Writing one key file of the home directory keeps the shape of all files.
LEMMA FileWritten ==
  ASSUME StartShape, NEW f \in {"PRV", "pub", "IDI"}, NEW v \in Int,
         files' = [files EXCEPT ![home_dir][f] = v]
  PROVE  /\ files' \in [Homes -> KeyFiles]
         /\ files'[home_dir][f] = v
         /\ \A g \in {"PRV", "pub", "IDI"} : g # f => files'[home_dir][g] = files[home_dir][g]
         /\ \A h \in Homes : h # home_dir => files'[h] = files[h]
<1>1. home_dir \in Homes /\ files[home_dir] \in KeyFiles
  BY DEF StartShape
<1>2. CASE f = "PRV"
  BY <1>1, <1>2 DEF StartShape, KeyFiles
<1>3. CASE f = "pub"
  BY <1>1, <1>3 DEF StartShape, KeyFiles
<1>4. CASE f = "IDI"
  BY <1>1, <1>4 DEF StartShape, KeyFiles
<1> QED
  BY <1>2, <1>3, <1>4

\* Every step keeps the invariant of the start.
LEMMA StartStep == StartInv /\ [StartNext]_startVars => StartInv'
<1> SUFFICES ASSUME StartInv, [StartNext]_startVars PROVE StartInv'
  OBVIOUS
<1>0. StartShape /\ IdentityIsStored /\ WritesEmpty /\ FilesKept /\ LoopIsUnprivileged
  BY DEF StartInv
<1>1. CASE UNCHANGED startVars
  BY <1>0, <1>1 DEF startVars, procVars, StartInv, StartShape, IdentityIsStored, WritesEmpty, FilesKept,
     LoopIsUnprivileged, Here, have_any_cap, read_process_caps
<1>2. CASE StartProcess \/ Gone
  <2>1. /\ startPc' \in {"early", "none"} /\ home_dir' = "env" /\ files' = files
        /\ generated' = generated /\ granted' = granted /\ firstId' = firstId
    BY <1>2 DEF StartProcess, Gone
  <2>2. StartShape'
    BY <1>0, <2>1, StartConstants DEF StartShape
  <2> QED
    BY <1>0, <2>1, <2>2 DEF StartInv, IdentityIsStored, WritesEmpty, FilesKept, LoopIsUnprivileged, Keyed
<1>3. CASE Quiet
  <2>1. /\ files' = files /\ generated' = generated /\ granted' = granted /\ firstId' = firstId
    BY <1>3 DEF Quiet
  <2>2. Leaves
    BY <1>3, QuietLeaves
  <2>3. StartShape'
    BY <1>0, <2>1, <2>2, StartConstants DEF StartShape, Leaves
  <2>4. IdentityIsStored'
    BY <1>0, <2>1, <2>2 DEF IdentityIsStored, Leaves, Here, Empty
  <2>5. LoopIsUnprivileged'
    <3> SUFFICES ASSUME startPc' = "loop", ~cmdline'.newloop
                 PROVE  (~have_any_cap)' /\ creds'.uid # 0 /\ creds'.euid # 0
      BY DEF LoopIsUnprivileged
    <3>1. creds' = creds /\ ~have_any_cap /\ ~do_we_need_to_change_uid_or_gid
      BY <2>2 DEF Leaves
    <3> QED
      BY <3>1 DEF have_any_cap, read_process_caps, do_we_need_to_change_uid_or_gid
  <2>6. WritesEmpty' /\ FilesKept'
    BY <1>0, <2>1, <2>2 DEF WritesEmpty, FilesKept, Leaves
  <2> QED
    BY <2>3, <2>4, <2>5, <2>6 DEF StartInv
<1>4. CASE create_keys
  <2>1. /\ startPc' = "prepare_PRV" /\ home_dir' = home_dir /\ files' = files
        /\ generated' = generated + 1 /\ granted' = granted /\ firstId' = firstId
    BY <1>4 DEF create_keys, Goto
  <2>2. StartShape'
    BY <1>0, <2>1 DEF StartShape
  <2> QED
    BY <1>0, <2>1, <2>2 DEF StartInv, IdentityIsStored, WritesEmpty, FilesKept, LoopIsUnprivileged, Keyed
<1>5. ASSUME NEW file \in {"PRV", "pub"}, SaveKey(file) PROVE StartInv'
  <2>0. home_dir' = home_dir /\ generated' = generated /\ firstId' = firstId
    BY <1>5 DEF SaveKey
  <2>1. CASE /\ startPc = PrepareAt[file] /\ Truncated(file) /\ startPc' = WriteAt[file]
             /\ \/ MayWrite(file) /\ granted' = granted
                \/ granted' = granted \cup {home_dir}
    <3>1. files' = [files EXCEPT ![home_dir][file] = Empty] /\ Empty \in Int
      BY <2>1 DEF Truncated, Empty
    <3>2. /\ files' \in [Homes -> KeyFiles] /\ files'[home_dir][file] = Empty
          /\ \A h \in Homes : h # home_dir => files'[h] = files[h]
      BY <1>0, <3>1, FileWritten
    <3>3. startPc' \notin Keyed /\ startPc' # "loop"
      BY <2>1 DEF WriteAt, Keyed
    <3>4. WritesEmpty'
      BY <2>0, <2>1, <3>2 DEF WritesEmpty, WriteAt, Here, Empty
    <3>5. FilesKept'
      <4> SUFFICES ASSUME NEW h \in Homes, firstId[h] # 0, h \notin granted'
                   PROVE  files'[h].PRV = firstId[h] /\ files'[h].pub = firstId[h]
        BY <2>0 DEF FilesKept
      <4>1. h \notin granted /\ firstId[h] \in Nat
        BY <1>0, <2>1 DEF StartShape
      <4>2. files[h].PRV = firstId[h] /\ files[h].pub = firstId[h]
        BY <1>0, <4>1 DEF FilesKept
      <4>3. h # home_dir
        BY <2>1, <4>1, <4>2 DEF MayWrite, Here, Absent, Empty
      <4> QED
        BY <3>2, <4>2, <4>3
    <3> QED
      BY <1>0, <2>0, <3>2, <3>3, <3>4, <3>5 DEF StartInv, StartShape, IdentityIsStored, LoopIsUnprivileged
  <2>2. CASE AfterSave(file) /\ files' = files /\ granted' = granted
    <3>1. startPc' \in {"ended", "prepare_pub", "prepare_IDI"}
      BY <2>2 DEF AfterSave, Goto, MainReturns, Terminate
    <3> QED
      BY <1>0, <2>0, <2>2, <3>1 DEF StartInv, StartShape, IdentityIsStored, WritesEmpty, FilesKept,
         LoopIsUnprivileged, Keyed
  <2>3. CASE /\ startPc = WriteAt[file] /\ files' = [files EXCEPT ![home_dir][file] = generated]
             /\ AfterSave(file) /\ granted' = granted
    <3>1. /\ files' \in [Homes -> KeyFiles]
          /\ \A h \in Homes : h # home_dir => files'[h] = files[h]
      <4>1. generated \in Int
        BY <1>0 DEF StartShape
      <4> QED
        BY <1>0, <2>3, <4>1, FileWritten
    <3>2. startPc' \in {"ended", "prepare_pub", "prepare_IDI"}
      BY <2>3 DEF AfterSave, Goto, MainReturns, Terminate
    <3>3. Here.PRV = Empty \/ Here.pub = Empty
      BY <1>0, <2>3 DEF WritesEmpty, WriteAt
    <3>4. FilesKept'
      <4> SUFFICES ASSUME NEW h \in Homes, firstId[h] # 0, h \notin granted
                   PROVE  files'[h].PRV = firstId[h] /\ files'[h].pub = firstId[h]
        BY <2>0, <2>3 DEF FilesKept
      <4>1. files[h].PRV = firstId[h] /\ files[h].pub = firstId[h]
        BY <1>0 DEF FilesKept
      <4>2. h # home_dir
        BY <3>3, <4>1 DEF Here, Empty
      <4> QED
        BY <3>1, <4>1, <4>2
    <3> QED
      BY <1>0, <2>0, <3>1, <3>2, <3>4 DEF StartInv, StartShape, IdentityIsStored, WritesEmpty,
         LoopIsUnprivileged, Keyed
  <2> QED
    BY <1>5, <2>1, <2>2, <2>3 DEF SaveKey, Goto
<1>6. CASE program_action_set_IDI
  <2>0. /\ home_dir' = home_dir /\ generated' = generated /\ firstId' = firstId /\ granted' = granted
        /\ startPc' \in {"write_IDI", "configure_mykey"}
        /\ \E x \in Int : files' = [files EXCEPT ![home_dir].IDI = x]
    BY <1>6 DEF program_action_set_IDI, Truncated, Goto, Empty
  <2>1. /\ files' \in [Homes -> KeyFiles]
        /\ \A h \in Homes : files'[h].PRV = files[h].PRV /\ files'[h].pub = files[h].pub
    <3>1. PICK x \in Int : files' = [files EXCEPT ![home_dir]["IDI"] = x]
      BY <2>0
    <3>2. /\ files' \in [Homes -> KeyFiles]
          /\ files'[home_dir]["PRV"] = files[home_dir]["PRV"]
          /\ files'[home_dir]["pub"] = files[home_dir]["pub"]
          /\ \A h \in Homes : h # home_dir => files'[h] = files[h]
      BY <1>0, <3>1, FileWritten
    <3> QED
      BY <3>2
  <2> QED
    BY <1>0, <2>0, <2>1 DEF StartInv, StartShape, IdentityIsStored, WritesEmpty, FilesKept,
       LoopIsUnprivileged, Keyed
<1>7. CASE LoopStep
  <2>0. /\ startPc = "loop" /\ startPc' = "ended" /\ home_dir' = home_dir /\ generated' = generated
        /\ files' = files /\ granted' = granted
        /\ firstId' = IF firstId[home_dir] = 0 THEN [firstId EXCEPT ![home_dir] = identity.pub] ELSE firstId
    BY <1>7 DEF LoopStep, MainReturns, Terminate
  <2>1. /\ identity.pub = files[home_dir].pub /\ files[home_dir].PRV = files[home_dir].pub
        /\ files[home_dir].pub > 0 /\ files[home_dir].pub \in Int /\ home_dir \in Homes
    BY <1>0, <2>0 DEF IdentityIsStored, Keyed, Here, StartShape, KeyFiles
  <2>2. firstId' \in [Homes -> Nat]
    BY <1>0, <2>0, <2>1 DEF StartShape
  <2>3. FilesKept'
    BY <1>0, <2>0, <2>1 DEF FilesKept, StartShape
  <2> QED
    BY <1>0, <2>0, <2>2, <2>3 DEF StartInv, StartShape, IdentityIsStored, WritesEmpty, LoopIsUnprivileged, Keyed
<1> QED
  BY <1>1, <1>2, <1>3, <1>4, <1>5, <1>6, <1>7 DEF StartNext

\* What holds in every state of a start.
LEMMA StartInvariant == StartSpec => []StartInv
<1>1. StartInit => StartInv
  BY StartConstants DEF StartInit, StartInv, StartShape, IdentityIsStored, WritesEmpty, FilesKept, LoopIsUnprivileged,
     Keyed, KeyFiles, Absent
<1> QED
  BY <1>1, StartStep, PTL DEF StartSpec

\* The main loop of the tunserver runs without capabilities and without root's user id,
\* however the program was started and whatever failed on the way (drop_root,
\* drop_privileges_*, verify_privileges_are_as_for_mainloop).
THEOREM LoopUnprivileged == MCSpec => []LoopIsUnprivileged
<1>1. StartInv => LoopIsUnprivileged
  BY DEF StartInv
<1> QED
  BY <1>1, StartInvariant, PartsOfNode, PTL

\* A node that ran with an identity runs with it ever after, over any number of starts and
\* of kills between the steps that make and save the keys, unless the user allowed an
\* overwrite; its two keys belong together (programtask_load_my_keys, save_string,
\* configure_mykey).
THEOREM IdentityStays == MCSpec => []IdentityKept
<1>1. StartInv => IdentityKept
  BY DEF StartInv, IdentityKept, IdentityIsStored, FilesKept, Keyed, Here, StartShape
<1> QED
  BY <1>1, StartInvariant, PartsOfNode, PTL

-----------------------------------------------------------------------------
\* Keys and signatures.

KeyLists == [AllSystems -> Seq(Int)]

\* What of a serialized pair can be loaded is lists of keys.
Loadable(data) == \A sys \in AllSystems \cap DOMAIN data : data[sys] \in Seq(Int)

KeysInv ==
  /\ next_key \in Int
  /\ m_pub \in [Pair -> KeyLists] /\ m_PRV \in [Pair -> KeyLists]
  /\ m_hash_cached = [p \in Pair |-> m_hash_cached[p]]
  /\ Loadable(blob.pub) /\ Loadable(blob.PRV)
  /\ sig.signs \in KeyLists
  /\ HashIsFresh

\* What is loaded in place of no keys is lists of keys.
LEMMA LoadedKeys ==
  ASSUME NEW data, Loadable(data), NEW read
  PROVE  load_from_bin(NoKeys, data, read) \in KeyLists
  BY DEF load_from_bin, NoKeys, KeyLists, Loadable

\* What was saved can be loaded.
LEMMA SavedKeys ==
  ASSUME NEW keys \in KeyLists
  PROVE  Loadable(serialize_bin(keys))
  BY DEF serialize_bin, Loadable, KeyLists

\* Keys are added behind those that are there; generating none changes nothing.
LEMMA AddedKeys ==
  ASSUME NEW l \in Seq(Int), NEW count \in 0 .. 2, next_key \in Int
  PROVE  l \o NewKeys(count) \in Seq(Int) /\ (count = 0 => l \o NewKeys(count) = l)
<1> DEFINE new == NewKeys(count)
<1>1. new \in Seq(Int) /\ Len(new) = count
  BY DEF NewKeys
<1> HIDE DEF new
<1>2. l \o new \in Seq(Int) /\ (count = 0 => l \o new = l)
  BY <1>1
<1> QED
  BY <1>2 DEF new

\* Every operation of a pair of keys keeps the invariant.
LEMMA KeysStep == KeysInv /\ [MultikeysNext]_multikeysVars => KeysInv'
<1> SUFFICES ASSUME KeysInv, [MultikeysNext]_multikeysVars PROVE KeysInv'
  OBVIOUS
<1> USE DEF KeysInv
<1>1. CASE UNCHANGED multikeysVars
  BY <1>1 DEF multikeysVars, HashIsFresh
<1>2. ASSUME NEW p \in Pair, NEW sys \in AllSystems, NEW count \in 0 .. 2, generate(p, sys, count)
      PROVE  KeysInv'
  <2>1. /\ m_pub' = [m_pub EXCEPT ![p][sys] = @ \o NewKeys(count)]
        /\ m_PRV' = [m_PRV EXCEPT ![p][sys] = @ \o NewKeys(count)]
        /\ next_key' = next_key + count /\ GeneratedHash(p, count)
        /\ blob' = blob /\ load_failed' = load_failed /\ sig' = sig
    BY <1>2 DEF generate, add_public_and_PRIVATE
  <2> DEFINE x == m_pub[p][sys] \o NewKeys(count)
             y == m_PRV[p][sys] \o NewKeys(count)
  <2>a. m_pub[p][sys] \in Seq(Int) /\ m_PRV[p][sys] \in Seq(Int)
    BY DEF KeyLists
  <2>b. x \in Seq(Int) /\ y \in Seq(Int) /\ (count = 0 => x = m_pub[p][sys])
    BY <2>a, AddedKeys
  <2>c. m_pub' = [m_pub EXCEPT ![p][sys] = x] /\ m_PRV' = [m_PRV EXCEPT ![p][sys] = y]
    BY <2>1
  <2> HIDE DEF x, y
  <2> DEFINE keys == [m_pub[p] EXCEPT ![sys] = x]
  <2>d. keys \in KeyLists /\ (count = 0 => keys = m_pub[p])
    BY <2>b DEF KeyLists
  <2>e. m_pub' = [m_pub EXCEPT ![p] = keys]
    BY <2>c
  <2> HIDE DEF keys
  <2>2. m_PRV' \in [Pair -> KeyLists]
    BY <2>b, <2>c DEF KeyLists
  <2>3. m_pub' \in [Pair -> KeyLists] /\ \A q \in Pair : q # p \/ count = 0 => m_pub'[q] = m_pub[q]
    BY <2>d, <2>e
  <2>4. /\ m_hash_cached' = [q \in Pair |-> m_hash_cached'[q]]
        /\ HashIsFresh'
    <3>1. CASE count = 0
      BY <2>1, <2>3, <3>1 DEF GeneratedHash, HashIsFresh
    <3>2. CASE count # 0
      <4>1. m_hash_cached' = [m_hash_cached EXCEPT ![p] = NoHash]
        BY <2>1, <3>2 DEF GeneratedHash
      <4> QED
        BY <2>1, <2>3, <4>1 DEF HashIsFresh
    <3> QED
      BY <3>1, <3>2
  <2> QED
    BY <2>1, <2>2, <2>3, <2>4
<1>3. ASSUME NEW p \in Pair, get_hash(p) PROVE KeysInv'
  BY <1>3 DEF get_hash, HashIsFresh
<1>4. ASSUME NEW p \in Pair, datastore_save(p) PROVE KeysInv'
  <2>1. /\ blob' = [pub |-> serialize_bin(m_pub[p]), PRV |-> serialize_bin(m_PRV[p])]
        /\ m_pub' = m_pub /\ m_PRV' = m_PRV /\ m_hash_cached' = m_hash_cached
        /\ load_failed' = load_failed /\ next_key' = next_key /\ sig' = sig
    BY <1>4 DEF datastore_save
  <2>2. Loadable(blob'.pub) /\ Loadable(blob'.PRV)
    BY <2>1, SavedKeys
  <2> QED
    BY <2>1, <2>2 DEF HashIsFresh
<1>5. ASSUME NEW p \in Pair, NEW read,
             m_PRV' = [m_PRV EXCEPT ![p] = load_from_bin(NoKeys, blob.PRV, AllSystems)],
             m_pub' = [m_pub EXCEPT ![p] = load_from_bin(NoKeys, blob.pub, read)]
      PROVE  /\ m_pub' \in [Pair -> KeyLists] /\ m_PRV' \in [Pair -> KeyLists]
             /\ \A q \in Pair : q # p => m_pub'[q] = m_pub[q]
  <2>1. /\ load_from_bin(NoKeys, blob.PRV, AllSystems) \in KeyLists
        /\ load_from_bin(NoKeys, blob.pub, read) \in KeyLists
    BY LoadedKeys
  <2> QED
    BY <1>5, <2>1
<1>6. ASSUME NEW p \in Pair, datastore_load(p) PROVE KeysInv'
  <2>1. /\ m_hash_cached' = [m_hash_cached EXCEPT ![p] = NoHash]
        /\ load_failed' = load_failed \ {p}
        /\ blob' = blob /\ next_key' = next_key /\ sig' = sig
    BY <1>6 DEF datastore_load
  <2>2. /\ m_pub' \in [Pair -> KeyLists] /\ m_PRV' \in [Pair -> KeyLists]
        /\ \A q \in Pair : q # p => m_pub'[q] = m_pub[q]
    BY <1>5, <1>6 DEF datastore_load
  <2>3. HashIsFresh'
    BY <2>1, <2>2 DEF HashIsFresh
  <2> QED
    BY <2>1, <2>2, <2>3
<1>7. ASSUME NEW p \in Pair, NEW read, DamagedLoad(p, read) PROVE KeysInv'
  <2>1. /\ m_hash_cached' = m_hash_cached
        /\ load_failed' = load_failed \cup {p}
        /\ blob' = blob /\ next_key' = next_key /\ sig' = sig
    BY <1>7 DEF DamagedLoad
  <2>2. /\ m_pub' \in [Pair -> KeyLists] /\ m_PRV' \in [Pair -> KeyLists]
        /\ \A q \in Pair : q # p => m_pub'[q] = m_pub[q]
    BY <1>5, <1>7 DEF DamagedLoad
  <2>3. HashIsFresh'
    BY <2>1, <2>2 DEF HashIsFresh
  <2> QED
    BY <2>1, <2>2, <2>3
<1>8. ASSUME NEW p \in Pair, multi_sign(p) PROVE KeysInv'
  <2>1. /\ sig' = [made |-> TRUE, signs |-> Signatures(m_PRV[p])]
        /\ m_pub' = m_pub /\ m_PRV' = m_PRV /\ m_hash_cached' = m_hash_cached
        /\ load_failed' = load_failed /\ next_key' = next_key /\ blob' = blob
    BY <1>8 DEF multi_sign
  <2>2. Signatures(m_PRV[p]) \in KeyLists
    BY DEF Signatures, KeyLists
  <2> QED
    BY <2>1, <2>2 DEF HashIsFresh
<1> QED
  BY <1>1, <1>2, <1>3, <1>4, <1>6, <1>7, <1>8 DEF MultikeysNext

\* The hash that is a node's address is that of the keys it has, over every order of
\* generating, saving and loading keys; a signature that is accepted was made with those
\* very keys (get_hash, set_hash_dirty, multi_sign_verify in multikeys.cpp).
THEOREM SignaturesSound == MCSpec => []SignaturesAreSound
<1>1. MultikeysInit => KeysInv
  <2> SUFFICES ASSUME MultikeysInit PROVE KeysInv
    OBVIOUS
  <2>1. NoKeys \in KeyLists
    BY DEF NoKeys, KeyLists
  <2>2. blob.pub = <<>> /\ blob.PRV = <<>> /\ DOMAIN <<>> = {}
    BY DEF MultikeysInit
  <2>3. Loadable(blob.pub) /\ Loadable(blob.PRV)
    BY <2>2 DEF Loadable
  <2>4. sig.signs = NoKeys
    BY DEF MultikeysInit, NoSig
  <2> QED
    BY <2>1, <2>3, <2>4 DEF MultikeysInit, KeysInv, HashIsFresh
<1>2. KeysInv => SignaturesAreSound
  <2> SUFFICES ASSUME KeysInv, NEW p \in Pair, multi_sign_verify(m_pub[p]), NEW sys \in SignSystems
               PROVE  m_pub[p][sys] = sig.signs[sys]
    BY DEF SignaturesAreSound, KeysInv, VerifiedMeansSigned
  <2>1. sys \in AllSystems
    BY DEF AllSystems
  <2>2. m_pub[p][sys] \in Seq(Int) /\ sig.signs[sys] \in Seq(Int)
    BY <2>1 DEF KeysInv, KeyLists
  <2>3. /\ Len(sig.signs[sys]) = Len(m_pub[p][sys])
        /\ \A i \in DOMAIN m_pub[p][sys] : sig.signs[sys][i] = m_pub[p][sys][i]
    BY <2>1 DEF multi_sign_verify
  <2> QED
    BY <2>2, <2>3
<1> QED
  BY <1>1, <1>2, KeysStep, PartsOfNode, PTL DEF KeysSpec

-----------------------------------------------------------------------------
\* The tunnels.

\* An ID has a number of keys in every system.
HasKeys(x) == x.keys \in [Systems -> Nat]

\* The two ends of an exchange compute one key, whoever of them is first.
LEMMA SharedSymmetric ==
  ASSUME NEW x, NEW y
  PROVE  Shared(x, y) = Shared(y, x)
  BY DEF Shared

\* The key of an exchange.
LEMMA KeySymmetric ==
  ASSUME NEW x, NEW y, HasKeys(x), HasKeys(y), NEW passwords
  PROVE  calculate_KCT(x, y, passwords) = calculate_KCT(y, x, passwords)
<1>1. \A sys \in Systems : Exchanges(x, y, sys) = Exchanges(y, x, sys)
  BY DEF Exchanges, Bigger, HasKeys
<1>2. \A sys, i : KeyPair(x, y, sys, i) = KeyPair(y, x, sys, i)
  BY DEF KeyPair
<1>3. Shared(x, y) \subseteq Systems
  BY DEF Shared
<1> DEFINE Secret(u, v, sys, i) == <<sys, KeyPair(u, v, sys, i), {p \in passwords : sys \in Asym /\ p[2] = sys /\ p[3] = i}>>
           Part(u, v, sys) == {Secret(u, v, sys, i) : i \in Exchanges(u, v, sys)}
<1>4. \A sys, i : Secret(x, y, sys, i) = Secret(y, x, sys, i)
  BY <1>2
<1> HIDE DEF Secret
<1>5. \A sys \in Systems : Part(x, y, sys) = Part(y, x, sys)
  BY <1>1, <1>4
<1>6. /\ calculate_KCT(x, y, passwords) = UNION {Part(x, y, sys) : sys \in Shared(x, y) \ Sign}
      /\ calculate_KCT(y, x, passwords) = UNION {Part(y, x, sys) : sys \in Shared(y, x) \ Sign}
  BY Zenon DEF calculate_KCT, Secret
<1> HIDE DEF Part
<1>7. Shared(x, y) = Shared(y, x)
  BY SharedSymmetric
<1>8. {Part(x, y, sys) : sys \in Shared(x, y) \ Sign} = {Part(y, x, sys) : sys \in Shared(y, x) \ Sign}
  BY <1>3, <1>5, <1>7
<1> QED
  BY <1>6, <1>8

\* The secrets of a key name the owners of the keys they come from.
LEMMA KeyMembers ==
  ASSUME NEW x, NEW y, HasKeys(x), HasKeys(y), NEW passwords
  PROVE  /\ \A e \in calculate_KCT(x, y, passwords) : \A m \in e[2] : m[1] = x.owner \/ m[1] = y.owner
         /\ ~(Shared(x, y) \subseteq Sign) =>
              \E e \in calculate_KCT(x, y, passwords) : \E m \in e[2] : m[1] = x.owner
<1> DEFINE Secret(sys, i) == <<sys, KeyPair(x, y, sys, i), {p \in passwords : sys \in Asym /\ p[2] = sys /\ p[3] = i}>>
<1>1. \A sys, i : /\ \A m \in Secret(sys, i)[2] : m[1] = x.owner \/ m[1] = y.owner
                  /\ \E m \in Secret(sys, i)[2] : m[1] = x.owner
  <2> SUFFICES ASSUME NEW sys, NEW i
               PROVE  /\ \A m \in Secret(sys, i)[2] : m[1] = x.owner \/ m[1] = y.owner
                      /\ \E m \in Secret(sys, i)[2] : m[1] = x.owner
    OBVIOUS
  <2> DEFINE u == <<x.owner, i % x.keys[sys]>>
             v == <<y.owner, i % y.keys[sys]>>
  <2>1. Secret(sys, i)[2] = {u, v}
    BY DEF KeyPair
  <2>2. u[1] = x.owner /\ v[1] = y.owner
    OBVIOUS
  <2> HIDE DEF Secret, u, v
  <2> QED
    BY <2>1, <2>2
<1>2. calculate_KCT(x, y, passwords)
        = UNION {{Secret(sys, i) : i \in Exchanges(x, y, sys)} : sys \in Shared(x, y) \ Sign}
  BY Zenon DEF calculate_KCT
<1> HIDE DEF Secret
<1>3. \A e \in calculate_KCT(x, y, passwords) : \E sys, i : e = Secret(sys, i)
  BY <1>2
<1>4. \A sys \in Shared(x, y) : 0 \in Exchanges(x, y, sys)
  BY DEF Shared, Exchanges, Bigger, HasKeys
<1>5. \A sys \in Shared(x, y) \ Sign : Secret(sys, 0) \in calculate_KCT(x, y, passwords)
  BY <1>2, <1>4
<1> QED
  BY <1>1, <1>3, <1>5

\* Two nonces agree only for one parity and one count.
LEMMA NonceFacts ==
  ASSUME NEW p \in BOOLEAN, NEW q \in BOOLEAN, NEW m \in Nat, NEW n \in Nat, Nonce(p, m) = Nonce(q, n)
  PROVE  (p <=> q) /\ m = n
  BY DEF Nonce

\* The keys of the two streams, and the passwords of the final one.
KAB == calculate_KCT(IDC["A"], IDC["B"], Passwords(IDC["A"], IDC["B"], "ab"))
KexF == Passwords(IDC["A"], IDC["B"], "final")
KF == calculate_KCT(CT["A"].IDe, CT["B"].IDe, KexF)

\* Side s has the stream.
HasStream(s, stream) == CT[s][stream] # NoStream

IDsInv ==
  /\ \A s \in Side : IDC[s].owner = <<s, "IDC">> /\ HasKeys(IDC[s]) /\ IDC[s].hash \in {1, 2}
  /\ IDC["A"].hash # IDC["B"].hash

IsStream(st) == st \in [K : {st.K}, odd : BOOLEAN, out : Int, in : Int]
IsTunnel(t) == t \in [pc : {t.pc}, ab : {t.ab}, IDe : {t.IDe}, final : {t.final}]

CTShape ==
  /\ CT = [s \in Side |-> CT[s]]
  /\ \A s \in Side : IsTunnel(CT[s]) /\ IsStream(CT[s].ab) /\ IsStream(CT[s].final)

\* A stream with key K, whose parity is odd.
Runs(st, K, odd) == st.K = K /\ (st.odd <=> odd) /\ st.out \in Nat

AliceInv ==
  /\ CT["A"].pc \in {"none", "ab", "final"}
  /\ CT["A"].IDe = NoID \/ \E h \in {1, 2} : CT["A"].IDe = Ephemeral("A", h)
  /\ CT["A"].pc = "none" => CT["A"].ab = NoStream /\ CT["A"].final = NoStream /\ CT["A"].IDe = NoID
  /\ CT["A"].pc # "none" => Runs(CT["A"].ab, KAB, IDC["A"].hash > IDC["B"].hash)
  /\ CT["A"].pc = "ab" => CT["A"].ab.in = 0 /\ CT["A"].final = NoStream
  /\ CT["A"].pc = "final" =>
       CT["B"].pc = "final" /\ Runs(CT["A"].final, KF, CT["A"].IDe.hash > CT["B"].IDe.hash)

BobInv ==
  /\ CT["B"].pc \in {"none", "final"}
  /\ CT["B"].pc = "none" => CT["B"].ab = NoStream /\ CT["B"].final = NoStream
  /\ CT["B"].pc = "final" =>
       /\ CT["A"].pc # "none" /\ CT["A"].IDe # NoID
       /\ \E h \in {1, 2} : CT["B"].IDe = Ephemeral("B", h)
       /\ CT["A"].IDe.hash # CT["B"].IDe.hash
       /\ Runs(CT["B"].ab, KAB, IDC["B"].hash > IDC["A"].hash)
       /\ Runs(CT["B"].final, KF, CT["B"].IDe.hash > CT["A"].IDe.hash)

\* What a packetstart carries.
WireInv ==
  \A p \in wire :
    \/ /\ p.to = "B" /\ CT["A"].pc # "none"
       /\ p.K = KAB /\ p.kex = Passwords(IDC["A"], IDC["B"], "ab")
       /\ p.IDe \in {NoID, CT["A"].IDe}
    \/ /\ p.to = "A" /\ CT["B"].pc = "final"
       /\ p.K = KAB /\ p.kex = KexF /\ p.IDe = CT["B"].IDe

\* What was encrypted, was with a stream that one side has, at a count it has passed.
BoxedInv ==
  \A x \in boxed : \E s \in Side, stream \in {"ab", "final"}, n \in Nat :
    /\ HasStream(s, stream) /\ n < CT[s][stream].out
    /\ x.K = CT[s][stream].K /\ x.nonce = Nonce(CT[s][stream].odd, n)

TunnelInv ==
  IDsInv /\ CTShape /\ AliceInv /\ BobInv /\ WireInv /\ BoxedInv /\ NonceOnce

\* What depends on the IDs only stays.
LEMMA IDsStay ==
  ASSUME IDC' = IDC
  PROVE  /\ KAB' = KAB /\ KexF' = KexF /\ (IDsInv => IDsInv')
         /\ \A s, h : Ephemeral(s, h)' = Ephemeral(s, h)
         /\ CT'["A"].IDe = CT["A"].IDe /\ CT'["B"].IDe = CT["B"].IDe => KF' = KF
  BY DEF KAB, KexF, Ephemeral, KF, IDsInv

\* A stream that counts is there.
LEMMA CountIsThere ==
  ASSUME NEW st, st.out \in Nat
  PROVE  st # NoStream
<1>1. NoStream.out = -1 /\ -1 \notin Nat
  BY DEF NoStream
<1> HIDE DEF NoStream
<1> QED
  BY <1>1

\* The key of a stream.
LEMMA KeyOfStream ==
  ASSUME AliceInv, BobInv, NEW s \in Side, NEW stream \in {"ab", "final"}, HasStream(s, stream)
  PROVE  /\ CT[s][stream].out \in Nat
         /\ stream = "ab" => CT[s][stream].K = KAB
         /\ stream = "final" => CT[s][stream].K = KF /\ CT["B"].pc = "final"
<1>1. CASE s = "A" /\ stream = "ab"
  BY <1>1 DEF HasStream, AliceInv, Runs
<1>2. CASE s = "A" /\ stream = "final"
  BY <1>2 DEF HasStream, AliceInv, Runs
<1>3. CASE s = "B" /\ stream = "ab"
  BY <1>3 DEF HasStream, BobInv, Runs
<1>4. CASE s = "B" /\ stream = "final"
  BY <1>4 DEF HasStream, BobInv, Runs
<1> QED
  BY <1>1, <1>2, <1>3, <1>4 DEF Side

\* The two ends of a stream have one key and write with nonces of other parity.
LEMMA EndsAgree ==
  ASSUME IDsInv, AliceInv, BobInv, NEW stream \in {"ab", "final"},
         HasStream("A", stream), HasStream("B", stream)
  PROVE  CT["A"][stream].K = CT["B"][stream].K /\ ~(CT["A"][stream].odd <=> CT["B"][stream].odd)
<1>1. "A" \in Side /\ "B" \in Side
  BY DEF Side
<1>2. CT["A"][stream].K = CT["B"][stream].K
  BY <1>1, KeyOfStream
<1>3. IDC["A"].hash \in Int /\ IDC["B"].hash \in Int /\ IDC["A"].hash # IDC["B"].hash
  BY <1>1 DEF IDsInv
<1>4. CT["A"].pc # "none" /\ CT["B"].pc = "final"
  <2>1. CASE stream = "ab"
    BY <2>1 DEF HasStream, AliceInv, BobInv
  <2>2. CASE stream = "final"
    BY <2>2 DEF HasStream, AliceInv, BobInv
  <2> QED
    BY <2>1, <2>2
<1>5. CASE stream = "ab"
  BY <1>3, <1>4, <1>5 DEF AliceInv, BobInv, Runs
<1>6. CASE stream = "final"
  <2>1. CT["A"].pc = "final"
    BY <1>6 DEF HasStream, AliceInv
  <2>2. /\ (CT["A"].final.odd <=> CT["A"].IDe.hash > CT["B"].IDe.hash)
        /\ (CT["B"].final.odd <=> CT["B"].IDe.hash > CT["A"].IDe.hash)
        /\ CT["A"].IDe.hash # CT["B"].IDe.hash
    BY <1>4, <2>1 DEF AliceInv, BobInv, Runs
  <2>3. CT["A"].IDe.hash \in {1, 2} /\ CT["B"].IDe.hash \in {1, 2}
    <3>1. \A s, h : Ephemeral(s, h).hash = h
      BY DEF Ephemeral, ID
    <3> QED
      BY <1>4, <3>1 DEF AliceInv, BobInv
  <2> QED
    BY <1>2, <1>6, <2>2, <2>3
<1> QED
  BY <1>2, <1>5, <1>6

\* The final stream has a key of its own, if the IDs share a system with an exchange.
LEMMA KeysDiffer ==
  ASSUME IDsInv, AliceInv, BobInv, CT["B"].pc = "final", ~(Shared(IDC["A"], IDC["B"]) \subseteq Sign)
  PROVE  KAB # KF
<1>1. PICK h \in {1, 2} : CT["A"].IDe = Ephemeral("A", h)
  BY DEF AliceInv, BobInv
<1>2. PICK g \in {1, 2} : CT["B"].IDe = Ephemeral("B", g)
  BY DEF BobInv
<1>3. \A s, k : Ephemeral(s, k).owner = <<s, "IDe">> /\ HasKeys(Ephemeral(s, k))
  BY DEF Ephemeral, ID, HasKeys
<1>4. "A" \in Side /\ "B" \in Side
  BY DEF Side
<1>5. IDC["A"].owner = <<"A", "IDC">> /\ HasKeys(IDC["A"]) /\ HasKeys(IDC["B"])
  BY <1>4 DEF IDsInv
<1>6. \E e \in KAB : \E m \in e[2] : m[1] = <<"A", "IDC">>
  BY <1>5, KeyMembers DEF KAB
<1>7. \A e \in KF : \A m \in e[2] : m[1] = <<"A", "IDe">> \/ m[1] = <<"B", "IDe">>
  <2> DEFINE u == CT["A"].IDe
             v == CT["B"].IDe
  <2>1. HasKeys(u) /\ HasKeys(v) /\ u.owner = <<"A", "IDe">> /\ v.owner = <<"B", "IDe">>
    BY <1>1, <1>2, <1>3
  <2>2. KF = calculate_KCT(u, v, KexF)
    BY DEF KF
  <2> HIDE DEF u, v
  <2>3. \A e \in KF : \A m \in e[2] : m[1] = u.owner \/ m[1] = v.owner
    BY <2>1, <2>2, KeyMembers
  <2> QED
    BY <2>1, <2>3
<1>8. <<"A", "IDC">> # <<"A", "IDe">> /\ <<"A", "IDC">> # <<"B", "IDe">>
  OBVIOUS
<1> QED
  BY <1>6, <1>7, <1>8

\* The next nonce of a stream was not used with its key.
LEMMA NextNonceIsFresh ==
  ASSUME IDsInv, CTShape, AliceInv, BobInv, BoxedInv, ~(Shared(IDC["A"], IDC["B"]) \subseteq Sign),
         NEW s \in Side, NEW stream \in {"ab", "final"}, HasStream(s, stream), NEW x \in boxed,
         x.K = CT[s][stream].K
  PROVE  x.nonce # BoxNonce(CT[s][stream])
<1> SUFFICES ASSUME x.nonce = BoxNonce(CT[s][stream]) PROVE FALSE
  OBVIOUS
<1>1. PICK r \in Side, st \in {"ab", "final"}, n \in Nat :
        /\ HasStream(r, st) /\ n < CT[r][st].out
        /\ x.K = CT[r][st].K /\ x.nonce = Nonce(CT[r][st].odd, n)
  BY DEF BoxedInv
<1>2. CT[s][stream].out \in Nat
  BY KeyOfStream
<1>3. CT[s][stream].odd \in BOOLEAN /\ CT[r][st].odd \in BOOLEAN
  BY DEF CTShape, IsStream
<1>4. Nonce(CT[s][stream].odd, CT[s][stream].out) = Nonce(CT[r][st].odd, n)
  BY <1>1 DEF BoxNonce
<1>5. (CT[s][stream].odd <=> CT[r][st].odd) /\ CT[s][stream].out = n
  BY <1>2, <1>3, <1>4, NonceFacts
<1>6. st = stream
  <2>1. /\ stream = "ab" => x.K = KAB
        /\ stream = "final" => x.K = KF /\ CT["B"].pc = "final"
    BY KeyOfStream
  <2>2. /\ st = "ab" => x.K = KAB
        /\ st = "final" => x.K = KF /\ CT["B"].pc = "final"
    BY <1>1, KeyOfStream
  <2> QED
    BY <2>1, <2>2, KeysDiffer
<1>7. r = s
  BY <1>1, <1>5, <1>6, EndsAgree DEF Side
<1> QED
  BY <1>1, <1>2, <1>5, <1>6, <1>7

\* Counting up one stream leaves all the rest of the tunnels.
LEMMA CountUp ==
  ASSUME CTShape, NEW s \in Side, NEW stream \in {"ab", "final"},
         CT' = [CT EXCEPT ![s][stream].out = NonceAfter(@)]
  PROVE  /\ CTShape'
         /\ CT'[s][stream].out = CT[s][stream].out + 1
         /\ \A r \in Side, st \in {"ab", "final"} : r # s \/ st # stream => CT'[r][st] = CT[r][st]
         /\ \A r \in Side : CT'[r].pc = CT[r].pc /\ CT'[r].IDe = CT[r].IDe
         /\ \A r \in Side, st \in {"ab", "final"} :
              /\ CT'[r][st].K = CT[r][st].K /\ CT'[r][st].in = CT[r][st].in
              /\ CT'[r][st].odd = CT[r][st].odd
<1> DEFINE old == CT[s][stream]
           new == [old EXCEPT !.out = @ + 1]
           side == [CT[s] EXCEPT ![stream] = new]
<1>1. CT = [r \in Side |-> CT[r]] /\ IsStream(old) /\ IsTunnel(CT[s])
  BY DEF CTShape
<1>2. CT' = [CT EXCEPT ![s] = side]
  BY DEF NonceAfter
<1>3. /\ IsStream(new) /\ new.out = old.out + 1 /\ new.K = old.K /\ new.in = old.in
      /\ new.odd = old.odd
  <2> HIDE DEF old
  <2> QED
    BY <1>1 DEF IsStream
<1> HIDE DEF new, old
<1>4. /\ side[stream] = new /\ side.pc = CT[s].pc /\ side.IDe = CT[s].IDe
      /\ \A st \in {"ab", "final"} : st # stream => side[st] = CT[s][st]
      /\ IsTunnel(side)
  <2>1. CASE stream = "ab"
    BY <1>1, <2>1 DEF IsTunnel
  <2>2. CASE stream = "final"
    BY <1>1, <2>2 DEF IsTunnel
  <2> QED
    BY <2>1, <2>2
<1> HIDE DEF side
<1>5. CT'[s] = side /\ (\A r \in Side : r # s => CT'[r] = CT[r]) /\ CT' = [r \in Side |-> CT'[r]]
  BY <1>1, <1>2
<1>6. /\ CT'[s][stream] = new
      /\ \A r \in Side, st \in {"ab", "final"} : r # s \/ st # stream => CT'[r][st] = CT[r][st]
      /\ \A r \in Side : CT'[r].pc = CT[r].pc /\ CT'[r].IDe = CT[r].IDe
  BY <1>4, <1>5
<1>7. CTShape'
  <2> SUFFICES ASSUME NEW r \in Side
               PROVE  IsTunnel(CT'[r]) /\ IsStream(CT'[r].ab) /\ IsStream(CT'[r].final)
    BY <1>5 DEF CTShape
  <2>1. CASE r = s
    <3>1. \A st \in {"ab", "final"} : IsStream(CT'[r][st])
      BY <1>3, <1>6, <2>1 DEF CTShape
    <3> QED
      BY <1>4, <1>5, <2>1, <3>1
  <2>2. CASE r # s
    BY <1>5, <2>2 DEF CTShape
  <2> QED
    BY <2>1, <2>2
<1>8. CT'[s][stream].out = CT[s][stream].out + 1
  BY <1>3, <1>6 DEF old
<1>9. ASSUME NEW r \in Side, NEW st \in {"ab", "final"}
      PROVE  /\ CT'[r][st].K = CT[r][st].K /\ CT'[r][st].in = CT[r][st].in
             /\ CT'[r][st].odd = CT[r][st].odd
  <2>1. CASE r = s /\ st = stream
    BY <1>3, <1>6, <2>1 DEF old
  <2>2. CASE r # s \/ st # stream
    BY <1>6, <2>2
  <2> QED
    BY <2>1, <2>2
<1> QED
  BY <1>6, <1>7, <1>8, <1>9

\* What is said of the packetstarts and of the texts outlives steps that only add to the tunnels.
LEMMA WireKept ==
  ASSUME WireInv, IDC' = IDC, NEW p \in wire,
         CT["A"].pc # "none" => CT'["A"].pc # "none",
         CT["A"].IDe = NoID \/ CT'["A"].IDe = CT["A"].IDe,
         CT["B"].pc = "final" => CT'["B"].pc = "final" /\ CT'["B"].IDe = CT["B"].IDe
  PROVE  \/ /\ p.to = "B" /\ CT'["A"].pc # "none"
            /\ p.K = KAB' /\ p.kex = Passwords(IDC'["A"], IDC'["B"], "ab")
            /\ p.IDe \in {NoID, CT'["A"].IDe}
         \/ /\ p.to = "A" /\ CT'["B"].pc = "final"
            /\ p.K = KAB' /\ p.kex = KexF' /\ p.IDe = CT'["B"].IDe
<1>1. KAB' = KAB /\ KexF' = KexF
  BY IDsStay
<1>2. \/ /\ p.to = "B" /\ CT["A"].pc # "none"
         /\ p.K = KAB /\ p.kex = Passwords(IDC["A"], IDC["B"], "ab")
         /\ p.IDe \in {NoID, CT["A"].IDe}
      \/ /\ p.to = "A" /\ CT["B"].pc = "final"
         /\ p.K = KAB /\ p.kex = KexF /\ p.IDe = CT["B"].IDe
  BY DEF WireInv
<1> QED
  BY <1>1, <1>2

\* The packetstarts stay as they are.
LEMMA SameWire ==
  ASSUME WireInv, IDC' = IDC, wire' = wire,
         CT["A"].pc # "none" => CT'["A"].pc # "none",
         CT["A"].IDe = NoID \/ CT'["A"].IDe = CT["A"].IDe,
         CT["B"].pc = "final" => CT'["B"].pc = "final" /\ CT'["B"].IDe = CT["B"].IDe
  PROVE  WireInv'
  BY WireKept DEF WireInv

\* The texts that were encrypted do.
LEMMA SameBoxed ==
  ASSUME BoxedInv, NonceOnce, IDC' = IDC, boxed' = boxed,
         \A s \in Side, stream \in {"ab", "final"} : HasStream(s, stream) =>
           /\ CT'[s][stream] # NoStream /\ CT'[s][stream].K = CT[s][stream].K
           /\ CT'[s][stream].odd = CT[s][stream].odd /\ CT'[s][stream].out = CT[s][stream].out
  PROVE  BoxedInv' /\ NonceOnce'
<1>1. NonceOnce'
  BY DEF NonceOnce
<1>2. BoxedInv'
  <2> SUFFICES ASSUME NEW x \in boxed
               PROVE  \E s \in Side, stream \in {"ab", "final"}, n \in Nat :
                        /\ CT'[s][stream] # NoStream /\ n < CT'[s][stream].out
                        /\ x.K = CT'[s][stream].K /\ x.nonce = Nonce(CT'[s][stream].odd, n)
    BY DEF BoxedInv, HasStream
  <2>1. PICK s \in Side, stream \in {"ab", "final"}, n \in Nat :
          /\ HasStream(s, stream) /\ n < CT[s][stream].out
          /\ x.K = CT[s][stream].K /\ x.nonce = Nonce(CT[s][stream].odd, n)
    BY DEF BoxedInv
  <2>2. /\ CT'[s][stream] # NoStream /\ n < CT'[s][stream].out
        /\ x.K = CT'[s][stream].K /\ x.nonce = Nonce(CT'[s][stream].odd, n)
    BY <2>1
  <2> QED
    BY <2>2
<1> QED
  BY <1>1, <1>2

\* A text is encrypted with a stream.
LEMMA BoxStep ==
  ASSUME TunnelInv, NEW s \in Side, NEW stream \in {"ab", "final"}, HasStream(s, stream), NEW text,
         IDC' = IDC, Box(CT[s][stream], text), CT' = [CT EXCEPT ![s][stream].out = NonceAfter(@)]
  PROVE  IDsInv' /\ CTShape' /\ AliceInv' /\ BobInv' /\ BoxedInv' /\ NonceOnce'
<1>0. IDsInv /\ CTShape /\ AliceInv /\ BobInv /\ BoxedInv /\ NonceOnce
  BY DEF TunnelInv
<1>1. /\ CTShape'
      /\ CT'[s][stream].out = CT[s][stream].out + 1
      /\ \A r \in Side, st \in {"ab", "final"} : r # s \/ st # stream => CT'[r][st] = CT[r][st]
      /\ \A r \in Side : CT'[r].pc = CT[r].pc /\ CT'[r].IDe = CT[r].IDe
      /\ \A r \in Side, st \in {"ab", "final"} :
           /\ CT'[r][st].K = CT[r][st].K /\ CT'[r][st].in = CT[r][st].in
           /\ CT'[r][st].odd = CT[r][st].odd
  BY <1>0, CountUp
<1>2. CT[s][stream].out \in Nat /\ CT[s][stream].odd \in BOOLEAN
  BY <1>0, KeyOfStream DEF CTShape, IsStream
<1>3. "A" \in Side /\ "B" \in Side
  BY DEF Side
<1>4. KAB' = KAB /\ KexF' = KexF /\ IDsInv' /\ KF' = KF /\ \A r, h : Ephemeral(r, h)' = Ephemeral(r, h)
  BY <1>0, <1>1, <1>3, IDsStay
<1>5. \A r \in Side, st \in {"ab", "final"} : \A K, odd :
        Runs(CT[r][st], K, odd) => Runs(CT'[r][st], K, odd)
  <2> SUFFICES ASSUME NEW r \in Side, NEW st \in {"ab", "final"}, NEW K, NEW odd, Runs(CT[r][st], K, odd)
               PROVE  Runs(CT'[r][st], K, odd)
    OBVIOUS
  <2>1. CT'[r][st].out \in Nat
    BY <1>1, <1>2 DEF Runs
  <2> QED
    BY <1>1, <2>1 DEF Runs
<1>6. \A r \in Side, st \in {"ab", "final"} : CT[r][st] = NoStream => CT'[r][st] = NoStream
  BY <1>1 DEF HasStream
<1>7. AliceInv'
  <2>1. /\ CT'["A"].pc = CT["A"].pc /\ CT'["A"].IDe = CT["A"].IDe
        /\ CT'["B"].pc = CT["B"].pc /\ CT'["B"].IDe = CT["B"].IDe
        /\ CT'["A"].ab.in = CT["A"].ab.in
        /\ CT["A"].ab = NoStream => CT'["A"].ab = NoStream
        /\ CT["A"].final = NoStream => CT'["A"].final = NoStream
        /\ \A K, odd : Runs(CT["A"].ab, K, odd) => Runs(CT'["A"].ab, K, odd)
        /\ \A K, odd : Runs(CT["A"].final, K, odd) => Runs(CT'["A"].final, K, odd)
    BY <1>1, <1>3, <1>5, <1>6
  <2> QED
    BY <1>0, <1>4, <2>1 DEF AliceInv
<1>8. BobInv'
  <2>1. /\ CT'["A"].pc = CT["A"].pc /\ CT'["A"].IDe = CT["A"].IDe
        /\ CT'["B"].pc = CT["B"].pc /\ CT'["B"].IDe = CT["B"].IDe
        /\ CT["B"].ab = NoStream => CT'["B"].ab = NoStream
        /\ CT["B"].final = NoStream => CT'["B"].final = NoStream
        /\ \A K, odd : Runs(CT["B"].ab, K, odd) => Runs(CT'["B"].ab, K, odd)
        /\ \A K, odd : Runs(CT["B"].final, K, odd) => Runs(CT'["B"].final, K, odd)
    BY <1>1, <1>3, <1>5, <1>6
  <2> QED
    BY <1>0, <1>4, <2>1 DEF BobInv
<1> DEFINE z == [K |-> CT[s][stream].K, nonce |-> BoxNonce(CT[s][stream]), text |-> text]
<1>9. boxed' = boxed \cup {z} /\ z.K = CT[s][stream].K /\ z.nonce = BoxNonce(CT[s][stream])
  BY DEF Box
<1> HIDE DEF z
<1>10. BoxedInv'
  <2>1. ASSUME NEW r \in Side, NEW st \in {"ab", "final"}, HasStream(r, st)
        PROVE  CT'[r][st] # NoStream /\ \A n \in Nat : n < CT[r][st].out => n < CT'[r][st].out
    <3>1. CT[r][st].out \in Nat
      BY <1>0, <2>1, KeyOfStream
    <3>2. CT'[r][st].out = CT[r][st].out \/ CT'[r][st].out = CT[r][st].out + 1
      BY <1>1
    <3>4. CT'[r][st].out \in Nat /\ CT'[r][st].out >= CT[r][st].out
      BY <3>1, <3>2
    <3>5. CT'[r][st] # NoStream
      BY <3>4, CountIsThere
    <3> QED
      BY <3>1, <3>4, <3>5
  <2>2. ASSUME NEW x \in boxed
        PROVE  \E r \in Side, st \in {"ab", "final"}, n \in Nat :
                 /\ CT'[r][st] # NoStream /\ n < CT'[r][st].out
                 /\ x.K = CT'[r][st].K /\ x.nonce = Nonce(CT'[r][st].odd, n)
    <3>1. PICK r \in Side, st \in {"ab", "final"}, n \in Nat :
            /\ HasStream(r, st) /\ n < CT[r][st].out
            /\ x.K = CT[r][st].K /\ x.nonce = Nonce(CT[r][st].odd, n)
      BY <1>0 DEF BoxedInv
    <3>2. /\ CT'[r][st] # NoStream /\ n < CT'[r][st].out
          /\ x.K = CT'[r][st].K /\ x.nonce = Nonce(CT'[r][st].odd, n)
      BY <1>1, <2>1, <3>1
    <3> QED
      BY <3>2
  <2>3. \E r \in Side, st \in {"ab", "final"}, n \in Nat :
          /\ CT'[r][st] # NoStream /\ n < CT'[r][st].out
          /\ z.K = CT'[r][st].K /\ z.nonce = Nonce(CT'[r][st].odd, n)
    <3> DEFINE n == CT[s][stream].out
    <3>1. n \in Nat /\ n < CT'[s][stream].out
      BY <1>1, <1>2
    <3>2. z.K = CT'[s][stream].K /\ z.nonce = Nonce(CT'[s][stream].odd, n)
      BY <1>1, <1>9 DEF BoxNonce
    <3>3. CT'[s][stream] # NoStream
      BY <2>1
    <3> HIDE DEF n
    <3> QED
      BY <3>1, <3>2, <3>3
  <2> QED
    <3> DEFINE P(x) == \E r \in Side, st \in {"ab", "final"}, n \in Nat :
                         /\ CT'[r][st] # NoStream /\ n < CT'[r][st].out
                         /\ x.K = CT'[r][st].K /\ x.nonce = Nonce(CT'[r][st].odd, n)
    <3>1. (\A x \in boxed : P(x)) /\ P(z)
      BY <2>2, <2>3
    <3>2. \A x \in boxed' : P(x)
      <4> HIDE DEF P
      <4> QED
        BY <1>9, <3>1
    <3> QED
      BY <3>2, Zenon DEF BoxedInv, HasStream
<1>11. NonceOnce'
  <2>1. CASE Shared(IDC["A"], IDC["B"]) \subseteq Sign
    BY <2>1 DEF NonceOnce
  <2>2. CASE ~(Shared(IDC["A"], IDC["B"]) \subseteq Sign)
    <3>1. \A x \in boxed : ~(x.K = z.K /\ x.nonce = z.nonce)
      BY <1>0, <1>9, <2>2, NextNonceIsFresh
    <3>2. \A x, y \in boxed : x.K = y.K /\ x.nonce = y.nonce => x.text = y.text
      BY <1>0, <2>2 DEF NonceOnce
    <3>3. \A x, y \in boxed' : x.K = y.K /\ x.nonce = y.nonce => x.text = y.text
      BY <1>9, <3>1, <3>2
    <3> QED
      BY <3>3 DEF NonceOnce
  <2> QED
    BY <2>1, <2>2
<1> QED
  BY <1>1, <1>4, <1>7, <1>8, <1>10, <1>11

\* A stream as create_boxer_with_K makes it.
LEMMA NewStream ==
  ASSUME NEW x, NEW y, NEW passwords
  PROVE  /\ IsStream(Stream(x, y, passwords))
         /\ Runs(Stream(x, y, passwords), calculate_KCT(x, y, passwords), x.hash > y.hash)
         /\ Stream(x, y, passwords).out = 0 /\ Stream(x, y, passwords).in = 0
<1> DEFINE odd == calculate_nonce_odd(x, y)
           K == calculate_KCT(x, y, passwords)
           st == Stream(x, y, passwords)
<1>1. odd \in BOOLEAN /\ (odd <=> x.hash > y.hash)
  BY DEF calculate_nonce_odd
<1>2. st = [K |-> K, odd |-> odd, out |-> 0, in |-> 0]
  BY DEF Stream
<1> HIDE DEF odd, K, st
<1>3. st.K = K /\ st.odd = odd /\ st.out = 0 /\ st.in = 0
  BY <1>2
<1>4. st \in [K : {K}, odd : BOOLEAN, out : Int, in : Int]
  BY <1>1, <1>2
<1>5. IsStream(st)
  BY <1>3, <1>4 DEF IsStream
<1>6. Runs(st, K, x.hash > y.hash)
  <2>1. st.odd <=> x.hash > y.hash
    BY <1>1, <1>3
  <2> QED
    BY <1>3, <2>1 DEF Runs
<1> QED
  BY <1>3, <1>5, <1>6 DEF st, K

\* The constructor of the initiator keeps the invariant of the tunnels.
LEMMA TunnelAlice == TunnelInv /\ AliceCtor => TunnelInv'
<1> SUFFICES ASSUME TunnelInv, AliceCtor PROVE TunnelInv'
  OBVIOUS
<1> DEFINE st == Stream(IDC["A"], IDC["B"], Passwords(IDC["A"], IDC["B"], "ab"))
<1>0. IDsInv /\ CTShape /\ AliceInv /\ BobInv /\ WireInv /\ BoxedInv /\ NonceOnce
  BY DEF TunnelInv
<1>1. /\ CT["A"].pc = "none" /\ CT' = [CT EXCEPT !["A"].pc = "ab", !["A"].ab = st]
      /\ IDC' = IDC /\ wire' = wire /\ boxed' = boxed
  BY DEF AliceCtor
<1>2. IsStream(st) /\ Runs(st, KAB, IDC["A"].hash > IDC["B"].hash) /\ st.in = 0
  BY NewStream DEF KAB
<1> HIDE DEF st
<1>3. "A" \in Side /\ "B" \in Side /\ Side = {"A", "B"}
  BY DEF Side
<1>4. CT = [s \in Side |-> CT[s]] /\ IsTunnel(CT["A"]) /\ IsTunnel(CT["B"]) /\ IsStream(CT["A"].final)
      /\ IsStream(CT["B"].ab) /\ IsStream(CT["B"].final)
  BY <1>0, <1>3 DEF CTShape
<1>5. /\ CT' = [s \in Side |-> CT'[s]] /\ IsTunnel(CT'["A"])
      /\ CT'["A"].pc = "ab" /\ CT'["A"].ab = st
      /\ CT'["A"].IDe = CT["A"].IDe /\ CT'["A"].final = CT["A"].final /\ CT'["B"] = CT["B"]
  BY <1>1, <1>3, <1>4 DEF IsTunnel
<1>6. CTShape'
  BY <1>2, <1>3, <1>4, <1>5 DEF CTShape
<1>7. KAB' = KAB /\ KexF' = KexF /\ IDsInv' /\ KF' = KF /\ \A r, h : Ephemeral(r, h)' = Ephemeral(r, h)
  BY <1>0, <1>1, <1>5, IDsStay
<1>8. AliceInv'
  BY <1>0, <1>1, <1>2, <1>5, <1>7 DEF AliceInv
<1>9. BobInv'
  BY <1>0, <1>1, <1>5, <1>7 DEF BobInv
<1>10. WireInv'
  BY <1>0, <1>1, <1>5, SameWire
<1>11. \A s \in Side, stream \in {"ab", "final"} : HasStream(s, stream) => CT'[s][stream] = CT[s][stream]
  BY <1>0, <1>1, <1>3, <1>5 DEF HasStream, AliceInv
<1>12. BoxedInv' /\ NonceOnce'
  BY <1>0, <1>1, <1>11, SameBoxed DEF HasStream
<1> QED
  BY <1>6, <1>7, <1>8, <1>9, <1>10, <1>12 DEF TunnelInv

\* create_IDe keeps the invariant of the tunnels.
LEMMA TunnelIDe == ASSUME TunnelInv, NEW hash \in {1, 2}, create_IDe(hash) PROVE TunnelInv'
<1> DEFINE e == Ephemeral("A", hash)
<1>0. IDsInv /\ CTShape /\ AliceInv /\ BobInv /\ WireInv /\ BoxedInv /\ NonceOnce
  BY DEF TunnelInv
<1>1. /\ CT["A"].pc = "ab" /\ CT["A"].IDe = NoID /\ CT' = [CT EXCEPT !["A"].IDe = e]
      /\ IDC' = IDC /\ wire' = wire /\ boxed' = boxed
  BY DEF create_IDe
<1> HIDE DEF e
<1>3. "A" \in Side /\ "B" \in Side /\ Side = {"A", "B"}
  BY DEF Side
<1>4. /\ CT = [s \in Side |-> CT[s]] /\ IsTunnel(CT["A"]) /\ IsTunnel(CT["B"])
      /\ IsStream(CT["A"].ab) /\ IsStream(CT["A"].final)
      /\ IsStream(CT["B"].ab) /\ IsStream(CT["B"].final)
  BY <1>0, <1>3 DEF CTShape
<1>5. /\ CT' = [s \in Side |-> CT'[s]] /\ IsTunnel(CT'["A"])
      /\ CT'["A"].pc = "ab" /\ CT'["A"].ab = CT["A"].ab
      /\ CT'["A"].IDe = e /\ CT'["A"].final = CT["A"].final /\ CT'["B"] = CT["B"]
  BY <1>1, <1>3, <1>4 DEF IsTunnel
<1>6. CTShape'
  BY <1>3, <1>4, <1>5 DEF CTShape
<1>7. KAB' = KAB /\ KexF' = KexF /\ IDsInv' /\ \A r, h : Ephemeral(r, h)' = Ephemeral(r, h)
  BY <1>0, <1>1, IDsStay
<1>8. AliceInv'
  <2>1. Runs(CT'["A"].ab, KAB', IDC'["A"].hash > IDC'["B"].hash)
    BY <1>0, <1>1, <1>5, <1>7 DEF AliceInv
  <2>2. \E h \in {1, 2} : CT'["A"].IDe = Ephemeral("A", h)'
    BY <1>5, <1>7 DEF e
  <2>3. CT'["A"].ab.in = 0 /\ CT'["A"].final = NoStream
    BY <1>0, <1>1, <1>5 DEF AliceInv
  <2> QED
    BY <1>5, <2>1, <2>2, <2>3 DEF AliceInv
<1>9. BobInv'
  <2>1. CT["B"].pc = "none" /\ CT["B"].ab = NoStream /\ CT["B"].final = NoStream
    BY <1>0, <1>1 DEF BobInv
  <2> QED
    BY <1>5, <2>1 DEF BobInv
<1>10. WireInv'
  BY <1>0, <1>1, <1>5, SameWire
<1>11. \A s \in Side, stream \in {"ab", "final"} : CT'[s][stream] = CT[s][stream]
  BY <1>3, <1>5
<1>12. BoxedInv' /\ NonceOnce'
  BY <1>0, <1>1, <1>11, SameBoxed DEF HasStream
<1> QED
  BY <1>6, <1>7, <1>8, <1>9, <1>10, <1>12 DEF TunnelInv

\* The ephemeral IDs share the systems of the permanent ones, and so the passwords of the
\* final stream are the same on both sides.
LEMMA EphemeralFacts ==
  ASSUME NEW s, NEW r, NEW h, NEW g
  PROVE  /\ Shared(Ephemeral(s, h), Ephemeral(r, g)) = Shared(IDC["A"], IDC["B"])
         /\ Passwords(Ephemeral(s, h), Ephemeral(r, g), "final") = KexF
         /\ HasKeys(Ephemeral(s, h)) /\ Ephemeral(s, h).hash = h
         /\ s \in Side => Ephemeral(s, h) # NoID
<1>1. /\ Ephemeral(s, h).keys = [sys \in Systems |-> IF sys \in Shared(IDC["A"], IDC["B"]) THEN 1 ELSE 0]
      /\ Ephemeral(r, g).keys = [sys \in Systems |-> IF sys \in Shared(IDC["A"], IDC["B"]) THEN 1 ELSE 0]
      /\ Ephemeral(s, h).hash = h /\ Ephemeral(s, h).owner = <<s, "IDe">>
  BY DEF Ephemeral, ID
<1>2. Shared(IDC["A"], IDC["B"]) \subseteq Systems
  BY DEF Shared
<1> DEFINE u == Ephemeral(s, h)
           v == Ephemeral(r, g)
           S == Shared(IDC["A"], IDC["B"])
<1>3. /\ u.keys = [sys \in Systems |-> IF sys \in S THEN 1 ELSE 0]
      /\ v.keys = [sys \in Systems |-> IF sys \in S THEN 1 ELSE 0]
      /\ S \subseteq Systems
  BY <1>1, <1>2
<1> HIDE DEF u, v, S
<1>4. Shared(u, v) = S /\ HasKeys(u)
  BY <1>3 DEF Shared, HasKeys
<1>5. Passwords(u, v, "final") = KexF
  BY <1>4 DEF Passwords, KexF, S
<1>6. s \in Side => <<s, "IDe">> # <<"none", "none">>
  OBVIOUS
<1>7. NoID.owner = <<"none", "none">>
  BY DEF NoID, ID
<1> QED
  BY <1>1, <1>4, <1>5, <1>6, <1>7 DEF u, v, S

\* The constructor of the respondent keeps the invariant of the tunnels.
LEMMA TunnelBob ==
  ASSUME TunnelInv, NEW p \in wire, NEW hash \in {1, 2}, BobCtor(p, hash)
  PROVE  TunnelInv'
<1> DEFINE ab == Stream(IDC["B"], IDC["A"], p.kex)
           e == Ephemeral("B", hash)
           final == Stream(e, p.IDe, Passwords(e, p.IDe, "final"))
           read == [ab EXCEPT !.in = 1]
           new == [pc |-> "final", ab |-> read, IDe |-> e, final |-> final]
<1>0. IDsInv /\ CTShape /\ AliceInv /\ BobInv /\ WireInv /\ BoxedInv /\ NonceOnce
  BY DEF TunnelInv
<1>1. /\ CT["B"].pc = "none" /\ p.to = "B" /\ p.IDe # NoID /\ hash # p.IDe.hash
      /\ CT' = [CT EXCEPT !["B"] = new]
      /\ IDC' = IDC /\ wire' = wire /\ boxed' = boxed
  BY DEF BobCtor, CanReadIDe
<1>2. /\ CT["A"].pc # "none" /\ p.kex = Passwords(IDC["A"], IDC["B"], "ab") /\ p.IDe = CT["A"].IDe
      /\ CT["A"].pc = "ab"
  BY <1>0, <1>1 DEF WireInv, AliceInv
<1>3. "A" \in Side /\ "B" \in Side /\ Side = {"A", "B"}
  BY DEF Side
<1>4. PICK h \in {1, 2} : CT["A"].IDe = Ephemeral("A", h)
  BY <1>0, <1>1, <1>2 DEF AliceInv
<1>5. HasKeys(IDC["A"]) /\ HasKeys(IDC["B"]) /\ HasKeys(e) /\ HasKeys(CT["A"].IDe)
  BY <1>0, <1>3, <1>4, EphemeralFacts DEF IDsInv
<1>6. IsStream(ab) /\ Runs(ab, KAB, IDC["B"].hash > IDC["A"].hash)
  <2>1. calculate_KCT(IDC["B"], IDC["A"], p.kex) = KAB
    BY <1>2, <1>5, KeySymmetric DEF KAB
  <2> QED
    BY <2>1, NewStream
<1>7. IsStream(final) /\ Runs(final, calculate_KCT(CT["A"].IDe, e, KexF), e.hash > CT["A"].IDe.hash)
  <2>1. Passwords(e, p.IDe, "final") = KexF
    BY <1>2, <1>4, EphemeralFacts
  <2>2. calculate_KCT(e, p.IDe, KexF) = calculate_KCT(CT["A"].IDe, e, KexF)
    BY <1>2, <1>5, KeySymmetric
  <2>3. final = Stream(e, p.IDe, KexF) /\ p.IDe = CT["A"].IDe
    BY <1>2, <2>1
  <2> QED
    BY <2>2, <2>3, NewStream
<1> HIDE DEF ab, e, final
<1>8. IsStream(read) /\ Runs(read, KAB, IDC["B"].hash > IDC["A"].hash)
  BY <1>6 DEF IsStream, Runs
<1> HIDE DEF read
<1>9. IsTunnel(new) /\ new.pc = "final" /\ new.ab = read /\ new.IDe = e /\ new.final = final
  BY DEF IsTunnel
<1> HIDE DEF new
<1>10. /\ CT = [s \in Side |-> CT[s]] /\ IsTunnel(CT["A"])
       /\ IsStream(CT["A"].ab) /\ IsStream(CT["A"].final)
  BY <1>0, <1>3 DEF CTShape
<1>11. CT' = [s \in Side |-> CT'[s]] /\ CT'["B"] = new /\ CT'["A"] = CT["A"]
  BY <1>1, <1>3, <1>10
<1>12. CTShape'
  BY <1>3, <1>7, <1>8, <1>9, <1>10, <1>11 DEF CTShape
<1>13. KAB' = KAB /\ KexF' = KexF /\ IDsInv' /\ \A r, k : Ephemeral(r, k)' = Ephemeral(r, k)
  BY <1>0, <1>1, IDsStay
<1>14. KF' = calculate_KCT(CT["A"].IDe, e, KexF)
  BY <1>9, <1>11, <1>13 DEF KF
<1>15. AliceInv'
  <2>1. Runs(CT'["A"].ab, KAB', IDC'["A"].hash > IDC'["B"].hash)
    BY <1>0, <1>1, <1>2, <1>11, <1>13 DEF AliceInv
  <2>2. \E k \in {1, 2} : CT'["A"].IDe = Ephemeral("A", k)'
    BY <1>4, <1>11, <1>13
  <2>3. CT'["A"].ab.in = 0 /\ CT'["A"].final = NoStream /\ CT'["A"].pc = "ab"
    BY <1>0, <1>2, <1>11 DEF AliceInv
  <2> QED
    BY <2>1, <2>2, <2>3 DEF AliceInv
<1>16. BobInv'
  <2>1. CT'["B"].pc = "final" /\ CT'["A"].pc # "none" /\ CT'["A"].IDe # NoID
    BY <1>1, <1>2, <1>9, <1>11
  <2>2. \E k \in {1, 2} : CT'["B"].IDe = Ephemeral("B", k)'
    BY <1>9, <1>11, <1>13 DEF e
  <2>3. CT'["A"].IDe.hash # CT'["B"].IDe.hash
    <3>1. e.hash = hash
      BY EphemeralFacts DEF e
    <3> QED
      BY <1>1, <1>2, <1>9, <1>11, <3>1
  <2>4. Runs(CT'["B"].ab, KAB', IDC'["B"].hash > IDC'["A"].hash)
    BY <1>1, <1>8, <1>9, <1>11, <1>13
  <2>5. Runs(CT'["B"].final, KF', CT'["B"].IDe.hash > CT'["A"].IDe.hash)
    BY <1>7, <1>9, <1>11, <1>14
  <2> QED
    BY <2>1, <2>2, <2>3, <2>4, <2>5 DEF BobInv
<1>17. WireInv'
  BY <1>0, <1>1, <1>11, SameWire
<1>18. \A s \in Side, stream \in {"ab", "final"} : HasStream(s, stream) => CT'[s][stream] = CT[s][stream]
  BY <1>0, <1>1, <1>3, <1>11 DEF HasStream, BobInv
<1>19. BoxedInv' /\ NonceOnce'
  BY <1>0, <1>1, <1>18, SameBoxed DEF HasStream
<1> QED
  BY <1>12, <1>13, <1>15, <1>16, <1>17, <1>19 DEF TunnelInv

\* create_CTf keeps the invariant of the tunnels.
LEMMA TunnelFinal ==
  ASSUME TunnelInv, NEW p \in wire, create_CTf(p)
  PROVE  TunnelInv'
<1> DEFINE st == Stream(CT["A"].IDe, p.IDe, p.kex)
           read == [CT["A"].ab EXCEPT !.in = @ + 1]
<1>0. IDsInv /\ CTShape /\ AliceInv /\ BobInv /\ WireInv /\ BoxedInv /\ NonceOnce
  BY DEF TunnelInv
<1>1. /\ CT["A"].pc = "ab" /\ p.to = "A" /\ CT["A"].IDe # NoID
      /\ CT' = [CT EXCEPT !["A"].pc = "final", !["A"].ab.in = @ + 1, !["A"].final = st]
      /\ IDC' = IDC /\ wire' = wire /\ boxed' = boxed
  BY DEF create_CTf
<1>2. CT["B"].pc = "final" /\ p.kex = KexF /\ p.IDe = CT["B"].IDe
  BY <1>0, <1>1 DEF WireInv
<1>3. "A" \in Side /\ "B" \in Side /\ Side = {"A", "B"}
  BY DEF Side
<1>4. IsStream(st) /\ Runs(st, KF, CT["A"].IDe.hash > CT["B"].IDe.hash)
  BY <1>2, NewStream DEF KF
<1> HIDE DEF st
<1>5. /\ CT = [s \in Side |-> CT[s]] /\ IsTunnel(CT["A"]) /\ IsTunnel(CT["B"])
      /\ IsStream(CT["A"].ab) /\ IsStream(CT["B"].ab) /\ IsStream(CT["B"].final)
  BY <1>0, <1>3 DEF CTShape
<1>6. /\ IsStream(read) /\ read.K = CT["A"].ab.K /\ read.odd = CT["A"].ab.odd
      /\ read.out = CT["A"].ab.out
  BY <1>5 DEF IsStream
<1> HIDE DEF read
<1>7. /\ CT' = [s \in Side |-> CT'[s]] /\ IsTunnel(CT'["A"])
      /\ CT'["A"].pc = "final" /\ CT'["A"].ab = read
      /\ CT'["A"].IDe = CT["A"].IDe /\ CT'["A"].final = st /\ CT'["B"] = CT["B"]
  BY <1>1, <1>3, <1>5 DEF IsTunnel, read
<1>8. CTShape'
  BY <1>3, <1>4, <1>5, <1>6, <1>7 DEF CTShape
<1>9. KAB' = KAB /\ KexF' = KexF /\ IDsInv' /\ KF' = KF /\ \A r, h : Ephemeral(r, h)' = Ephemeral(r, h)
  BY <1>0, <1>1, <1>7, IDsStay
<1>10. AliceInv'
  <2>1. Runs(CT'["A"].ab, KAB', IDC'["A"].hash > IDC'["B"].hash)
    BY <1>0, <1>1, <1>6, <1>7, <1>9 DEF AliceInv, Runs
  <2>2. \E h \in {1, 2} : CT'["A"].IDe = Ephemeral("A", h)'
    BY <1>0, <1>1, <1>7, <1>9 DEF AliceInv
  <2>3. CT'["B"].pc = "final" /\ Runs(CT'["A"].final, KF', CT'["A"].IDe.hash > CT'["B"].IDe.hash)
    BY <1>2, <1>4, <1>7, <1>9
  <2> QED
    BY <1>7, <2>1, <2>2, <2>3 DEF AliceInv
<1>11. BobInv'
  BY <1>0, <1>1, <1>7, <1>9 DEF BobInv
<1>12. WireInv'
  BY <1>0, <1>1, <1>7, SameWire
<1>13. \A s \in Side, stream \in {"ab", "final"} : HasStream(s, stream) =>
         /\ CT'[s][stream] # NoStream /\ CT'[s][stream].K = CT[s][stream].K
         /\ CT'[s][stream].odd = CT[s][stream].odd /\ CT'[s][stream].out = CT[s][stream].out
  <2>1. read.out \in Nat /\ CT["A"].final = NoStream
    BY <1>0, <1>1, <1>6 DEF AliceInv, Runs
  <2>2. read # NoStream
    BY <2>1, CountIsThere
  <2> QED
    BY <1>3, <1>6, <1>7, <2>1, <2>2 DEF HasStream
<1>14. BoxedInv' /\ NonceOnce'
  BY <1>0, <1>1, <1>13, SameBoxed
<1> QED
  BY <1>8, <1>9, <1>10, <1>11, <1>12, <1>14 DEF TunnelInv

\* The packetstarts of both sides keep the invariant of the tunnels.
LEMMA TunnelPacketstart ==
  ASSUME TunnelInv, get_packetstart_ab \/ get_packetstart_final
  PROVE  TunnelInv'
<1>0. IDsInv /\ CTShape /\ AliceInv /\ BobInv /\ WireInv
  BY DEF TunnelInv
<1>1. ASSUME NEW s \in Side, NEW kex, Packetstart(s, kex), IDC' = IDC, CT[s].ab.out \in Nat
      PROVE  /\ IDsInv' /\ CTShape' /\ AliceInv' /\ BobInv' /\ BoxedInv' /\ NonceOnce'
             /\ \A r \in Side : CT'[r].pc = CT[r].pc /\ CT'[r].IDe = CT[r].IDe
             /\ \E p : /\ wire' = wire \cup {p} /\ p.to = Other(s) /\ p.kex = kex
                       /\ p.IDe = CT[s].IDe /\ p.K = CT[s].ab.K
  <2>1. /\ Box(CT[s]["ab"], <<"IDe", s, CT[s].ab.out>>)
        /\ CT' = [CT EXCEPT ![s]["ab"].out = NonceAfter(@)]
    BY <1>1 DEF Packetstart
  <2>2. HasStream(s, "ab")
    BY <1>1, CountIsThere DEF HasStream
  <2>3. IDsInv' /\ CTShape' /\ AliceInv' /\ BobInv' /\ BoxedInv' /\ NonceOnce'
    BY <1>1, <2>1, <2>2, BoxStep
  <2>4. \A r \in Side : CT'[r].pc = CT[r].pc /\ CT'[r].IDe = CT[r].IDe
    BY <1>0, <2>1, CountUp
  <2> DEFINE p == [to |-> Other(s), kex |-> kex, IDe |-> CT[s].IDe,
                   K |-> CT[s].ab.K, nonce |-> BoxNonce(CT[s].ab)]
  <2>5. wire' = wire \cup {p}
    BY <1>1 DEF Packetstart
  <2>6. p.to = Other(s) /\ p.kex = kex /\ p.IDe = CT[s].IDe /\ p.K = CT[s].ab.K
    OBVIOUS
  <2> HIDE DEF p
  <2> QED
    BY <2>3, <2>4, <2>5, <2>6
<1>2. "A" \in Side /\ "B" \in Side /\ Other("A") = "B" /\ Other("B") = "A"
  BY DEF Side, Other
<1>3. CASE get_packetstart_ab
  <2>1. /\ CT["A"].pc = "ab" /\ Packetstart("A", Passwords(IDC["A"], IDC["B"], "ab")) /\ IDC' = IDC
        /\ CT["A"].ab.out \in Nat /\ CT["A"].ab.K = KAB
    BY <1>0, <1>3 DEF get_packetstart_ab, AliceInv, Runs
  <2>2. IDsInv' /\ CTShape' /\ AliceInv' /\ BobInv' /\ BoxedInv' /\ NonceOnce'
        /\ \A r \in Side : CT'[r].pc = CT[r].pc /\ CT'[r].IDe = CT[r].IDe
    BY <1>1, <1>2, <2>1
  <2>3. PICK p : /\ wire' = wire \cup {p} /\ p.to = "B" /\ p.kex = Passwords(IDC["A"], IDC["B"], "ab")
                 /\ p.IDe = CT["A"].IDe /\ p.K = CT["A"].ab.K
    BY <1>1, <1>2, <2>1
  <2>4. KAB' = KAB
    BY <2>1, IDsStay
  <2>5. WireInv'
    <3> SUFFICES ASSUME NEW q \in wire'
                 PROVE  \/ /\ q.to = "B" /\ CT'["A"].pc # "none"
                           /\ q.K = KAB' /\ q.kex = Passwords(IDC'["A"], IDC'["B"], "ab")
                           /\ q.IDe \in {NoID, CT'["A"].IDe}
                        \/ /\ q.to = "A" /\ CT'["B"].pc = "final"
                           /\ q.K = KAB' /\ q.kex = KexF' /\ q.IDe = CT'["B"].IDe
      BY DEF WireInv
    <3>1. CASE q = p
      BY <1>2, <2>1, <2>2, <2>3, <2>4, <3>1
    <3>2. CASE q \in wire
      BY <1>0, <1>2, <2>1, <2>2, <3>2, WireKept
    <3> QED
      BY <2>3, <3>1, <3>2
  <2> QED
    BY <2>2, <2>5 DEF TunnelInv
<1>4. CASE get_packetstart_final
  <2>1. /\ CT["B"].pc = "final" /\ Packetstart("B", KexF) /\ IDC' = IDC
        /\ CT["B"].ab.out \in Nat /\ CT["B"].ab.K = KAB
    BY <1>0, <1>4 DEF get_packetstart_final, BobInv, Runs, KexF, Passwords
  <2>2. IDsInv' /\ CTShape' /\ AliceInv' /\ BobInv' /\ BoxedInv' /\ NonceOnce'
        /\ \A r \in Side : CT'[r].pc = CT[r].pc /\ CT'[r].IDe = CT[r].IDe
    BY <1>1, <1>2, <2>1
  <2>3. PICK p : /\ wire' = wire \cup {p} /\ p.to = "A" /\ p.kex = KexF
                 /\ p.IDe = CT["B"].IDe /\ p.K = CT["B"].ab.K
    BY <1>1, <1>2, <2>1
  <2>4. KAB' = KAB /\ KexF' = KexF
    BY <2>1, IDsStay
  <2>5. WireInv'
    <3> SUFFICES ASSUME NEW q \in wire'
                 PROVE  \/ /\ q.to = "B" /\ CT'["A"].pc # "none"
                           /\ q.K = KAB' /\ q.kex = Passwords(IDC'["A"], IDC'["B"], "ab")
                           /\ q.IDe \in {NoID, CT'["A"].IDe}
                        \/ /\ q.to = "A" /\ CT'["B"].pc = "final"
                           /\ q.K = KAB' /\ q.kex = KexF' /\ q.IDe = CT'["B"].IDe
      BY DEF WireInv
    <3>1. CASE q = p
      BY <1>2, <2>1, <2>2, <2>3, <2>4, <3>1
    <3>2. CASE q \in wire
      BY <1>0, <1>2, <2>1, <2>2, <3>2, WireKept
    <3> QED
      BY <2>3, <3>1, <3>2
  <2> QED
    BY <2>2, <2>5 DEF TunnelInv
<1> QED
  BY <1>3, <1>4

\* box and box_ab keep the invariant of the tunnels.
LEMMA TunnelText ==
  ASSUME TunnelInv, NEW s \in Side, NEW stream \in {"ab", "final"}, SendText(s, stream)
  PROVE  TunnelInv'
<1>0. IDsInv /\ CTShape /\ AliceInv /\ BobInv /\ WireInv
  BY DEF TunnelInv
<1>1. /\ HasStream(s, stream) /\ Box(CT[s][stream], <<"text", s, texts[s]>>)
      /\ CT' = [CT EXCEPT ![s][stream].out = NonceAfter(@)] /\ IDC' = IDC /\ wire' = wire
  BY DEF SendText, HasStream
<1>2. IDsInv' /\ CTShape' /\ AliceInv' /\ BobInv' /\ BoxedInv' /\ NonceOnce'
  BY <1>1, BoxStep
<1>3. \A r \in Side : CT'[r].pc = CT[r].pc /\ CT'[r].IDe = CT[r].IDe
  BY <1>0, <1>1, CountUp
<1>4. "A" \in Side /\ "B" \in Side
  BY DEF Side
<1>5. WireInv'
  BY <1>0, <1>1, <1>3, <1>4, SameWire
<1> QED
  BY <1>2, <1>5 DEF TunnelInv

\* What holds in every state of the tunnels.
LEMMA TunnelInvariant == TunnelSpec => []TunnelInv
<1>1. TunnelInit => TunnelInv
  <2> SUFFICES ASSUME TunnelInit PROVE TunnelInv
    OBVIOUS
  <2>1. IDsInv
    <3>1. IDC \in [Side -> [owner : {<<o, "IDC">> : o \in Side},
                           keys : [Systems -> 0 .. MaxKeys], hash : {1, 2}]]
      BY DEF TunnelInit
    <3>2. ASSUME NEW s \in Side
          PROVE  IDC[s].owner = <<s, "IDC">> /\ HasKeys(IDC[s]) /\ IDC[s].hash \in {1, 2}
      <4>1. /\ IDC[s].owner \in {<<o, "IDC">> : o \in Side}
            /\ IDC[s].keys \in [Systems -> 0 .. MaxKeys] /\ IDC[s].hash \in {1, 2}
        BY <3>1
      <4>2. IDC[s].owner = <<s, "IDC">>
        BY <4>1 DEF TunnelInit
      <4>3. IDC[s].keys \in [Systems -> Nat]
        BY <4>1, TunnelConstants
      <4> QED
        BY <4>1, <4>2, <4>3 DEF HasKeys
    <3> QED
      BY <3>1, <3>2 DEF IDsInv, TunnelInit
  <2>2. /\ CT = [s \in Side |-> NoCT] /\ "A" \in Side /\ "B" \in Side
    BY DEF TunnelInit, Side
  <2>3. NoCT.pc = "none" /\ NoCT.ab = NoStream /\ NoCT.final = NoStream /\ NoCT.IDe = NoID
    BY DEF NoCT
  <2>4. IsTunnel(NoCT)
    BY DEF NoCT, IsTunnel
  <2>5. IsStream(NoStream)
    BY DEF NoStream, IsStream
  <2> HIDE DEF NoCT, NoStream, NoID
  <2>6. CTShape
    BY <2>2, <2>3, <2>4, <2>5 DEF CTShape
  <2>7. AliceInv /\ BobInv
    BY <2>2, <2>3 DEF AliceInv, BobInv
  <2>8. WireInv /\ BoxedInv /\ NonceOnce
    BY DEF TunnelInit, WireInv, BoxedInv, NonceOnce
  <2> QED
    BY <2>1, <2>6, <2>7, <2>8 DEF TunnelInv
<1>2. TunnelInv /\ UNCHANGED tunnelVars => TunnelInv'
  <2> SUFFICES ASSUME TunnelInv, IDC' = IDC, CT' = CT, wire' = wire, boxed' = boxed PROVE TunnelInv'
    BY DEF tunnelVars
  <2>0. IDsInv /\ CTShape /\ AliceInv /\ BobInv /\ WireInv /\ BoxedInv /\ NonceOnce
    BY DEF TunnelInv
  <2>1. KAB' = KAB /\ KexF' = KexF /\ IDsInv' /\ KF' = KF /\ \A r, h : Ephemeral(r, h)' = Ephemeral(r, h)
    BY <2>0, IDsStay
  <2>2. CTShape' /\ AliceInv' /\ BobInv'
    BY <2>0, <2>1 DEF CTShape, AliceInv, BobInv
  <2>3. WireInv'
    BY <2>0, SameWire
  <2>4. BoxedInv' /\ NonceOnce'
    BY <2>0, SameBoxed DEF HasStream
  <2> QED
    BY <2>1, <2>2, <2>3, <2>4 DEF TunnelInv
<1>3. TunnelInv /\ [TunnelNext]_tunnelVars => TunnelInv'
  BY <1>2, TunnelAlice, TunnelIDe, TunnelBob, TunnelFinal, TunnelPacketstart, TunnelText DEF TunnelNext
<1> QED
  BY <1>1, <1>3, PTL DEF TunnelSpec

\* Among IDs that share a system with an exchange, no two texts are encrypted with one key and
\* one nonce, for any systems, any numbers of keys, packetstarts and texts
\* (c_stream::box, calculate_nonce_odd and the two constructors of c_crypto_tunnel).
THEOREM NoncesOnce == MCSpec => []NonceOnce
<1>1. TunnelInv => NonceOnce
  BY DEF TunnelInv
<1> QED
  BY <1>1, TunnelInvariant, PartsOfNode, PTL

\* Both ends of a tunnel compute one key and write with nonces of other parity, and each can
\* read the first packetstart of the other, however many keys each ID has
\* (calculate_KCT and the exchanges of c_crypto_tunnel).
THEOREM KeysMatch == MCSpec => []KeysAgree
<1>1. TunnelInv => KeysAgree
  <2> SUFFICES ASSUME TunnelInv PROVE KeysAgree
    OBVIOUS
  <2>0. IDsInv /\ CTShape /\ AliceInv /\ BobInv /\ WireInv
    BY DEF TunnelInv
  <2>1. "A" \in Side /\ "B" \in Side
    BY DEF Side
  <2>2. /\ HasKeys(IDC["A"]) /\ HasKeys(IDC["B"])
        /\ IDC["A"].hash \in {1, 2} /\ IDC["B"].hash \in {1, 2} /\ IDC["A"].hash # IDC["B"].hash
    BY <2>0, <2>1 DEF IDsInv
  <2>3. \A m, n : (m <=> n) => Nonce(m, 0) = Nonce(n, 0)
    BY DEF Nonce
  <2>4. ASSUME NEW p \in wire, p.to = "B", p.IDe # NoID, p.nonce = Nonce(CT["A"].ab.odd, 0)
        PROVE  CanReadIDe(Stream(IDC["B"], IDC["A"], p.kex), p)
    <3> DEFINE st == Stream(IDC["B"], IDC["A"], p.kex)
    <3>1. CT["A"].pc # "none" /\ p.K = KAB /\ p.kex = Passwords(IDC["A"], IDC["B"], "ab")
      BY <2>0, <2>4 DEF WireInv
    <3>2. calculate_KCT(IDC["B"], IDC["A"], p.kex) = KAB
      BY <2>2, <3>1, KeySymmetric DEF KAB
    <3>3. Runs(st, KAB, IDC["B"].hash > IDC["A"].hash) /\ st.in = 0
      BY <3>2, NewStream
    <3>4. Runs(CT["A"].ab, KAB, IDC["A"].hash > IDC["B"].hash)
      BY <2>0, <3>1 DEF AliceInv
    <3> HIDE DEF st
    <3>5. CT["A"].ab.odd <=> ~st.odd
      BY <2>2, <3>3, <3>4 DEF Runs
    <3>6. p.nonce = UnboxNonce(st)
      BY <2>3, <2>4, <3>3, <3>5 DEF UnboxNonce
    <3> QED
      BY <2>4, <3>1, <3>3, <3>6 DEF CanReadIDe, Runs, st
  <2>5. ASSUME NEW p \in wire, p.to = "A", CT["A"].pc = "ab", p.nonce = Nonce(CT["B"].ab.odd, 0)
        PROVE  CanReadIDe(CT["A"].ab, p)
    <3>1. CT["B"].pc = "final" /\ p.K = KAB /\ p.IDe = CT["B"].IDe
      BY <2>0, <2>5 DEF WireInv
    <3>2. p.IDe # NoID
      BY <2>0, <2>1, <3>1, EphemeralFacts DEF BobInv
    <3>3. Runs(CT["A"].ab, KAB, IDC["A"].hash > IDC["B"].hash) /\ CT["A"].ab.in = 0
      BY <2>0, <2>5 DEF AliceInv
    <3>4. Runs(CT["B"].ab, KAB, IDC["B"].hash > IDC["A"].hash)
      BY <2>0, <3>1 DEF BobInv
    <3>5. CT["B"].ab.odd <=> ~CT["A"].ab.odd
      BY <2>2, <3>3, <3>4 DEF Runs
    <3>6. p.nonce = UnboxNonce(CT["A"].ab)
      BY <2>3, <2>5, <3>3, <3>5 DEF UnboxNonce
    <3> QED
      BY <3>1, <3>2, <3>3, <3>6 DEF CanReadIDe, Runs
  <2>6. ASSUME NEW stream \in {"ab", "final"}, CT["A"][stream] # NoStream, CT["B"][stream] # NoStream
        PROVE  CT["A"][stream].K = CT["B"][stream].K /\ CT["A"][stream].odd # CT["B"][stream].odd
    BY <2>0, <2>6, EndsAgree DEF HasStream
  <2> QED
    BY <2>4, <2>5, <2>6 DEF KeysAgree
<1> QED
  BY <1>1, TunnelInvariant, PartsOfNode, PTL
-----------------------------------------------------------------------------
\* The registry and the card.

\* The key that hkey_wrapper has open.
Wrapped == IF wrapper.is_open THEN {wrapper.hkey} ELSE {}

\* Before the search, in it, and after it.
Opening == {"open_adapter", "open_tun", "create_tun_fd"}
Searching == {"next_subkey", "component_id", "instance_id", "close_key", "open_tun_device"}
Found == {"get_device_handle", "get_mac", "ready", "remove_old", "create_address", "set_mtu", "configured"}

\* Whose keys are open: those that set() passed over, the one in the wrapper, and the
\* one that the local variable was just given.
KeysAccounted ==
  /\ wrapper \in [hkey : {wrapper.hkey}, is_open : BOOLEAN] /\ ~closedTwice
  /\ dpc \in Opening => keysOpen = {} /\ skipped = {} /\ ~wrapper.is_open
  /\ dpc = "get_subkeys" => keysOpen = {key} /\ skipped = {} /\ ~wrapper.is_open
  /\ dpc \in Searching =>
       /\ wrapper.is_open => wrapper.hkey \notin skipped
       /\ IF dpc = "component_id" THEN key \notin skipped \cup Wrapped /\ keysOpen = skipped \cup Wrapped \cup {key}
          ELSE keysOpen = skipped \cup Wrapped
  /\ dpc \in {"instance_id", "close_key"} /\ platform = "windows" => wrapper.is_open
  /\ dpc \notin Searching \cup {"get_subkeys"} => keysOpen = skipped

\* What set() passed over: it takes a key for the one it had only while it has none open, and
\* a key that it takes later is another one than the one that stays open.
SkippedOnce ==
  /\ platform = "windows" => skipped = {}
  /\ \A j, k \in skipped : j = k
  /\ skipped # {} /\ dpc \in Searching => wrapper.is_open \/ wrapper.hkey \in skipped

\* The card is opened once, and is the one whose path was remembered.
CardFollowed ==
  /\ dpc \in Opening \cup Found \cup Searching \cup {"get_subkeys", "connect", "thrown"}
  /\ platform \in Windows \cup {"linux", "apple"}
  /\ platform \in Windows => dpc \notin {"open_tun", "create_tun_fd", "connect"}
  /\ platform \notin Windows => dpc \in {"open_tun", "create_tun_fd", "connect", "ready", "set_mtu", "configured", "thrown"}
  /\ dpc \in Opening \cup Searching \cup {"get_subkeys", "get_device_handle"} => devOpen = 0
  /\ dpc \in {"get_mac", "connect", "ready", "remove_old", "create_address", "set_mtu", "configured"} => devOpen = 1
  /\ platform = "windows_obj" /\ dpc \in {"instance_id", "open_tun_device"} => m_register_tun_path = at
  /\ platform \in Windows /\ dpc \in Found => subkeys[m_guid] = "tap"
  /\ platform = "windows_obj" /\ dpc \in Found => m_register_tun_path = m_guid
  /\ addrs \subseteq {"old1", "old2", "own"}
  /\ dpc \in Opening \cup Searching \cup {"get_subkeys", "get_device_handle", "get_mac", "connect", "ready", "remove_old"} =>
       "own" \notin addrs /\ (platform \notin Windows => addrs = {})
  /\ dpc = "create_address" => addrs = {}
  /\ dpc \in {"set_mtu", "configured"} => addrs = {"own"}

DeviceInv == KeysAccounted /\ SkippedOnce /\ CardFollowed

\* Steps that touch the card alone leave the keys as they are.
LEMMA DeviceInit == TunDeviceInit => DeviceInv
<1> SUFFICES ASSUME TunDeviceInit PROVE DeviceInv
  OBVIOUS
<1>1. platform \in Windows \cup {"linux", "apple"} /\ wrapper = [hkey |-> 0, is_open |-> FALSE]
      /\ keysOpen = {} /\ skipped = {} /\ closedTwice = FALSE /\ devOpen = 0
  BY DEF TunDeviceInit
<1>2. dpc = CASE platform = "linux" -> "open_tun" [] platform = "apple" -> "create_tun_fd"
             [] OTHER -> "open_adapter"
  BY DEF TunDeviceInit
<1>3. /\ platform \in Windows => dpc = "open_adapter"
      /\ platform = "linux" => dpc = "open_tun"
      /\ platform = "apple" => dpc = "create_tun_fd"
  BY <1>1, <1>2 DEF Windows
<1>4. addrs \in {{}, {"old1", "old2"}} /\ (platform \notin Windows => addrs = {})
  BY DEF TunDeviceInit
<1>5. wrapper \in [hkey : {wrapper.hkey}, is_open : BOOLEAN] /\ ~wrapper.is_open
  BY <1>1
<1>6. KeysAccounted
  BY <1>1, <1>3, <1>5 DEF KeysAccounted, Opening, Searching, Windows
<1>7. CardFollowed
  BY <1>1, <1>3, <1>4 DEF CardFollowed, Opening, Searching, Found, Windows
<1>8. SkippedOnce
  BY <1>1 DEF SkippedOnce
<1> QED
  BY <1>6, <1>7, <1>8 DEF DeviceInv

\* RegCloseKey of a key that is open.
LEMMA KeyClosed ==
  ASSUME NEW k \in keysOpen, ~closedTwice, RegCloseKey(k)
  PROVE  keysOpen' = keysOpen \ {k} /\ ~closedTwice'
  BY DEF RegCloseKey

\* The destructor of the wrapper.
LEMMA WrapperClosed ==
  ASSUME wrapper \in [hkey : {wrapper.hkey}, is_open : BOOLEAN], Wrapped \subseteq keysOpen, ~closedTwice,
         wrapper' = [wrapper EXCEPT !.is_open = FALSE],
         IF wrapper.is_open THEN RegCloseKey(wrapper.hkey) ELSE UNCHANGED <<keysOpen, closedTwice>>
  PROVE  /\ keysOpen' = keysOpen \ Wrapped /\ ~closedTwice' /\ wrapper'.is_open = FALSE
         /\ wrapper' \in [hkey : {wrapper'.hkey}, is_open : BOOLEAN]
<1>1. wrapper'.is_open = FALSE /\ wrapper'.hkey = wrapper.hkey
  OBVIOUS
<1>2. wrapper' \in [hkey : {wrapper.hkey}, is_open : BOOLEAN]
  BY Zenon
<1>3. keysOpen' = keysOpen \ Wrapped /\ ~closedTwice'
  <2>1. CASE wrapper.is_open
    BY <2>1, KeyClosed DEF Wrapped
  <2>2. CASE ~wrapper.is_open
    BY <2>2 DEF Wrapped
  <2> QED
    BY <2>1, <2>2
<1> QED
  BY <1>1, <1>2, <1>3

\* A throw during the search closes what is in the wrapper.
LEMMA ThrownKeys ==
  ASSUME DeviceInv, Thrown, dpc \in Searching \cup {"open_adapter"}, dpc # "component_id", skipped' = skipped
  PROVE  KeysAccounted'
<1>1. wrapper \in [hkey : {wrapper.hkey}, is_open : BOOLEAN] /\ ~closedTwice
  BY DEF DeviceInv, KeysAccounted
<1>2. keysOpen = skipped \cup Wrapped /\ skipped \cap Wrapped = {}
  BY DEF DeviceInv, KeysAccounted, Wrapped, Searching, Opening
<1>3. wrapper' = [wrapper EXCEPT !.is_open = FALSE]
      /\ IF wrapper.is_open THEN RegCloseKey(wrapper.hkey) ELSE UNCHANGED <<keysOpen, closedTwice>>
  BY DEF Thrown
<1>4. /\ keysOpen' = keysOpen \ Wrapped /\ ~closedTwice' /\ wrapper'.is_open = FALSE
      /\ wrapper' \in [hkey : {wrapper'.hkey}, is_open : BOOLEAN]
  BY <1>1, <1>2, <1>3, WrapperClosed
<1>5. keysOpen' = skipped'
  BY <1>2, <1>4
<1>6. dpc' = "thrown"
  BY DEF Thrown
<1> QED
  BY <1>4, <1>5, <1>6 DEF KeysAccounted, Searching, Opening

\* Where a step of the search leaves the keys.
LEMMA SearchKeys ==
  ASSUME DeviceInv, wrapper' \in [hkey : {wrapper'.hkey}, is_open : BOOLEAN], ~closedTwice', 
         dpc' \in Searching, dpc' # "component_id",
         wrapper'.is_open => wrapper'.hkey \notin skipped',
         keysOpen' = skipped' \cup Wrapped',
         dpc' \in {"instance_id", "close_key"} /\ platform' = "windows" => wrapper'.is_open
  PROVE  KeysAccounted'
  BY DEF KeysAccounted, Searching, Opening

\* A key that was just opened.
LEMMA KeyOpened ==
  ASSUME DeviceInv, dpc = "next_subkey", skipped' = skipped, RegOpenKey("component_id")
  PROVE  KeysAccounted'
<1>1. CASE Thrown
  BY <1>1, ThrownKeys DEF Searching
<1>2. ASSUME NEW k \in HkeyValue \ keysOpen, key' = k, keysOpen' = keysOpen \cup {k}, dpc' = "component_id",
             wrapper' = wrapper, closedTwice' = closedTwice
      PROVE  KeysAccounted'
  <2>1. /\ wrapper \in [hkey : {wrapper.hkey}, is_open : BOOLEAN] /\ ~closedTwice
        /\ (wrapper.is_open => wrapper.hkey \notin skipped)
        /\ keysOpen = skipped \cup Wrapped
    BY DEF DeviceInv, KeysAccounted, Searching
  <2>2. Wrapped' = Wrapped
    BY <1>2 DEF Wrapped
  <2>3. key' \notin skipped' \cup Wrapped' /\ keysOpen' = skipped' \cup Wrapped' \cup {key'}
    BY <1>2, <2>1, <2>2
  <2> QED
    BY <1>2, <2>1, <2>3 DEF KeysAccounted, Searching, Opening
<1> QED
  BY <1>1, <1>2 DEF RegOpenKey

\* The steps of the search, one by one.
LEMMA RegistryStep == DeviceInv /\ [TunDeviceNext]_tunDeviceVars => KeysAccounted'
<1> SUFFICES ASSUME DeviceInv, [TunDeviceNext]_tunDeviceVars PROVE KeysAccounted'
  OBVIOUS
<1>0. wrapper \in [hkey : {wrapper.hkey}, is_open : BOOLEAN] /\ ~closedTwice
  BY DEF DeviceInv, KeysAccounted
<1>1. CASE UNCHANGED tunDeviceVars
  BY <1>1 DEF tunDeviceVars, searchVars, DeviceInv, KeysAccounted, Wrapped
<1>2. CASE OpenAdapter
  <2>1. skipped' = skipped /\ dpc = "open_adapter" /\ RegOpenKey("get_subkeys")
    BY <1>2 DEF OpenAdapter
  <2>2. CASE Thrown
    BY <2>1, <2>2, ThrownKeys
  <2>3. ASSUME NEW k \in HkeyValue \ keysOpen, key' = k, keysOpen' = keysOpen \cup {k}, dpc' = "get_subkeys",
               wrapper' = wrapper, closedTwice' = closedTwice
        PROVE  KeysAccounted'
    <3>1. keysOpen = {} /\ skipped = {} /\ ~wrapper.is_open
      BY <2>1 DEF DeviceInv, KeysAccounted, Opening
    <3> QED
      BY <1>0, <2>1, <2>3, <3>1 DEF KeysAccounted, Searching, Opening
  <2> QED
    BY <2>1, <2>2, <2>3 DEF RegOpenKey
<1>3. CASE get_subkeys
  <2>1. dpc = "get_subkeys" /\ wrapper' = [hkey |-> key, is_open |-> FALSE] /\ RegCloseKey(key)
        /\ dpc' \in {"next_subkey", "thrown"} /\ skipped' = skipped
    BY <1>3 DEF get_subkeys
  <2>2. keysOpen = {key} /\ skipped = {}
    BY <2>1 DEF DeviceInv, KeysAccounted
  <2>3. keysOpen' = {} /\ ~closedTwice'
    BY <1>0, <2>1, <2>2, KeyClosed
  <2>4. wrapper'.hkey = key /\ wrapper'.is_open = FALSE
    BY <2>1
  <2>5. wrapper' \in [hkey : {key}, is_open : BOOLEAN]
    <3>1. FALSE \in BOOLEAN
      OBVIOUS
    <3> QED
      BY <2>1, <3>1, Zenon
  <2>6. Wrapped' = {}
    BY <2>4 DEF Wrapped
  <2> QED
    BY <2>1, <2>2, <2>3, <2>4, <2>5, <2>6 DEF KeysAccounted, Searching, Opening
<1>4. CASE NextSubkey
  <2>1. dpc = "next_subkey" /\ skipped' = skipped /\ platform' = platform
    BY <1>4 DEF NextSubkey
  <2>2. CASE Thrown
    BY <2>1, <2>2, ThrownKeys DEF Searching
  <2>3. CASE RegOpenKey("component_id")
    BY <2>1, <2>3, KeyOpened
  <2>4. CASE UNCHANGED <<dpc, key, keysOpen, wrapper, closedTwice>>
    <3>1. UNCHANGED <<dpc, key, keysOpen, wrapper, closedTwice, skipped, platform>>
      BY <2>1, <2>4
    <3> QED
      BY <3>1 DEF DeviceInv, KeysAccounted, Wrapped
  <2> QED
    BY <1>4, <2>2, <2>3, <2>4 DEF NextSubkey
<1>5. CASE ComponentId
  <2>0. dpc = "component_id" /\ platform' = platform
    BY <1>5 DEF ComponentId
  <2>1. /\ (wrapper.is_open => wrapper.hkey \notin skipped)
        /\ key \notin skipped \cup Wrapped /\ keysOpen = skipped \cup Wrapped \cup {key}
    BY <2>0 DEF DeviceInv, KeysAccounted, Searching
  <2>2. CASE subkeys[at] = "no_id"
    <3>1. RegCloseKey(key) /\ wrapper' = wrapper /\ skipped' = skipped /\ dpc' = "next_subkey"
      BY <1>5, <2>2 DEF ComponentId, NoComponentId
    <3>2. keysOpen' = keysOpen \ {key} /\ ~closedTwice'
      BY <1>0, <2>1, <3>1, KeyClosed
    <3>3. keysOpen' = skipped' \cup Wrapped'
      BY <2>1, <3>1, <3>2 DEF Wrapped
    <3> QED
      BY <1>0, <2>1, <3>1, <3>2, <3>3, SearchKeys DEF Searching
  <2>3. CASE subkeys[at] # "no_id"
    <3>1. set(key) /\ dpc' \in {"instance_id", "close_key"}
      BY <1>5, <2>3 DEF ComponentId
    <3>2. CASE Skips(key)
      <4>1. skipped' = skipped \cup {key} /\ wrapper' = wrapper /\ keysOpen' = keysOpen /\ closedTwice' = closedTwice
        BY <3>1, <3>2 DEF set
      <4>2. wrapper.hkey = key /\ platform = "windows_obj"
        BY <3>2 DEF Skips
      <4>3. ~wrapper.is_open
        BY <2>1, <4>2 DEF Wrapped
      <4>4. keysOpen' = skipped' \cup Wrapped'
        BY <2>1, <4>1, <4>3 DEF Wrapped
      <4> QED
        BY <1>0, <2>0, <3>1, <4>1, <4>2, <4>3, <4>4, SearchKeys DEF Searching
    <3>3. CASE ~Skips(key)
      <4>1. /\ wrapper' = [hkey |-> key, is_open |-> TRUE] /\ skipped' = skipped
            /\ IF wrapper.is_open THEN RegCloseKey(wrapper.hkey) ELSE UNCHANGED <<keysOpen, closedTwice>>
        BY <3>1, <3>3 DEF set
      <4>2. keysOpen' = keysOpen \ Wrapped /\ ~closedTwice'
        <5>1. CASE wrapper.is_open
          BY <5>1, <1>0, <2>1, <4>1, KeyClosed DEF Wrapped
        <5>2. CASE ~wrapper.is_open
          BY <5>2, <1>0, <4>1 DEF Wrapped
        <5> QED
          BY <5>1, <5>2
      <4>3. wrapper'.hkey = key /\ wrapper'.is_open /\ Wrapped' = {key}
        BY <4>1 DEF Wrapped
      <4>4. wrapper' \in [hkey : {key}, is_open : BOOLEAN]
        <5>1. TRUE \in BOOLEAN
          OBVIOUS
        <5> QED
          BY <4>1, <5>1, Zenon
      <4>5. skipped \cap Wrapped = {}
        BY <2>1 DEF Wrapped
      <4>6. keysOpen' = skipped' \cup Wrapped' /\ key \notin skipped'
        BY <2>1, <4>1, <4>2, <4>3, <4>5
      <4> QED
        BY <3>1, <4>2, <4>3, <4>4, <4>6, SearchKeys DEF Searching
    <3> QED
      BY <3>2, <3>3
  <2> QED
    BY <2>2, <2>3
<1>6. CASE InstanceId
  <2>0. dpc = "instance_id" /\ platform' = platform /\ skipped' = skipped
    BY <1>6 DEF InstanceId
  <2>1. /\ (wrapper.is_open => wrapper.hkey \notin skipped)
        /\ keysOpen = skipped \cup Wrapped /\ (platform = "windows" => wrapper.is_open)
    BY <2>0 DEF DeviceInv, KeysAccounted, Searching
  <2>2. CASE Thrown
    BY <2>0, <2>2, ThrownKeys DEF Searching
  <2>3. CASE dpc' \in {"close_key", "open_tun_device"} /\ UNCHANGED <<wrapper, keysOpen, closedTwice>>
    <3>1. keysOpen' = skipped' \cup Wrapped'
      BY <2>0, <2>1, <2>3 DEF Wrapped
    <3> QED
      BY <1>0, <2>0, <2>1, <2>3, <3>1, SearchKeys DEF Searching
  <2>4. CASE dpc' = "open_tun_device" /\ platform = "windows" /\ CloseWrapper
    <3>1. wrapper' = [wrapper EXCEPT !.is_open = FALSE]
          /\ IF wrapper.is_open THEN RegCloseKey(wrapper.hkey) ELSE UNCHANGED <<keysOpen, closedTwice>>
      BY <2>1, <2>4 DEF CloseWrapper
    <3>2. /\ keysOpen' = keysOpen \ Wrapped /\ ~closedTwice' /\ wrapper'.is_open = FALSE
          /\ wrapper' \in [hkey : {wrapper'.hkey}, is_open : BOOLEAN]
      BY <1>0, <2>1, <3>1, WrapperClosed
    <3>3. keysOpen' = skipped' \cup Wrapped'
      BY <2>0, <2>1, <3>2 DEF Wrapped
    <3> QED
      BY <2>4, <3>2, <3>3, SearchKeys DEF Searching
  <2> QED
    BY <1>6, <2>2, <2>3, <2>4 DEF InstanceId
<1>7. CASE CloseKey
  <2>0. dpc = "close_key" /\ dpc' = "next_subkey" /\ platform' = platform /\ skipped' = skipped
    BY <1>7 DEF CloseKey
  <2>1. /\ (wrapper.is_open => wrapper.hkey \notin skipped)
        /\ keysOpen = skipped \cup Wrapped /\ (platform = "windows" => wrapper.is_open)
    BY <2>0 DEF DeviceInv, KeysAccounted, Searching
  <2>2. CASE platform # "windows"
    <3>1. UNCHANGED <<wrapper, keysOpen, closedTwice>>
      BY <1>7, <2>2 DEF CloseKey
    <3>2. keysOpen' = skipped' \cup Wrapped'
      BY <2>0, <2>1, <3>1 DEF Wrapped
    <3> QED
      BY <1>0, <2>0, <2>1, <3>1, <3>2, SearchKeys DEF Searching
  <2>3. CASE platform = "windows"
    <3>1. wrapper' = [wrapper EXCEPT !.is_open = FALSE]
          /\ IF wrapper.is_open THEN RegCloseKey(wrapper.hkey) ELSE UNCHANGED <<keysOpen, closedTwice>>
      BY <1>7, <2>1, <2>3 DEF CloseKey, CloseWrapper
    <3>2. /\ keysOpen' = keysOpen \ Wrapped /\ ~closedTwice' /\ wrapper'.is_open = FALSE
          /\ wrapper' \in [hkey : {wrapper'.hkey}, is_open : BOOLEAN]
      BY <1>0, <2>1, <3>1, WrapperClosed
    <3>3. keysOpen' = skipped' \cup Wrapped'
      BY <2>0, <2>1, <3>2 DEF Wrapped
    <3> QED
      BY <2>0, <3>2, <3>3, SearchKeys DEF Searching
  <2> QED
    BY <2>2, <2>3
<1>8. CASE TryCard
  <2>0. dpc = "open_tun_device" /\ platform' = platform /\ skipped' = skipped
    BY <1>8 DEF TryCard
  <2>1. /\ (wrapper.is_open => wrapper.hkey \notin skipped)
        /\ keysOpen = skipped \cup Wrapped
    BY <2>0 DEF DeviceInv, KeysAccounted, Searching
  <2>2. CASE Thrown
    BY <2>0, <2>2, ThrownKeys DEF Searching
  <2>3. CASE dpc' = "next_subkey" /\ UNCHANGED <<wrapper, keysOpen, closedTwice>>
    <3>1. keysOpen' = skipped' \cup Wrapped'
      BY <2>0, <2>1, <2>3 DEF Wrapped
    <3> QED
      BY <1>0, <2>0, <2>1, <2>3, <3>1, SearchKeys DEF Searching
  <2>4. CASE /\ dpc' = "get_device_handle" /\ wrapper' = [wrapper EXCEPT !.is_open = FALSE]
             /\ IF wrapper.is_open THEN RegCloseKey(wrapper.hkey) ELSE UNCHANGED <<keysOpen, closedTwice>>
    <3>2. /\ keysOpen' = keysOpen \ Wrapped /\ ~closedTwice' /\ wrapper'.is_open = FALSE
          /\ wrapper' \in [hkey : {wrapper'.hkey}, is_open : BOOLEAN]
      BY <1>0, <2>1, <2>4, WrapperClosed
    <3>3. keysOpen' = skipped'
      BY <2>0, <2>1, <3>2 DEF Wrapped
    <3> QED
      BY <2>4, <3>2, <3>3 DEF KeysAccounted, Searching, Opening
  <2> QED
    BY <1>8, <2>2, <2>3, <2>4 DEF TryCard
<1>9. ASSUME UNCHANGED searchVars, platform' = platform, dpc \notin Searching \cup {"get_subkeys"}, 
             dpc' \notin Searching \cup Opening \cup {"get_subkeys"}
      PROVE  KeysAccounted'
  <2>1. UNCHANGED <<keysOpen, wrapper, skipped, closedTwice>> /\ keysOpen = skipped
    BY <1>9 DEF searchVars, DeviceInv, KeysAccounted
  <2> QED
    BY <1>0, <1>9, <2>1 DEF KeysAccounted, Searching, Opening
<1>10. CASE get_device_handle \/ get_mac \/ create_tun_fd \/ ConnectUnit \/ OpenTun
  BY <1>9, <1>10 DEF get_device_handle, get_mac, create_tun_fd, ConnectUnit, OpenTun, Searching, Opening
<1>11. CASE get_human_name \/ RemoveOldAddress \/ CreateAddress \/ set_ipv6_address \/ set_mtu
  BY <1>9, <1>11 DEF get_human_name, RemoveOldAddress, CreateAddress, set_ipv6_address, set_mtu, Searching, Opening
<1> QED
  BY <1>1, <1>2, <1>3, <1>4, <1>5, <1>6, <1>7, <1>8, <1>10, <1>11 DEF TunDeviceNext

\* A step of the search passes over one key at most.
LEMMA SkipStep == DeviceInv /\ [TunDeviceNext]_tunDeviceVars => SkippedOnce'
<1> SUFFICES ASSUME DeviceInv, [TunDeviceNext]_tunDeviceVars PROVE SkippedOnce'
  OBVIOUS
<1>0. SkippedOnce
  BY DEF DeviceInv
<1>1. ASSUME skipped' = skipped, platform' = platform,
             skipped # {} /\ dpc' \in Searching => dpc \in Searching /\ (wrapper' = wrapper \/ platform = "windows")
      PROVE  SkippedOnce'
  BY <1>0, <1>1 DEF SkippedOnce
<1>2. CASE UNCHANGED tunDeviceVars
  BY <1>1, <1>2 DEF tunDeviceVars, searchVars
<1>3. CASE OpenAdapter
  BY <1>1, <1>3 DEF OpenAdapter, RegOpenKey, Thrown, Searching
<1>4. CASE get_subkeys
  <2>1. skipped = {}
    BY <1>4 DEF get_subkeys, DeviceInv, KeysAccounted
  <2> QED
    BY <1>1, <1>4, <2>1 DEF get_subkeys
<1>5. CASE NextSubkey
  BY <1>1, <1>5 DEF NextSubkey, RegOpenKey, Thrown, Searching
<1>6. CASE ComponentId
  <2>1. dpc = "component_id" /\ platform' = platform
    BY <1>6 DEF ComponentId
  <2>2. CASE subkeys[at] = "no_id"
    BY <1>1, <1>6, <2>1, <2>2 DEF ComponentId, NoComponentId, Searching
  <2>3. CASE subkeys[at] # "no_id" /\ ~Skips(key)
    <3>1. set(key)
      BY <1>6, <2>3 DEF ComponentId
    <3>2. skipped' = skipped /\ wrapper'.is_open
      BY <2>3, <3>1 DEF set
    <3> QED
      BY <1>0, <2>1, <3>2 DEF SkippedOnce
  <2>4. CASE subkeys[at] # "no_id" /\ Skips(key)
    <3>1. set(key)
      BY <1>6, <2>4 DEF ComponentId
    <3>2. skipped' = skipped \cup {key} /\ wrapper' = wrapper /\ wrapper.hkey = key /\ platform = "windows_obj"
      BY <2>4, <3>1 DEF set, Skips
    <3>3. key \notin skipped \cup Wrapped
      BY <2>1 DEF DeviceInv, KeysAccounted, Searching
    <3>4. skipped = {}
      BY <1>0, <2>1, <3>2, <3>3 DEF SkippedOnce, Wrapped, Searching
    <3> QED
      BY <2>1, <3>2, <3>4 DEF SkippedOnce
  <2> QED
    BY <2>2, <2>3, <2>4
<1>7. CASE InstanceId
  BY <1>1, <1>7 DEF InstanceId, Thrown, Searching
<1>8. CASE CloseKey
  BY <1>1, <1>8 DEF CloseKey, Searching
<1>9. CASE TryCard
  BY <1>1, <1>9 DEF TryCard, Thrown, Searching
<1>10. CASE get_device_handle \/ get_mac \/ create_tun_fd \/ ConnectUnit \/ OpenTun
  BY <1>1, <1>10 DEF get_device_handle, get_mac, create_tun_fd, ConnectUnit, OpenTun, searchVars, Searching
<1>11. CASE get_human_name \/ RemoveOldAddress \/ CreateAddress \/ set_ipv6_address \/ set_mtu
  BY <1>1, <1>11 DEF get_human_name, RemoveOldAddress, CreateAddress, set_ipv6_address, set_mtu, searchVars, Searching
<1> QED
  BY <1>2, <1>3, <1>4, <1>5, <1>6, <1>7, <1>8, <1>9, <1>10, <1>11 DEF TunDeviceNext

\* What a step does with the card.
LEMMA CardStep == DeviceInv /\ [TunDeviceNext]_tunDeviceVars => CardFollowed'
<1> SUFFICES ASSUME CardFollowed, [TunDeviceNext]_tunDeviceVars PROVE CardFollowed'
  BY DEF DeviceInv
<1> USE DEF CardFollowed, Windows
<1>1. CASE UNCHANGED tunDeviceVars
  BY <1>1 DEF tunDeviceVars, searchVars, cardVars
<1>2. ASSUME UNCHANGED <<platform, subkeys, cardVars>>, dpc' = "thrown"
      PROVE  CardFollowed'
  BY <1>2 DEF cardVars, Opening, Searching, Found
<1>3. ASSUME UNCHANGED <<platform, subkeys, cardVars>>, dpc \in {"open_adapter", "get_subkeys"} \cup Searching,
             dpc' \in {"get_subkeys"} \cup (Searching \ {"instance_id", "open_tun_device"})
      PROVE  CardFollowed'
  BY <1>3 DEF cardVars, Opening, Searching, Found
<1>4. CASE OpenAdapter \/ get_subkeys \/ NextSubkey
  BY <1>2, <1>3, <1>4 DEF OpenAdapter, get_subkeys, NextSubkey, RegOpenKey, Thrown, Searching
<1>5. CASE ComponentId
  <2>1. UNCHANGED <<platform, subkeys, at, cardVars>> /\ dpc = "component_id"
    BY <1>5 DEF ComponentId
  <2>2. CASE dpc' = "instance_id"
    <3>1. platform = "windows_obj" => m_register_tun_path' = at'
      BY <1>5, <2>2 DEF ComponentId
    <3> QED
      BY <2>1, <2>2, <3>1 DEF cardVars, Opening, Searching, Found
  <2>3. CASE dpc' \in {"next_subkey", "close_key"}
    BY <1>3, <2>1, <2>3 DEF Searching
  <2> QED
    BY <1>5, <2>2, <2>3 DEF ComponentId
<1>6. CASE InstanceId
  <2>1. UNCHANGED <<platform, subkeys, at, cardVars, m_register_tun_path>> /\ dpc = "instance_id"
    BY <1>6 DEF InstanceId
  <2>2. dpc' \in {"thrown", "close_key", "open_tun_device"}
    BY <1>6 DEF InstanceId, Thrown
  <2>3. CASE dpc' = "open_tun_device"
    BY <2>1, <2>3 DEF cardVars, Opening, Searching, Found
  <2> QED
    BY <1>2, <1>3, <2>1, <2>2, <2>3 DEF Searching
<1>7. CASE CloseKey
  BY <1>3, <1>7 DEF CloseKey, Searching
<1>8. CASE TryCard
  <2>1. UNCHANGED <<platform, subkeys, at, cardVars, m_register_tun_path>> /\ dpc = "open_tun_device"
    BY <1>8 DEF TryCard
  <2>2. \/ dpc' \in {"thrown", "next_subkey"}
        \/ dpc' = "get_device_handle" /\ m_guid' = at /\ subkeys[at] = "tap"
    BY <1>8 DEF TryCard, Thrown
  <2>3. CASE dpc' = "get_device_handle" /\ m_guid' = at /\ subkeys[at] = "tap"
    <3>1. subkeys'[m_guid'] = "tap" /\ (platform = "windows_obj" => m_register_tun_path' = m_guid')
      BY <2>1, <2>3 DEF Searching
    <3> QED
      BY <2>1, <2>3, <3>1 DEF cardVars, Opening, Searching, Found
  <2> QED
    BY <1>2, <1>3, <2>1, <2>2, <2>3 DEF Searching
<1>9. CASE get_device_handle
  BY <1>9 DEF get_device_handle, searchVars, Opening, Searching, Found
<1>10. CASE get_mac
  BY <1>10 DEF get_mac, searchVars, cardVars, Opening, Searching, Found
<1>11. CASE create_tun_fd
  BY <1>11 DEF create_tun_fd, searchVars, Opening, Searching, Found
<1>12. CASE ConnectUnit
  BY <1>12 DEF ConnectUnit, searchVars, Opening, Searching, Found
<1>13. CASE OpenTun
  BY <1>13 DEF OpenTun, searchVars, Opening, Searching, Found
<1>14. CASE get_human_name
  BY <1>14 DEF get_human_name, searchVars, cardVars, Opening, Searching, Found
<1>15. CASE RemoveOldAddress
  BY <1>15 DEF RemoveOldAddress, AfterDelete, searchVars, Opening, Searching, Found
<1>16. CASE CreateAddress
  BY <1>16 DEF CreateAddress, searchVars, Opening, Searching, Found
<1>17. CASE set_ipv6_address
  BY <1>17 DEF set_ipv6_address, searchVars, Opening, Searching, Found
<1>18. CASE set_mtu
  BY <1>18 DEF set_mtu, searchVars, Opening, Searching, Found
<1> QED
  BY <1>1, <1>4, <1>5, <1>6, <1>7, <1>8, <1>9, <1>10, <1>11, <1>12, <1>13, <1>14, <1>15, <1>16,
     <1>17, <1>18 DEF TunDeviceNext

\* The search leaves no key open but the one that set() may have passed over, and the card
\* that came up is the one that was found.
LEMMA DeviceHolds == DeviceSpec => [](RegistryClosed /\ CardIsOurs)
<1>1. TunDeviceInit => DeviceInv
  BY DeviceInit
<1>2. DeviceInv /\ [TunDeviceNext]_tunDeviceVars => DeviceInv'
  BY RegistryStep, SkipStep, CardStep DEF DeviceInv
<1>3. DeviceInv => RegistryClosed /\ CardIsOurs
  <2> SUFFICES ASSUME DeviceInv PROVE RegistryClosed /\ CardIsOurs
    OBVIOUS
  <2>1. RegistryClosed
    BY DEF DeviceInv, KeysAccounted, SkippedOnce, RegistryClosed, Final, Searching
  <2>2. CardIsOurs
    BY DEF DeviceInv, CardFollowed, CardIsOurs, Found, Windows
  <2> QED
    BY <2>1, <2>2
<1> QED
  BY <1>1, <1>2, <1>3, PTL DEF DeviceSpec

-----------------------------------------------------------------------------
\* The devices that the loop reads.

GotRecord == [data : Nat, size : Int, from : Nat]

\* The queue has the last packets that arrived.
QueueOK(q, n) == q \in Seq(Nat) /\ Len(q) <= n /\ \A i \in 1 .. Len(q) : q[i] = n - Len(q) + i

\* Of the packets taken off the queue, those the loop was given are older than the one that
\* it can read, which is older than the one with which the read completed.
Reads(done, readed, taken, g) ==
  /\ done \in 0 .. taken /\ readed \in 0 .. taken
  /\ g \in Seq(GotRecord) /\ InOrder(g) /\ \A i \in DOMAIN g : g[i].size <= taken
  /\ done # 0 => readed < done /\ \A i \in DOMAIN g : g[i].size < done
  /\ readed # 0 => \A i \in DOMAIN g : g[i].size < readed

\* What is in the buffer: the packet that was taken last, so that what can be read is whole
\* until the next read completes.  Only the system completes one on its own.
BufferOK(f, dev, taken) ==
  /\ f # "overlapped" => dev.done = 0
  /\ f = "select" => dev.readed = 0
  /\ dev.endpoint = dev.buffer
  /\ dev.done # 0 => dev.done = taken /\ dev.buffer = taken
  /\ dev.readed # 0 => dev.buffer = taken /\ dev.readed = IF dev.done = 0 THEN taken ELSE taken - 1

\* What the loop was given is whole, or torn, or made up of a receive that failed.
GivenOK(f, bad, g) ==
  \A i \in DOMAIN g : IF Received(g[i]) THEN g[i] = Whole(g[i].size) \/ (f = "overlapped" /\ g[i] = Torn(g[i].size))
                     ELSE f = "select" /\ i \in bad /\ g[i] = Stale(g, i)

IsDev(dev) == dev \in [buffer : Nat, armed : {dev.armed}, done : Nat, readed : Nat, endpoint : Nat]

DevInv(f, dev, q, n, g) ==
  /\ IsDev(dev) /\ n \in Nat /\ QueueOK(q, n)
  /\ Reads(dev.done, dev.readed, n - Len(q), g)
  /\ BufferOK(f, dev, n - Len(q))

\* The tun is read when its event says so and then has something; select has seen what is in
\* the queue.
LoopInv ==
  /\ lpc \in {"wait", "dispatch"}
  /\ flavour = "select" /\ lpc = "dispatch" =>
       (m_tun_event => tunQueue # <<>>) /\ (m_udp_event => udpQueue # <<>>)
  /\ flavour # "select" => (tunDev.readed # 0 <=> lpc = "dispatch" /\ m_tun_event)

\* What the loop was given so far.
GotInv ==
  /\ GivenOK(flavour, failed.udp, got.udp) /\ GivenOK(flavour, {}, got.tun)
  /\ \A i \in DOMAIN got.tun : got.tun[i].size > 0

\* With select every arrival at the socket that was taken gave the loop something.
TakenInv == flavour = "select" => Len(got.udp) = udpIn - Len(udpQueue)

EventInv ==
  /\ got \in [udp : {got.udp}, tun : {got.tun}]
  /\ DevInv(flavour, udpDev, udpQueue, udpIn, got.udp)
  /\ DevInv(flavour, tunDev, tunQueue, tunIn, got.tun)
  /\ GotInv /\ TakenInv /\ LoopInv

\* A packet arrives.
LEMMA PacketArrives ==
  ASSUME NEW f, NEW dev, NEW q, NEW n, NEW g, DevInv(f, dev, q, n, g)
  PROVE  DevInv(f, dev, Append(q, n + 1), n + 1, g)
<1>1. q \in Seq(Nat) /\ n \in Nat /\ Len(q) <= n /\ Len(q) \in Nat
  BY DEF DevInv, QueueOK
<1> DEFINE p == Append(q, n + 1)
<1>2. p \in Seq(Nat) /\ Len(p) = Len(q) + 1 /\ p[Len(q) + 1] = n + 1
      /\ \A i \in 1 .. Len(q) : p[i] = q[i]
  BY <1>1
<1> HIDE DEF p
<1>3. (n + 1) - Len(p) = n - Len(q)
  BY <1>1, <1>2
<1>4. QueueOK(p, n + 1)
  <2>1. \A i \in 1 .. Len(q) : q[i] = n - Len(q) + i
    BY DEF DevInv, QueueOK
  <2>2. ASSUME NEW i \in 1 .. Len(p) PROVE p[i] = n + 1 - Len(p) + i
    <3>1. CASE i \in 1 .. Len(q)
      BY <1>1, <1>2, <2>1, <3>1
    <3>2. CASE i = Len(q) + 1
      BY <1>1, <1>2, <3>2
    <3> QED
      BY <1>1, <1>2, <3>1, <3>2
  <2> QED
    BY <1>1, <1>2, <2>2 DEF QueueOK
<1> QED
  BY <1>1, <1>3, <1>4 DEF DevInv, p

\* What is taken off the queue is the packet after those taken before.
LEMMA QueueTaken ==
  ASSUME NEW q, NEW n \in Nat, QueueOK(q, n), q # <<>>
  PROVE  /\ QueueOK(Tail(q), n) /\ Head(q) = n - Len(q) + 1 /\ Len(Tail(q)) = Len(q) - 1 /\ Len(q) \in 1 .. n
<1>1. q \in Seq(Nat) /\ Len(q) \in Nat /\ Len(q) >= 1 /\ Len(q) <= n
  BY DEF QueueOK
<1> DEFINE p == Tail(q)
<1>2. p \in Seq(Nat) /\ Len(p) = Len(q) - 1 /\ Head(q) = q[1] /\ \A i \in 1 .. Len(q) - 1 : p[i] = q[i + 1]
  BY <1>1
<1> HIDE DEF p
<1>3. QueueOK(p, n)
  BY <1>1, <1>2, SMTT(60) DEF QueueOK
<1>4. Head(q) = n - Len(q) + 1
  BY <1>1, <1>2 DEF QueueOK
<1> QED
  BY <1>1, <1>2, <1>3, <1>4 DEF p

\* The loop is given a packet that is newer than all before, or something made up.
LEMMA PacketGiven ==
  ASSUME NEW g \in Seq(GotRecord), InOrder(g), NEW r \in GotRecord,
         Received(r) => \A i \in DOMAIN g : g[i].size < r.size
  PROVE  /\ Append(g, r) \in Seq(GotRecord) /\ InOrder(Append(g, r))
         /\ Len(Append(g, r)) = Len(g) + 1 /\ DOMAIN Append(g, r) = 1 .. Len(g) + 1
         /\ \A i \in 1 .. Len(g) : Append(g, r)[i] = g[i]
         /\ Append(g, r)[Len(g) + 1] = r
<1> DEFINE h == Append(g, r)
<1>1. /\ h \in Seq(GotRecord) /\ Len(h) = Len(g) + 1 /\ DOMAIN h = 1 .. Len(g) + 1
      /\ (\A i \in 1 .. Len(g) : h[i] = g[i]) /\ h[Len(g) + 1] = r /\ Len(g) \in Nat /\ DOMAIN g = 1 .. Len(g)
  OBVIOUS
<1> HIDE DEF h
<1>2. ASSUME NEW i \in DOMAIN h, NEW j \in DOMAIN h, i < j, Received(h[i]), Received(h[j])
      PROVE  h[i].size < h[j].size
  <2>1. i \in 1 .. Len(g)
    BY <1>1, <1>2
  <2>2. CASE j \in 1 .. Len(g)
    BY <1>1, <1>2, <2>1, <2>2 DEF InOrder
  <2>3. CASE j = Len(g) + 1
    BY <1>1, <1>2, <2>1, <2>3
  <2> QED
    BY <1>1, <2>2, <2>3
<1>3. InOrder(h)
  BY <1>2 DEF InOrder
<1> QED
  BY <1>1, <1>3 DEF h

\* A read completes with the packet that is first in the queue.
Completed(dev, q, n, g) ==
  LET d == Filled(dev, q) IN
    /\ IsDev(d) /\ d.done = Head(q) /\ d.done # 0 /\ d.buffer = d.done /\ d.endpoint = d.done
    /\ d.readed = dev.readed /\ QueueOK(Tail(q), n)
    /\ Reads(d.done, d.readed, n - Len(Tail(q)), g)
    /\ n - Len(Tail(q)) = d.done /\ n - Len(q) = d.done - 1 /\ (d.readed # 0 => d.readed = d.done - 1)

LEMMA ReadCompletes ==
  ASSUME NEW dev, NEW q, NEW n \in Nat, NEW g, IsDev(dev), QueueOK(q, n), CanFill(dev, q),
         Reads(dev.done, dev.readed, n - Len(q), g), dev.readed \in {0, n - Len(q)}
  PROVE  Completed(dev, q, n, g)
<1> DEFINE d == Filled(dev, q)
<1>1. /\ QueueOK(Tail(q), n) /\ Head(q) = n - Len(q) + 1 /\ Len(Tail(q)) = Len(q) - 1
      /\ Len(q) \in 1 .. n
  BY QueueTaken DEF CanFill
<1>2. Head(q) \in Nat /\ Head(q) # 0 /\ n - Len(q) \in Nat /\ n - Len(Tail(q)) = Head(q)
  BY <1>1
<1>3. /\ d.done = Head(q) /\ d.buffer = Head(q) /\ d.endpoint = Head(q) /\ d.readed = dev.readed
      /\ d.armed = dev.armed
      /\ d \in [buffer : Nat, armed : {dev.armed}, done : Nat, readed : Nat, endpoint : Nat]
  BY <1>2 DEF Filled, IsDev
<1> HIDE DEF d
<1>4. IsDev(d)
  BY <1>3 DEF IsDev
<1>5. Reads(d.done, d.readed, n - Len(Tail(q)), g)
  <2>1. /\ dev.readed \in 0 .. n - Len(q) /\ g \in Seq(GotRecord) /\ InOrder(g)
        /\ (\A i \in DOMAIN g : g[i].size <= n - Len(q))
        /\ (dev.readed # 0 => \A i \in DOMAIN g : g[i].size < dev.readed)
    BY DEF Reads
  <2>2. \A i \in DOMAIN g : g[i].size \in Int
    <3>1. \A i \in DOMAIN g : g[i] \in GotRecord
      BY <2>1
    <3> QED
      BY <3>1 DEF GotRecord
  <2>3. \A i \in DOMAIN g : g[i].size < Head(q) /\ g[i].size <= Head(q)
    BY <1>1, <1>2, <2>1, <2>2
  <2>4. dev.readed < Head(q) /\ dev.readed \in 0 .. Head(q) /\ Head(q) \in 0 .. Head(q)
    BY <1>1, <1>2, <2>1
  <2> QED
    BY <1>2, <1>3, <2>1, <2>3, <2>4 DEF Reads
<1>6. /\ n - Len(Tail(q)) = Head(q) /\ n - Len(q) = Head(q) - 1
      /\ dev.readed # 0 => dev.readed = Head(q) - 1
  BY <1>1, <1>2
<1> QED
  BY <1>1, <1>2, <1>3, <1>4, <1>5, <1>6 DEF Completed, d

\* The system fills an armed buffer.
LEMMA SystemFills ==
  ASSUME NEW dev, NEW q, NEW n, NEW g, DevInv("overlapped", dev, q, n, g), CanFill(dev, q)
  PROVE  DevInv("overlapped", Filled(dev, q), Tail(q), n, g) /\ Filled(dev, q).readed = dev.readed
<1>1. /\ IsDev(dev) /\ n \in Nat /\ QueueOK(q, n) /\ Reads(dev.done, dev.readed, n - Len(q), g)
      /\ BufferOK("overlapped", dev, n - Len(q))
  BY DEF DevInv
<1>a. dev.readed \in {0, n - Len(q)}
  BY <1>1 DEF BufferOK, CanFill
<1>b. Completed(dev, q, n, g)
  BY <1>1, <1>a, ReadCompletes
<1> DEFINE d == Filled(dev, q)
           k == n - Len(Tail(q))
<1>2. /\ IsDev(d) /\ d.done # 0 /\ d.buffer = d.done /\ d.endpoint = d.done
      /\ d.readed = dev.readed /\ QueueOK(Tail(q), n) /\ Reads(d.done, d.readed, k, g)
      /\ k = d.done /\ (d.readed # 0 => d.readed = d.done - 1)
  BY <1>b DEF Completed
<1> HIDE DEF d, k
<1>3. BufferOK("overlapped", d, k)
  BY <1>2 DEF BufferOK
<1> QED
  BY <1>1, <1>2, <1>3 DEF DevInv, d, k

\* A handler that was run, or had nothing to do, keeps the order; what it makes readable is
\* the packet with which the read completed, whose bytes are in the buffer.
LEMMA HandlerRuns ==
  ASSUME NEW dev, NEW q, NEW n, NEW g, DevInv(flavour, dev, q, n, g), flavour # "select",
         NEW e, IsDev(e), e.buffer = Ready(dev, q).buffer, e.endpoint = Ready(dev, q).endpoint,
         e.done = 0,
         IF Ready(dev, q).done # 0 THEN e.readed \in {0, Ready(dev, q).done} ELSE e.readed = dev.readed
  PROVE  DevInv(flavour, e, Rest(dev, q), n, g)
<1>1. /\ IsDev(dev) /\ n \in Nat /\ QueueOK(q, n) /\ Reads(dev.done, dev.readed, n - Len(q), g)
      /\ BufferOK(flavour, dev, n - Len(q))
  BY DEF DevInv
<1> DEFINE r == Ready(dev, q)
           p == Rest(dev, q)
<1>2. /\ IsDev(r) /\ QueueOK(p, n) /\ Reads(r.done, r.readed, n - Len(p), g) /\ r.readed = dev.readed
      /\ r.endpoint = r.buffer
      /\ r.done # 0 => r.done = n - Len(p) /\ r.buffer = r.done
      /\ r.done = 0 /\ r.readed # 0 => r.buffer = n - Len(p) /\ r.readed = n - Len(p)
  <2>1. CASE flavour = "reactor" /\ CanFill(dev, q)
    <3>1. r = Filled(dev, q) /\ p = Tail(q)
      BY <2>1 DEF Ready, Rest
    <3>a. dev.readed \in {0, n - Len(q)}
      BY <1>1, <2>1 DEF BufferOK, CanFill
    <3>b. Completed(dev, q, n, g)
      BY <1>1, <2>1, <3>a, ReadCompletes
    <3>2. LET d == Filled(dev, q) IN
          /\ IsDev(d) /\ d.done # 0 /\ d.buffer = d.done /\ d.endpoint = d.done
          /\ d.readed = dev.readed /\ QueueOK(Tail(q), n)
          /\ Reads(d.done, d.readed, n - Len(Tail(q)), g) /\ n - Len(Tail(q)) = d.done
      BY <3>b DEF Completed
    <3> HIDE DEF r, p
    <3> QED
      BY <3>1, <3>2
  <2>2. CASE ~(flavour = "reactor" /\ CanFill(dev, q))
    <3>1. r = dev /\ p = q
      BY <2>2 DEF Ready, Rest
    <3> HIDE DEF r, p
    <3> QED
      BY <1>1, <3>1 DEF BufferOK
  <2> QED
    BY <2>1, <2>2
<1> HIDE DEF r, p
<1>3. /\ e.buffer = r.buffer /\ e.endpoint = r.endpoint
      /\ IF r.done # 0 THEN e.readed \in {0, r.done} ELSE e.readed = dev.readed
  BY DEF r
<1>4. Reads(e.done, e.readed, n - Len(p), g)
  <2>1. n - Len(p) \in Nat
    BY <1>1, <1>2 DEF QueueOK
  <2> QED
    BY <1>2, <1>3, <2>1 DEF Reads
<1>5. BufferOK(flavour, e, n - Len(p))
  BY <1>2, <1>3 DEF BufferOK
<1> QED
  BY <1>1, <1>2, <1>4, <1>5 DEF DevInv, p

\* What is given after g is as it must be, and g stays so.
LEMMA GivenStays ==
  ASSUME NEW f, NEW bad, NEW g \in Seq(GotRecord), GivenOK(f, bad, g), NEW r \in GotRecord,
         IF Received(r) THEN r = Whole(r.size) \/ (f = "overlapped" /\ r = Torn(r.size))
         ELSE f = "select" /\ Len(g) + 1 \in bad /\ r = Stale(g, Len(g) + 1)
  PROVE  GivenOK(f, bad, Append(g, r))
<1> DEFINE h == Append(g, r)
<1>1. /\ DOMAIN h = 1 .. Len(g) + 1 /\ (\A i \in 1 .. Len(g) : h[i] = g[i]) /\ h[Len(g) + 1] = r
      /\ Len(g) \in Nat /\ DOMAIN g = 1 .. Len(g)
  OBVIOUS
<1> HIDE DEF h
<1>2. ASSUME NEW i \in 1 .. Len(g) + 1 PROVE Stale(h, i) = Stale(g, i)
  <2>1. i # 1 => i - 1 \in 1 .. Len(g)
    BY <1>1
  <2> QED
    BY <1>1, <2>1 DEF Stale
<1>3. ASSUME NEW i \in DOMAIN h
      PROVE  IF Received(h[i]) THEN h[i] = Whole(h[i].size) \/ (f = "overlapped" /\ h[i] = Torn(h[i].size))
             ELSE f = "select" /\ i \in bad /\ h[i] = Stale(h, i)
  <2>1. CASE i \in 1 .. Len(g)
    <3>1. h[i] = g[i] /\ i \in DOMAIN g /\ Stale(h, i) = Stale(g, i)
      BY <1>1, <1>2, <2>1
    <3> QED
      BY <3>1 DEF GivenOK
  <2>2. CASE i = Len(g) + 1
    <3>1. h[i] = r /\ Stale(h, i) = Stale(g, i)
      BY <1>1, <1>2, <2>2
    <3> QED
      BY <2>2, <3>1
  <2> QED
    BY <1>1, <2>1, <2>2
<1> QED
  BY <1>3 DEF GivenOK, h

\* The loop reads what an asio device has.
LEMMA DeviceRead ==
  ASSUME NEW f, NEW dev, NEW q, NEW n, NEW g, DevInv(f, dev, q, n, g), f # "select", dev.readed # 0,
         NEW bad, GivenOK(f, bad, g)
  PROVE  /\ DevInv(f, [dev EXCEPT !.readed = 0], q, n, Append(g, Buffered(dev)))
         /\ GivenOK(f, bad, Append(g, Buffered(dev)))
         /\ Buffered(dev) \in GotRecord /\ Buffered(dev).size > 0
<1> DEFINE r == Buffered(dev)
           e == [dev EXCEPT !.readed = 0]
           h == Append(g, r)
<1>1. /\ IsDev(dev) /\ n \in Nat /\ QueueOK(q, n) /\ Reads(dev.done, dev.readed, n - Len(q), g)
      /\ BufferOK(f, dev, n - Len(q))
  BY DEF DevInv
<1>2. dev.buffer \in Nat /\ dev.readed \in Nat /\ dev.endpoint \in Nat /\ dev.done \in Nat
  BY <1>1 DEF IsDev
<1>3. r \in GotRecord /\ r.size = dev.readed /\ r.data = dev.buffer /\ r.from = dev.endpoint /\ r.size > 0
  BY <1>2 DEF GotRecord, Buffered
<1>4. IsDev(e) /\ e.readed = 0 /\ e.done = dev.done /\ e.buffer = dev.buffer /\ e.endpoint = dev.endpoint
  BY <1>1 DEF IsDev
<1>5. Received(r) /\ (r = Whole(r.size) \/ (f = "overlapped" /\ r = Torn(r.size)))
  <2>1. Received(r)
    BY <1>2, <1>3 DEF Received, WrappedSize
  <2>2. /\ dev.endpoint = dev.buffer /\ dev.buffer = n - Len(q) /\ n - Len(q) \in Nat
        /\ dev.readed = IF dev.done = 0 THEN n - Len(q) ELSE n - Len(q) - 1
    BY <1>1 DEF BufferOK, QueueOK
  <2>3. CASE dev.done = 0
    <3>1. dev.buffer = dev.readed /\ dev.endpoint = dev.readed
      BY <2>2, <2>3
    <3> QED
      BY <2>1, <3>1 DEF Whole, Buffered
  <2>4. CASE dev.done # 0
    <3>1. dev.buffer = dev.readed + 1 /\ dev.endpoint = dev.readed + 1 /\ f = "overlapped"
      BY <1>1, <2>2, <2>4 DEF BufferOK
    <3> QED
      BY <2>1, <3>1 DEF Torn, Buffered
  <2> QED
    BY <2>3, <2>4
<1> HIDE DEF r, e
<1>6. g \in Seq(GotRecord) /\ InOrder(g) /\ \A i \in DOMAIN g : g[i].size < r.size
  BY <1>1, <1>3 DEF Reads
<1>7. /\ h \in Seq(GotRecord) /\ InOrder(h) /\ DOMAIN h = 1 .. Len(g) + 1
      /\ (\A i \in 1 .. Len(g) : h[i] = g[i]) /\ h[Len(g) + 1] = r
  BY <1>3, <1>6, PacketGiven
<1>8. DOMAIN g = 1 .. Len(g) /\ Len(g) \in Nat
  BY <1>6
<1> HIDE DEF h
<1>9. Reads(e.done, e.readed, n - Len(q), h)
  <2>1. n - Len(q) \in Nat
    BY <1>1 DEF QueueOK
  <2>2. /\ dev.done \in 0 .. n - Len(q) /\ dev.readed \in 0 .. n - Len(q)
        /\ (\A i \in 1 .. Len(g) : g[i].size <= n - Len(q))
        /\ (dev.done # 0 => dev.readed < dev.done /\ \A i \in 1 .. Len(g) : g[i].size < dev.done)
    BY <1>1, <1>8 DEF Reads
  <2>3. \A i \in DOMAIN h : h[i].size <= n - Len(q) /\ (dev.done # 0 => h[i].size < dev.done)
    <3> TAKE i \in DOMAIN h
    <3>1. CASE i \in 1 .. Len(g)
      BY <1>7, <2>2, <3>1
    <3>2. CASE i = Len(g) + 1
      BY <1>3, <1>7, <2>1, <2>2, <3>2
    <3> QED
      BY <1>7, <1>8, <3>1, <3>2
  <2> QED
    BY <1>2, <1>4, <1>7, <2>1, <2>2, <2>3 DEF Reads
<1>10. BufferOK(f, e, n - Len(q))
  BY <1>1, <1>4 DEF BufferOK
<1>11. GivenOK(f, bad, h)
  BY <1>3, <1>5, <1>6, GivenStays DEF h
<1> QED
  BY <1>1, <1>3, <1>4, <1>9, <1>10, <1>11 DEF DevInv, e, h, r

\* With select the loop takes the first packet of the queue, and is given what comes of it.
LEMMA SelectRead ==
  ASSUME NEW dev, NEW q, NEW n, NEW g, DevInv("select", dev, q, n, g), q # <<>>
  PROVE  /\ DevInv("select", dev, Tail(q), n, g)
         /\ Head(q) = n - Len(q) + 1 /\ n - Len(Tail(q)) = Head(q) /\ Head(q) \in Nat /\ Head(q) > 0
         /\ \A r \in GotRecord : ~Received(r) \/ r.size = Head(q) =>
              DevInv("select", dev, Tail(q), n, Append(g, r))
<1> DEFINE p == Tail(q)
<1>1. /\ IsDev(dev) /\ n \in Nat /\ QueueOK(q, n) /\ Reads(dev.done, dev.readed, n - Len(q), g)
      /\ BufferOK("select", dev, n - Len(q))
  BY DEF DevInv
<1>2. /\ QueueOK(p, n) /\ Head(q) = n - Len(q) + 1 /\ Len(p) = Len(q) - 1 /\ Len(q) \in 1 .. n
  BY <1>1, QueueTaken
<1>3. Head(q) \in Nat /\ Head(q) > 0 /\ n - Len(q) \in Nat /\ n - Len(p) = Head(q) /\ Head(q) = n - Len(q) + 1
  BY <1>1, <1>2
<1>5. dev.readed = 0 /\ dev.done = 0 /\ BufferOK("select", dev, n - Len(p))
  BY <1>1 DEF BufferOK
<1>6. g \in Seq(GotRecord) /\ InOrder(g) /\ (\A i \in DOMAIN g : g[i].size <= n - Len(q))
      /\ DOMAIN g = 1 .. Len(g) /\ Len(g) \in Nat
  BY <1>1 DEF Reads
<1>7. \A i \in DOMAIN g : g[i].size \in Int
  <2>1. \A i \in DOMAIN g : g[i] \in GotRecord
    BY <1>6
  <2> QED
    BY <2>1 DEF GotRecord
<1> HIDE DEF p
<1>8. \A i \in DOMAIN g : g[i].size < Head(q)
  BY <1>3, <1>6, <1>7
<1>9. DevInv("select", dev, p, n, g)
  <2>1. Reads(dev.done, dev.readed, n - Len(p), g)
    <3>1. \A i \in DOMAIN g : g[i].size <= n - Len(p)
      BY <1>3, <1>7, <1>8
    <3> QED
      BY <1>3, <1>5, <1>6, <3>1 DEF Reads
  <2> QED
    BY <1>1, <1>2, <1>5, <2>1 DEF DevInv
<1>10. ASSUME NEW r \in GotRecord, ~Received(r) \/ r.size = Head(q)
       PROVE  DevInv("select", dev, p, n, Append(g, r))
  <2> DEFINE h == Append(g, r)
  <2>1. Received(r) => \A i \in DOMAIN g : g[i].size < r.size
    BY <1>8, <1>10
  <2>2. /\ h \in Seq(GotRecord) /\ InOrder(h) /\ DOMAIN h = 1 .. Len(g) + 1
        /\ (\A i \in 1 .. Len(g) : h[i] = g[i]) /\ h[Len(g) + 1] = r
    BY <1>6, <2>1, PacketGiven
  <2>3. r.size <= Head(q)
    BY <1>3, <1>10 DEF Received, WrappedSize
  <2> HIDE DEF h
  <2>4. \A i \in DOMAIN h : h[i].size <= n - Len(p)
    <3> TAKE i \in DOMAIN h
    <3>1. CASE i \in 1 .. Len(g)
      <4>1. h[i] = g[i] /\ g[i].size \in Int /\ g[i].size < Head(q)
        BY <1>6, <1>7, <1>8, <2>2, <3>1
      <4> QED
        BY <1>3, <4>1
    <3>2. CASE i = Len(g) + 1
      BY <1>3, <2>2, <2>3, <3>2
    <3> QED
      BY <1>6, <2>2, <3>1, <3>2
  <2>5. Reads(dev.done, dev.readed, n - Len(p), h)
    BY <1>3, <1>5, <2>2, <2>4 DEF Reads
  <2> QED
    BY <1>1, <1>2, <1>5, <2>5 DEF DevInv, h
<1> QED
  BY <1>2, <1>3, <1>9, <1>10 DEF p

\* The handlers leave a device in shape.
LEMMA HandlerShapes ==
  ASSUME NEW dev, IsDev(dev)
  PROVE  /\ LET e == handle_read(dev) IN
              /\ IsDev(e) /\ e.buffer = dev.buffer /\ e.endpoint = dev.endpoint /\ e.done = 0
              /\ dev.done \notin failed.tun => e.readed = dev.done
              /\ dev.done \in failed.tun => e.readed \in {0, dev.readed}
         /\ LET e == read_handle(dev) IN
              /\ IsDev(e) /\ e.buffer = dev.buffer /\ e.endpoint = dev.endpoint /\ e.done = 0
              /\ e.readed = IF dev.done \in failed.udp THEN 0 ELSE dev.done
<1>1. /\ dev.buffer \in Nat /\ dev.endpoint \in Nat /\ dev.done \in Nat /\ dev.readed \in Nat
      /\ dev \in [buffer : Nat, armed : {dev.armed}, done : Nat, readed : Nat, endpoint : Nat]
  BY DEF IsDev
<1>2. LET e == read_handle(dev) IN
        /\ IsDev(e) /\ e.buffer = dev.buffer /\ e.endpoint = dev.endpoint /\ e.done = 0
        /\ e.readed = IF dev.done \in failed.udp THEN 0 ELSE dev.done
  <2> DEFINE k == IF dev.done \in failed.udp THEN 0 ELSE dev.done
             e == [dev EXCEPT !.readed = k, !.done = 0]
  <2>1. k \in Nat /\ k = IF dev.done \in failed.udp THEN 0 ELSE dev.done
    BY <1>1
  <2> HIDE DEF k
  <2>2. /\ e.buffer = dev.buffer /\ e.endpoint = dev.endpoint /\ e.done = 0 /\ e.readed = k
        /\ e.armed = dev.armed
        /\ e \in [buffer : Nat, armed : {dev.armed}, done : Nat, readed : Nat, endpoint : Nat]
    BY <1>1, <2>1
  <2>3. read_handle(dev) = e
    BY DEF read_handle, k
  <2> HIDE DEF e
  <2> QED
    BY <2>1, <2>2, <2>3 DEF IsDev
<1>3. CASE dev.done \in failed.tun
  <2> DEFINE k == IF flavour = "reactor" THEN dev.readed ELSE 0
             e == [dev EXCEPT !.readed = k, !.done = 0, !.armed = FALSE]
  <2>1. k \in Nat /\ k \in {0, dev.readed}
    BY <1>1
  <2>3. handle_read(dev) = e
    BY <1>3 DEF handle_read
  <2> HIDE DEF k
  <2>2. /\ e.buffer = dev.buffer /\ e.endpoint = dev.endpoint /\ e.done = 0 /\ e.readed = k
        /\ e.armed = FALSE
        /\ e \in [buffer : Nat, armed : {FALSE}, done : Nat, readed : Nat, endpoint : Nat]
    BY <1>1, <2>1
  <2> HIDE DEF e
  <2> QED
    BY <1>2, <1>3, <2>1, <2>2, <2>3 DEF IsDev
<1>4. CASE dev.done \notin failed.tun
  <2> DEFINE e == [dev EXCEPT !.readed = dev.done, !.done = 0]
  <2>2. /\ e.buffer = dev.buffer /\ e.endpoint = dev.endpoint /\ e.done = 0 /\ e.readed = dev.done
        /\ e.armed = dev.armed
        /\ e \in [buffer : Nat, armed : {dev.armed}, done : Nat, readed : Nat, endpoint : Nat]
    BY <1>1
  <2>3. handle_read(dev) = e
    BY <1>4 DEF handle_read
  <2> HIDE DEF e
  <2> QED
    BY <1>2, <1>4, <2>2, <2>3 DEF IsDev
<1> QED
  BY <1>3, <1>4

\* Nothing was read yet.
LEMMA EventsInit == EventInit => EventInv
<1> SUFFICES ASSUME EventInit PROVE EventInv
  OBVIOUS
<1>1. /\ udpQueue = <<>> /\ tunQueue = <<>> /\ udpIn = 0 /\ tunIn = 0 /\ lpc = "wait"
      /\ got = [udp |-> <<>>, tun |-> <<>>]
      /\ udpDev = [NewDev EXCEPT !.armed = ~m_disabled] /\ tunDev = NewDev
  BY DEF EventInit
<1>2. ASSUME NEW dev, IsDev(dev), dev.done = 0, dev.readed = 0, dev.endpoint = dev.buffer
      PROVE  DevInv(flavour, dev, <<>>, 0, <<>>)
  <2> DEFINE z == <<>>
  <2>1. z \in Seq(Nat) /\ z \in Seq(GotRecord) /\ Len(z) = 0 /\ DOMAIN z = {} /\ 0 \in Nat
        /\ 0 - 0 = 0 /\ 0 \in 0 .. 0 /\ 1 .. 0 = {}
    OBVIOUS
  <2> HIDE DEF z
  <2>2. QueueOK(z, 0) /\ InOrder(z)
    BY <2>1 DEF QueueOK, InOrder
  <2>3. Reads(0, 0, 0, z)
    BY <2>1, <2>2 DEF Reads
  <2>4. BufferOK(flavour, dev, 0)
    BY <1>2, <2>1 DEF BufferOK
  <2>5. DevInv(flavour, dev, z, 0, z)
    BY <1>2, <2>1, <2>2, <2>3, <2>4 DEF DevInv
  <2> QED
    BY <2>5 DEF z
<1>3. IsDev(tunDev) /\ tunDev.done = 0 /\ tunDev.readed = 0 /\ tunDev.endpoint = tunDev.buffer
  BY <1>1 DEF NewDev, IsDev
<1>4. IsDev(udpDev) /\ udpDev.done = 0 /\ udpDev.readed = 0 /\ udpDev.endpoint = udpDev.buffer
  <2> DEFINE r == ~m_disabled
  <2>1. udpDev = [NewDev EXCEPT !.armed = r]
    BY <1>1
  <2> HIDE DEF r
  <2> QED
    BY <2>1 DEF NewDev, IsDev
<1>5. got.udp = <<>> /\ got.tun = <<>> /\ got \in [udp : {got.udp}, tun : {got.tun}]
  BY <1>1
<1>6. LoopInv
  BY <1>1, <1>3 DEF LoopInv
<1>7. DevInv(flavour, udpDev, udpQueue, udpIn, got.udp)
  BY <1>1, <1>2, <1>4, <1>5
<1>8. DevInv(flavour, tunDev, tunQueue, tunIn, got.tun)
  BY <1>1, <1>2, <1>3, <1>5
<1>9. GotInv /\ TakenInv
  <2> DEFINE z == <<>>
  <2>1. DOMAIN z = {} /\ Len(z) = 0
    OBVIOUS
  <2>2. got.udp = z /\ got.tun = z /\ udpQueue = z /\ udpIn = 0
    BY <1>1, <1>5
  <2> HIDE DEF z
  <2> QED
    BY <2>1, <2>2 DEF GotInv, GivenOK, TakenInv
<1> QED
  BY <1>5, <1>6, <1>7, <1>8, <1>9 DEF EventInv

\* The loop is given one more of the tun, or of the socket.
LEMMA GivenToLoop ==
  ASSUME got \in [udp : {got.udp}, tun : {got.tun}], NEW r
  PROVE  /\ LET h == [got EXCEPT !.tun = Append(got.tun, r)] IN
              h.udp = got.udp /\ h.tun = Append(got.tun, r) /\ h \in [udp : {h.udp}, tun : {h.tun}]
         /\ LET h == [got EXCEPT !.udp = Append(got.udp, r)] IN
              h.tun = got.tun /\ h.udp = Append(got.udp, r) /\ h \in [udp : {h.udp}, tun : {h.tun}]
<1> DEFINE t == Append(got.tun, r)
           u == Append(got.udp, r)
<1> HIDE DEF t, u
<1>1. LET h == [got EXCEPT !.tun = t] IN h.udp = got.udp /\ h.tun = t /\ h \in [udp : {h.udp}, tun : {h.tun}]
  OBVIOUS
<1>2. LET h == [got EXCEPT !.udp = u] IN h.tun = got.tun /\ h.udp = u /\ h \in [udp : {h.udp}, tun : {h.tun}]
  OBVIOUS
<1> QED
  BY <1>1, <1>2 DEF t, u

\* Nothing of size zero was given, nor is.
LEMMA NoneEmpty ==
  ASSUME NEW g \in Seq(GotRecord), \A i \in DOMAIN g : g[i].size > 0, NEW r \in GotRecord, r.size > 0
  PROVE  \A i \in DOMAIN Append(g, r) : Append(g, r)[i].size > 0
<1> DEFINE h == Append(g, r)
<1>1. /\ DOMAIN h = 1 .. Len(g) + 1 /\ (\A i \in 1 .. Len(g) : h[i] = g[i]) /\ h[Len(g) + 1] = r
      /\ Len(g) \in Nat /\ DOMAIN g = 1 .. Len(g)
  OBVIOUS
<1> HIDE DEF h
<1>2. \A i \in DOMAIN h : h[i].size > 0
  BY <1>1
<1> QED
  BY <1>2 DEF h

\* The steps of the loop and of the system.
LEMMA EventStep == EventInv /\ [EventNext]_eventVars => EventInv'
<1> SUFFICES ASSUME EventInv, [EventNext]_eventVars PROVE EventInv'
  OBVIOUS
<1>0. /\ got \in [udp : {got.udp}, tun : {got.tun}]
      /\ DevInv(flavour, udpDev, udpQueue, udpIn, got.udp)
      /\ DevInv(flavour, tunDev, tunQueue, tunIn, got.tun)
      /\ GotInv /\ TakenInv /\ LoopInv
  BY DEF EventInv
<1>g. UNCHANGED <<flavour, failed, got>> => GotInv'
  BY <1>0 DEF GotInv
<1>t. UNCHANGED <<flavour, got, udpIn, udpQueue>> => TakenInv'
  BY <1>0 DEF TakenInv
<1>1. CASE UNCHANGED eventVars
  BY <1>0, <1>1, <1>g, <1>t DEF eventVars, EventInv, LoopInv
<1>2. CASE UdpArrives
  <2>1. /\ udpIn' = udpIn + 1 /\ udpQueue' = Append(udpQueue, udpIn + 1)
        /\ UNCHANGED <<tunQueue, tunIn, udpDev, tunDev, flavour, failed, lpc, m_udp_event, m_tun_event, got>>
    BY <1>2 DEF UdpArrives, loopVars
  <2>2. DevInv(flavour, udpDev, udpQueue', udpIn', got.udp)
    BY <1>0, <2>1, PacketArrives
  <2>3. udpQueue' # <<>> /\ udpIn' - Len(udpQueue') = udpIn - Len(udpQueue)
    <3>1. udpQueue \in Seq(Nat) /\ udpIn \in Nat
      BY <1>0 DEF DevInv, QueueOK
    <3> QED
      BY <2>1, <3>1
  <2>4. LoopInv' /\ TakenInv'
    BY <1>0, <2>1, <2>3 DEF LoopInv, TakenInv
  <2> QED
    BY <1>0, <1>g, <2>1, <2>2, <2>4 DEF EventInv
<1>3. CASE TunArrives
  <2>1. /\ tunIn' = tunIn + 1 /\ tunQueue' = Append(tunQueue, tunIn + 1)
        /\ UNCHANGED <<udpQueue, udpIn, udpDev, tunDev, flavour, failed, lpc, m_udp_event, m_tun_event, got>>
    BY <1>3 DEF TunArrives, loopVars
  <2>2. DevInv(flavour, tunDev, tunQueue', tunIn', got.tun)
    BY <1>0, <2>1, PacketArrives
  <2>3. tunQueue' # <<>>
    <3>1. tunQueue \in Seq(Nat)
      BY <1>0 DEF DevInv, QueueOK
    <3> QED
      BY <2>1, <3>1
  <2>4. LoopInv'
    BY <1>0, <2>1, <2>3 DEF LoopInv
  <2> QED
    BY <1>0, <1>g, <1>t, <2>1, <2>2, <2>4 DEF EventInv
<1>4. CASE SystemFillsUdp
  <2>1. /\ flavour = "overlapped" /\ CanFill(udpDev, udpQueue)
        /\ udpDev' = Filled(udpDev, udpQueue) /\ udpQueue' = Tail(udpQueue)
        /\ UNCHANGED <<tunQueue, udpIn, tunIn, tunDev, flavour, failed, lpc, m_udp_event, m_tun_event, got>>
    BY <1>4 DEF SystemFillsUdp, loopVars
  <2>2. DevInv(flavour, udpDev', udpQueue', udpIn, got.udp)
    BY <1>0, <2>1, SystemFills
  <2>3. LoopInv' /\ TakenInv'
    BY <1>0, <2>1 DEF LoopInv, TakenInv
  <2> QED
    BY <1>0, <1>g, <2>1, <2>2, <2>3 DEF EventInv
<1>5. CASE SystemFillsTun
  <2>1. /\ flavour = "overlapped" /\ CanFill(tunDev, tunQueue)
        /\ tunDev' = Filled(tunDev, tunQueue) /\ tunQueue' = Tail(tunQueue)
        /\ UNCHANGED <<udpQueue, udpIn, tunIn, udpDev, flavour, failed, lpc, m_udp_event, m_tun_event, got>>
    BY <1>5 DEF SystemFillsTun, loopVars
  <2>2. DevInv(flavour, tunDev', tunQueue', tunIn, got.tun) /\ tunDev'.readed = tunDev.readed
    BY <1>0, <2>1, SystemFills
  <2>3. LoopInv'
    BY <1>0, <2>1, <2>2 DEF LoopInv
  <2> QED
    BY <1>0, <1>g, <1>t, <2>1, <2>2, <2>3 DEF EventInv
<1>6. CASE AsioWait
  <2> DEFINE t == Ready(tunDev, tunQueue)
             u == Ready(udpDev, udpQueue)
             tq == Rest(tunDev, tunQueue)
             uq == Rest(udpDev, udpQueue)
  <2>1. /\ flavour # "select" /\ lpc = "wait" /\ UNCHANGED <<flavour, failed, udpIn, tunIn, got>>
        /\ \/ /\ t.done # 0 /\ t.done \in failed.tun
              /\ tunDev' = handle_read(t) /\ tunQueue' = tq
              /\ UNCHANGED <<udpDev, udpQueue, m_tun_event, m_udp_event, lpc>>
           \/ /\ ~(t.done # 0 /\ t.done \in failed.tun)
              /\ tunDev' = IF t.done # 0 THEN handle_read(t) ELSE t
              /\ tunQueue' = tq
              /\ udpDev' = IF u.done # 0 THEN read_handle(u) ELSE u
              /\ udpQueue' = uq
              /\ m_tun_event' = TunEvent(t.done # 0) /\ m_udp_event' = (u.done # 0)
              /\ lpc' = "dispatch"
    BY <1>6 DEF AsioWait
  <2>2. IsDev(t) /\ IsDev(u) /\ t.readed = tunDev.readed /\ u.readed = udpDev.readed
    <3>1. ASSUME NEW dev, NEW q, NEW n, NEW g, DevInv(flavour, dev, q, n, g)
          PROVE  IsDev(Ready(dev, q)) /\ Ready(dev, q).readed = dev.readed
      <4>1. /\ IsDev(dev) /\ n \in Nat /\ QueueOK(q, n) /\ Reads(dev.done, dev.readed, n - Len(q), g)
            /\ BufferOK(flavour, dev, n - Len(q))
        BY <3>1 DEF DevInv
      <4>a. CanFill(dev, q) => dev.readed \in {0, n - Len(q)}
        BY <4>1 DEF BufferOK, CanFill
      <4>2. CanFill(dev, q) => IsDev(Filled(dev, q)) /\ Filled(dev, q).readed = dev.readed
        BY <4>1, <4>a, ReadCompletes DEF Completed
      <4> QED
        BY <4>1, <4>2 DEF Ready
    <3> QED
      BY <1>0, <3>1
  <2>3. tunDev.readed = 0
    BY <1>0, <2>1 DEF LoopInv
  <2> HIDE DEF t, u, tq, uq
  <2>7. GotInv' /\ TakenInv'
    BY <1>g, <2>1 DEF TakenInv
  <2>4. DevInv(flavour, tunDev', tunQueue', tunIn, got.tun)
    <3>1. tunQueue' = tq
      BY <2>1
    <3>2. CASE t.done # 0
      <4>1. tunDev' = handle_read(t)
        BY <2>1, <3>2
      <4>2. /\ IsDev(tunDev') /\ tunDev'.buffer = t.buffer /\ tunDev'.endpoint = t.endpoint
            /\ tunDev'.done = 0 /\ tunDev'.readed \in {0, t.done}
        BY <2>2, <2>3, <4>1, HandlerShapes
      <4> QED
        BY <1>0, <2>1, <3>1, <3>2, <4>2, HandlerRuns DEF t, tq
    <3>3. CASE t.done = 0
      <4>1. tunDev' = t
        BY <2>1, <3>3
      <4> QED
        BY <1>0, <2>1, <2>2, <3>1, <3>3, <4>1, HandlerRuns DEF t, tq
    <3> QED
      BY <3>2, <3>3
  <2>5. CASE /\ t.done # 0 /\ t.done \in failed.tun /\ tunDev' = handle_read(t)
             /\ UNCHANGED <<udpDev, udpQueue, m_tun_event, m_udp_event, lpc>>
    <3>1. tunDev'.readed = 0
      BY <2>2, <2>3, <2>5, HandlerShapes
    <3>2. LoopInv'
      BY <1>0, <2>1, <2>5, <3>1 DEF LoopInv
    <3> QED
      BY <1>0, <2>1, <2>4, <2>5, <2>7, <3>2 DEF EventInv
  <2>6. CASE /\ ~(t.done # 0 /\ t.done \in failed.tun)
             /\ tunDev' = IF t.done # 0 THEN handle_read(t) ELSE t
             /\ udpDev' = IF u.done # 0 THEN read_handle(u) ELSE u
             /\ udpQueue' = uq
             /\ m_tun_event' = TunEvent(t.done # 0) /\ m_udp_event' = (u.done # 0)
             /\ lpc' = "dispatch"
    <3>1. DevInv(flavour, udpDev', udpQueue', udpIn, got.udp)
      <4>1. CASE u.done # 0
        <5>1. /\ IsDev(udpDev') /\ udpDev'.buffer = u.buffer /\ udpDev'.endpoint = u.endpoint
              /\ udpDev'.done = 0 /\ udpDev'.readed \in {0, u.done}
          BY <2>2, <2>6, <4>1, HandlerShapes
        <5> QED
          BY <1>0, <2>1, <2>6, <4>1, <5>1, HandlerRuns DEF u, uq
      <4>2. CASE u.done = 0
        BY <1>0, <2>1, <2>2, <2>6, <4>2, HandlerRuns DEF u, uq
      <4> QED
        BY <4>1, <4>2
    <3>2. tunDev'.readed # 0 <=> t.done # 0
      <4>1. CASE t.done # 0
        BY <2>2, <2>6, <4>1, HandlerShapes
      <4>2. CASE t.done = 0
        BY <2>2, <2>3, <2>6, <4>2
      <4> QED
        BY <4>1, <4>2
    <3>3. m_tun_event' <=> t.done # 0
      BY <2>6 DEF TunEvent
    <3>4. LoopInv'
      BY <2>1, <2>6, <3>2, <3>3 DEF LoopInv
    <3> QED
      BY <1>0, <2>1, <2>4, <2>7, <3>1, <3>4 DEF EventInv
  <2> QED
    BY <2>1, <2>5, <2>6
<1>7. CASE LinuxWait
  <2>1. /\ flavour = "select" /\ lpc' = "dispatch"
        /\ (m_tun_event' => tunQueue # <<>>) /\ (m_udp_event' => udpQueue # <<>>)
        /\ UNCHANGED <<flavour, failed, udpQueue, tunQueue, udpIn, tunIn, udpDev, tunDev, got>>
    BY <1>7 DEF LinuxWait
  <2>2. LoopInv'
    BY <2>1 DEF LoopInv
  <2> QED
    BY <1>0, <1>g, <1>t, <2>1, <2>2 DEF EventInv
<1>8. CASE read_from_tun
  <2>1. /\ lpc = "dispatch" /\ m_tun_event /\ lpc' = "wait"
        /\ UNCHANGED <<flavour, failed, udpQueue, udpIn, tunIn, udpDev, m_udp_event, m_tun_event>>
    BY <1>8 DEF read_from_tun, LinuxRead
  <2>2. got.tun \in Seq(GotRecord) /\ IsDev(tunDev)
    BY <1>0 DEF DevInv, Reads
  <2>3. CASE flavour = "select"
    <3>1. tunQueue # <<>>
      BY <1>0, <2>1, <2>3 DEF LoopInv
    <3>2. /\ DevInv("select", tunDev, Tail(tunQueue), tunIn, got.tun)
          /\ Head(tunQueue) \in Nat /\ Head(tunQueue) > 0
          /\ \A r \in GotRecord : ~Received(r) \/ r.size = Head(tunQueue) =>
               DevInv("select", tunDev, Tail(tunQueue), tunIn, Append(got.tun, r))
      BY <1>0, <2>3, <3>1, SelectRead
    <3>3. LoopInv'
      BY <2>1, <2>3 DEF LoopInv
    <3>4. tunQueue' = Tail(tunQueue) /\ tunDev' = tunDev
      BY <1>8, <2>3 DEF read_from_tun, LinuxRead
    <3>5. CASE Head(tunQueue) \in failed.tun
      <4>1. got' = got
        BY <1>8, <2>3, <3>5 DEF read_from_tun, LinuxRead
      <4> QED
        BY <1>0, <1>g, <1>t, <2>1, <2>3, <3>2, <3>3, <3>4, <4>1 DEF EventInv
    <3>6. CASE Head(tunQueue) \notin failed.tun
      <4> DEFINE r == Whole(Head(tunQueue))
      <4>1. got' = [got EXCEPT !.tun = Append(got.tun, r)]
        BY <1>8, <2>3, <3>6 DEF read_from_tun, LinuxRead
      <4>2. got'.udp = got.udp /\ got'.tun = Append(got.tun, r) /\ got' \in [udp : {got'.udp}, tun : {got'.tun}]
        BY <1>0, <4>1, GivenToLoop
      <4>3. r \in GotRecord /\ r.size = Head(tunQueue) /\ r.size > 0 /\ r = Whole(r.size) /\ Received(r)
        BY <3>2 DEF Whole, GotRecord, Received, WrappedSize
      <4> HIDE DEF r
      <4>4. DevInv(flavour', tunDev', tunQueue', tunIn', got'.tun)
        BY <2>1, <2>3, <3>2, <3>4, <4>2, <4>3
      <4>5. DevInv(flavour', udpDev', udpQueue', udpIn', got'.udp)
        BY <1>0, <2>1, <4>2
      <4>6. \A i \in DOMAIN got'.tun : got'.tun[i].size > 0
        BY <1>0, <2>2, <4>2, <4>3, NoneEmpty DEF GotInv
      <4>7. GivenOK(flavour, {}, Append(got.tun, r))
        BY <1>0, <2>2, <4>3, GivenStays DEF GotInv
      <4>8. GotInv' /\ TakenInv'
        BY <1>0, <2>1, <4>2, <4>6, <4>7 DEF GotInv, TakenInv
      <4> QED
        BY <3>3, <4>2, <4>4, <4>5, <4>8 DEF EventInv
    <3> QED
      BY <3>5, <3>6
  <2>4. CASE flavour # "select"
    <3> DEFINE r == Buffered(tunDev)
    <3>1. /\ got' = [got EXCEPT !.tun = Append(got.tun, r)]
          /\ tunQueue' = tunQueue /\ tunDev' = [tunDev EXCEPT !.readed = 0]
      BY <1>8, <2>4 DEF read_from_tun, LinuxRead
    <3>2. got'.udp = got.udp /\ got'.tun = Append(got.tun, r) /\ got' \in [udp : {got'.udp}, tun : {got'.tun}]
      BY <1>0, <3>1, GivenToLoop
    <3>3. tunDev.readed # 0
      BY <1>0, <2>1, <2>4 DEF LoopInv
    <3>4. /\ DevInv(flavour, [tunDev EXCEPT !.readed = 0], tunQueue, tunIn, Append(got.tun, r))
          /\ GivenOK(flavour, {}, Append(got.tun, r)) /\ r \in GotRecord /\ r.size > 0
      BY <1>0, <2>4, <3>3, DeviceRead DEF GotInv
    <3>10. tunDev'.readed = 0
      BY <2>2, <3>1 DEF IsDev
    <3> HIDE DEF r
    <3>6. \A i \in DOMAIN got'.tun : got'.tun[i].size > 0
      BY <1>0, <2>2, <3>2, <3>4, NoneEmpty DEF GotInv
    <3>7. LoopInv'
      BY <2>1, <2>4, <3>10 DEF LoopInv
    <3>8. DevInv(flavour', tunDev', tunQueue', tunIn', got'.tun)
      BY <2>1, <3>1, <3>2, <3>4
    <3>9. DevInv(flavour', udpDev', udpQueue', udpIn', got'.udp)
      BY <1>0, <2>1, <3>2
    <3>11. GotInv' /\ TakenInv'
      BY <1>0, <2>1, <2>4, <3>2, <3>4, <3>6 DEF GotInv, TakenInv
    <3> QED
      BY <3>2, <3>7, <3>8, <3>9, <3>11 DEF EventInv
  <2> QED
    BY <2>3, <2>4
<1>9. CASE receive_data
  <2>1. /\ lpc = "dispatch" /\ ~m_tun_event /\ m_udp_event /\ lpc' = "wait"
        /\ UNCHANGED <<flavour, failed, tunQueue, udpIn, tunIn, tunDev, m_udp_event, m_tun_event>>
    BY <1>9 DEF receive_data
  <2>2. LoopInv'
    BY <1>0, <2>1 DEF LoopInv
  <2>6. got.udp \in Seq(GotRecord) /\ IsDev(udpDev)
    BY <1>0 DEF DevInv, Reads
  <2>3. CASE flavour = "select"
    <3> DEFINE r == LinuxReceive(Head(udpQueue))
    <3>1. /\ got' = [got EXCEPT !.udp = Append(got.udp, r)]
          /\ udpQueue' = Tail(udpQueue) /\ udpDev' = udpDev
      BY <1>9, <2>3 DEF receive_data
    <3>2. got'.tun = got.tun /\ got'.udp = Append(got.udp, r) /\ got' \in [udp : {got'.udp}, tun : {got'.tun}]
      BY <1>0, <3>1, GivenToLoop
    <3>3. udpQueue # <<>>
      BY <1>0, <2>1, <2>3 DEF LoopInv
    <3>4. /\ Head(udpQueue) \in Nat /\ Head(udpQueue) > 0 /\ Head(udpQueue) = udpIn - Len(udpQueue) + 1
          /\ udpIn - Len(Tail(udpQueue)) = Head(udpQueue)
          /\ \A x \in GotRecord : ~Received(x) \/ x.size = Head(udpQueue) =>
               DevInv("select", udpDev, Tail(udpQueue), udpIn, Append(got.udp, x))
      BY <1>0, <2>3, <3>3, SelectRead
    <3>5. Len(got.udp) + 1 = Head(udpQueue) /\ Len(got.udp) \in Nat
      BY <1>0, <2>3, <2>6, <3>4 DEF TakenInv
    <3>6. /\ r \in GotRecord /\ (~Received(r) \/ r.size = Head(udpQueue))
          /\ IF Received(r) THEN r = Whole(r.size)
             ELSE Len(got.udp) + 1 \in failed.udp /\ r = Stale(got.udp, Len(got.udp) + 1)
      <4>1. CASE Head(udpQueue) \in failed.udp
        <5>1. r = Stale(got.udp, Len(got.udp) + 1)
          BY <4>1 DEF LinuxReceive
        <5>2. Len(got.udp) + 1 # 1 => got.udp[Len(got.udp) + 1 - 1] \in GotRecord
          BY <2>6, <3>5
        <5>3. (IF Len(got.udp) + 1 = 1 THEN 0 ELSE got.udp[Len(got.udp) + 1 - 1].data) \in Nat
          BY <5>2 DEF GotRecord
        <5>4. r \in GotRecord /\ r.size = WrappedSize
          BY <5>1, <5>3 DEF Stale, GotRecord, WrappedSize
        <5> HIDE DEF r
        <5> QED
          BY <3>5, <4>1, <5>1, <5>4 DEF Received
      <4>2. CASE Head(udpQueue) \notin failed.udp
        <5>1. r = Whole(Head(udpQueue))
          BY <4>2 DEF LinuxReceive
        <5> HIDE DEF r
        <5> QED
          BY <3>4, <5>1 DEF Whole, GotRecord, Received, WrappedSize
      <4> QED
        BY <4>1, <4>2
    <3> HIDE DEF r
    <3>7. DevInv(flavour', udpDev', udpQueue', udpIn', got'.udp)
      BY <2>1, <2>3, <3>1, <3>2, <3>4, <3>6
    <3>8. GivenOK(flavour, failed.udp, Append(got.udp, r))
      BY <1>0, <2>3, <2>6, <3>6, GivenStays DEF GotInv
    <3>9. Len(Append(got.udp, r)) = Len(got.udp) + 1
      BY <2>6, <3>6
    <3>10. GotInv' /\ TakenInv'
      BY <1>0, <2>1, <3>1, <3>2, <3>4, <3>5, <3>8, <3>9 DEF GotInv, TakenInv
    <3> QED
      BY <1>0, <2>1, <2>2, <3>2, <3>7, <3>10 DEF EventInv
  <2>4. CASE flavour # "select" /\ udpDev.readed = 0
    <3>1. got' = got /\ udpQueue' = udpQueue /\ udpDev' = [udpDev EXCEPT !.readed = 0]
      BY <1>9, <2>4 DEF receive_data
    <3>2. udpDev' = udpDev
      BY <2>4, <2>6, <3>1 DEF IsDev
    <3> QED
      BY <1>0, <1>g, <1>t, <2>1, <2>2, <3>1, <3>2 DEF EventInv
  <2>5. CASE flavour # "select" /\ udpDev.readed # 0
    <3> DEFINE r == Buffered(udpDev)
    <3>1. /\ got' = [got EXCEPT !.udp = Append(got.udp, r)]
          /\ udpQueue' = udpQueue /\ udpDev' = [udpDev EXCEPT !.readed = 0]
      BY <1>9, <2>5 DEF receive_data
    <3>2. got'.tun = got.tun /\ got'.udp = Append(got.udp, r) /\ got' \in [udp : {got'.udp}, tun : {got'.tun}]
      BY <1>0, <3>1, GivenToLoop
    <3>4. /\ DevInv(flavour, [udpDev EXCEPT !.readed = 0], udpQueue, udpIn, Append(got.udp, r))
          /\ GivenOK(flavour, failed.udp, Append(got.udp, r))
      BY <1>0, <2>5, DeviceRead DEF GotInv
    <3> HIDE DEF r
    <3>8. DevInv(flavour', udpDev', udpQueue', udpIn', got'.udp)
      BY <2>1, <3>1, <3>2, <3>4
    <3>9. GotInv' /\ TakenInv'
      BY <1>0, <2>1, <2>5, <3>2, <3>4 DEF GotInv, TakenInv
    <3> QED
      BY <1>0, <2>1, <2>2, <3>2, <3>8, <3>9 DEF EventInv
  <2> QED
    BY <2>3, <2>4, <2>5
<1>10. CASE Idle
  <2>1. /\ lpc = "dispatch" /\ ~m_tun_event /\ lpc' = "wait"
        /\ UNCHANGED <<flavour, failed, udpQueue, tunQueue, udpIn, tunIn, udpDev, tunDev, m_udp_event, m_tun_event, got>>
    BY <1>10 DEF Idle
  <2>2. LoopInv'
    BY <1>0, <2>1 DEF LoopInv
  <2> QED
    BY <1>0, <1>g, <1>t, <2>1, <2>2 DEF EventInv
<1> QED
  BY <1>1, <1>2, <1>3, <1>4, <1>5, <1>6, <1>7, <1>8, <1>9, <1>10 DEF EventNext

-----------------------------------------------------------------------------
\* What is lost of what arrives.

LostOfTun == Lost(failed.tun, tunDev, tunIn - Len(tunQueue), got.tun)
LostOfUdp == Lost(failed.udp, udpDev, udpIn - Len(udpQueue), got.udp)

\* A datagram that was read while a frame was: it will be lost, and the frame was counted.
Waiting == IF udpDev.readed # 0 /\ ~(lpc = "dispatch" /\ m_udp_event) THEN 1 ELSE 0

\* How many may be lost by now.
Allowed == IF flavour = "select" THEN 0 ELSE Len(got.tun)

LossInv ==
  /\ LostOfTun = {} /\ IsFiniteSet(LostOfUdp)
  /\ Cardinality(LostOfUdp) + Waiting <= Allowed

\* Nothing is lost when a read completes.
LEMMA FilledLosesNone ==
  ASSUME NEW f, NEW bad, NEW dev, NEW q, NEW n, NEW g, DevInv(f, dev, q, n, g), f # "select", CanFill(dev, q)
  PROVE  Lost(bad, Filled(dev, q), n - Len(Tail(q)), g) \subseteq Lost(bad, dev, n - Len(q), g)
<1>1. /\ IsDev(dev) /\ n \in Nat /\ QueueOK(q, n) /\ Reads(dev.done, dev.readed, n - Len(q), g)
      /\ BufferOK(f, dev, n - Len(q))
  BY DEF DevInv
<1>a. dev.readed \in {0, n - Len(q)}
  BY <1>1 DEF BufferOK, CanFill
<1>b. Completed(dev, q, n, g)
  BY <1>1, <1>a, ReadCompletes
<1> DEFINE d == Filled(dev, q)
           k == n - Len(Tail(q))
           m == n - Len(q)
<1>2. d.readed = dev.readed /\ k = d.done /\ m = d.done - 1 /\ IsDev(d)
  BY <1>b DEF Completed
<1>3. d.done \in Nat /\ dev.done = 0
  BY <1>2 DEF IsDev, CanFill
<1> HIDE DEF d, k, m
<1>4. ASSUME NEW p \in Lost(bad, d, k, g) PROVE p \in Lost(bad, dev, m, g)
  <2>1. p \in 1 .. k /\ p \notin bad /\ p # d.done /\ p # d.readed /\ \A i \in DOMAIN g : g[i].size # p
    BY DEF Lost
  <2>2. p \in 1 .. m /\ p # 0
    BY <1>2, <1>3, <2>1
  <2> QED
    BY <1>2, <1>3, <2>1, <2>2 DEF Lost
<1> QED
  BY <1>4 DEF d, k, m

\* A handler that runs loses at most what could be read before.
LEMMA HandlerLosesOne ==
  ASSUME NEW bad, NEW dev, NEW q, NEW n, NEW g, DevInv(flavour, dev, q, n, g), flavour # "select",
         NEW e, e.done = 0,
         IF Ready(dev, q).done # 0 THEN e.readed = IF Ready(dev, q).done \in bad THEN 0 ELSE Ready(dev, q).done
         ELSE e.readed = dev.readed
  PROVE  /\ Lost(bad, e, n - Len(Rest(dev, q)), g) \subseteq Lost(bad, dev, n - Len(q), g) \cup {dev.readed}
         /\ dev.readed = 0 \/ Ready(dev, q).done = 0 =>
              Lost(bad, e, n - Len(Rest(dev, q)), g) \subseteq Lost(bad, dev, n - Len(q), g)
<1> DEFINE r == Ready(dev, q)
           k == n - Len(Rest(dev, q))
           m == n - Len(q)
<1>1. Lost(bad, r, k, g) \subseteq Lost(bad, dev, m, g) /\ r.readed = dev.readed
  <2>1. CASE flavour = "reactor" /\ CanFill(dev, q)
    <3>1. r = Filled(dev, q) /\ Rest(dev, q) = Tail(q)
      BY <2>1 DEF Ready, Rest
    <3>2. Filled(dev, q).readed = dev.readed
      <4>1. dev \in [buffer : Nat, armed : {dev.armed}, done : Nat, readed : Nat, endpoint : Nat]
        BY DEF DevInv, IsDev
      <4> QED
        BY <4>1 DEF Filled
    <3> QED
      BY <2>1, <3>1, <3>2, FilledLosesNone
  <2>2. CASE ~(flavour = "reactor" /\ CanFill(dev, q))
    BY <2>2 DEF Ready, Rest
  <2> QED
    BY <2>1, <2>2
<1> HIDE DEF k, m
<1>2. IF r.done # 0 THEN e.readed = IF r.done \in bad THEN 0 ELSE r.done ELSE e.readed = dev.readed
  OBVIOUS
<1> HIDE DEF r
<1>3. ASSUME NEW p \in Lost(bad, e, k, g), p # dev.readed \/ r.done = 0 PROVE p \in Lost(bad, r, k, g)
  BY <1>1, <1>2, <1>3 DEF Lost
<1>4. 0 \notin Lost(bad, e, k, g)
  BY DEF Lost
<1> QED
  BY <1>1, <1>3, <1>4 DEF k, m, r

\* What the loop is given is not lost.
LEMMA ReadLosesNone ==
  ASSUME NEW bad, NEW dev, NEW taken, NEW g \in Seq(GotRecord), IsDev(dev),
         NEW r \in GotRecord, r.size = dev.readed
  PROVE  Lost(bad, [dev EXCEPT !.readed = 0], taken, Append(g, r)) \subseteq Lost(bad, dev, taken, g)
<1> DEFINE e == [dev EXCEPT !.readed = 0]
           h == Append(g, r)
<1>1. e.done = dev.done
  BY DEF IsDev
<1>2. /\ DOMAIN h = 1 .. Len(g) + 1 /\ (\A i \in 1 .. Len(g) : h[i] = g[i]) /\ h[Len(g) + 1] = r
      /\ Len(g) \in Nat /\ DOMAIN g = 1 .. Len(g)
  OBVIOUS
<1> HIDE DEF e, h
<1>3. ASSUME NEW p, \A i \in DOMAIN h : h[i].size # p PROVE p # r.size /\ \A i \in DOMAIN g : g[i].size # p
  BY <1>2, <1>3
<1> QED
  BY <1>1, <1>3 DEF Lost, e, h

\* What was given stays given, and so is k, or k is of no account.
Gives(bad, k, g, h) ==
  /\ k \in bad \/ \E i \in DOMAIN h : h[i].size = k
  /\ \A p : (\A i \in DOMAIN h : h[i].size # p) => \A i \in DOMAIN g : g[i].size # p

LEMMA GivenSizes ==
  ASSUME NEW g \in Seq(GotRecord), NEW r, NEW h, NEW bad, NEW k,
         h = Append(g, r) \/ (h = g /\ k \in bad), k \in bad \/ r.size = k
  PROVE  Gives(bad, k, g, h)
<1>1. CASE h = g /\ k \in bad
  BY <1>1 DEF Gives
<1>2. CASE h = Append(g, r)
  <2>1. /\ DOMAIN h = 1 .. Len(g) + 1 /\ (\A i \in 1 .. Len(g) : h[i] = g[i]) /\ h[Len(g) + 1] = r
        /\ Len(g) \in Nat /\ DOMAIN g = 1 .. Len(g)
    BY <1>2
  <2>2. Len(g) + 1 \in DOMAIN h /\ \A i \in DOMAIN g : i \in DOMAIN h /\ h[i] = g[i]
    BY <2>1
  <2> QED
    BY <2>1, <2>2 DEF Gives
<1> QED
  BY <1>1, <1>2

\* With select a packet that is taken is given, or its read failed.
LEMMA SelectLosesNone ==
  ASSUME NEW bad, NEW dev, NEW q, NEW n, NEW g, DevInv("select", dev, q, n, g), q # <<>>,
         NEW h, Gives(bad, Head(q), g, h)
  PROVE  Lost(bad, dev, n - Len(Tail(q)), h) \subseteq Lost(bad, dev, n - Len(q), g)
<1> DEFINE k == n - Len(Tail(q))
           m == n - Len(q)
<1>1. Head(q) = m + 1 /\ k = Head(q) /\ Head(q) \in Nat
  BY SelectRead
<1>2. m \in Int
  BY DEF DevInv, QueueOK
<1> HIDE DEF k, m
<1>3. \A p \in 1 .. k : p # Head(q) => p \in 1 .. m
  BY <1>1, <1>2
<1> QED
  BY <1>3 DEF Lost, Gives, k, m

\* The count of a set that does not grow, or grows by one.
LEMMA LostCounted ==
  ASSUME NEW S, IsFiniteSet(S), NEW T, NEW x, T \subseteq S \cup {x}
  PROVE  /\ IsFiniteSet(T) /\ Cardinality(S) \in Nat /\ Cardinality(T) \in Nat
         /\ Cardinality(T) <= Cardinality(S) + 1 /\ (T \subseteq S => Cardinality(T) <= Cardinality(S))
<1>1. /\ IsFiniteSet(S \cup {x}) /\ Cardinality(S) \in Nat
      /\ Cardinality(S \cup {x}) = IF x \in S THEN Cardinality(S) ELSE Cardinality(S) + 1
  BY FS_AddElement, FS_CardinalityType
<1>2. IsFiniteSet(T) /\ Cardinality(T) <= Cardinality(S \cup {x})
  BY <1>1, FS_Subset
<1>3. T \subseteq S => Cardinality(T) <= Cardinality(S)
  BY FS_Subset
<1>4. Cardinality(T) \in Nat
  BY <1>2, FS_CardinalityType
<1> QED
  BY <1>1, <1>2, <1>3, <1>4

\* Nothing has arrived yet.
LEMMA LossesStart == EventInit => LossInv
<1> SUFFICES ASSUME EventInit PROVE LossInv
  OBVIOUS
<1>1. /\ udpQueue = <<>> /\ tunQueue = <<>> /\ udpIn = 0 /\ tunIn = 0 /\ got = [udp |-> <<>>, tun |-> <<>>]
      /\ udpDev = [NewDev EXCEPT !.armed = ~m_disabled]
  BY DEF EventInit
<1>2. 1 .. (0 - Len(<<>>)) = {} /\ Len(got.tun) = 0
  BY <1>1
<1>3. LostOfTun = {} /\ LostOfUdp = {}
  BY <1>1, <1>2 DEF LostOfTun, LostOfUdp, Lost
<1>4. Waiting = 0
  <2> DEFINE r == ~m_disabled
  <2>1. udpDev = [NewDev EXCEPT !.armed = r]
    BY <1>1
  <2> HIDE DEF r
  <2>2. udpDev.readed = 0
    BY <2>1 DEF NewDev
  <2> QED
    BY <2>2 DEF Waiting
<1>5. Cardinality(LostOfUdp) = 0 /\ IsFiniteSet(LostOfUdp) /\ Allowed = 0
  BY <1>2, <1>3, FS_EmptySet DEF Allowed
<1> QED
  BY <1>3, <1>4, <1>5 DEF LossInv

\* The sum that is bounded: e and c lost, x and w waiting, t and s allowed, after and before.
LEMMA LossSum ==
  ASSUME NEW c \in Nat, NEW e \in Nat, NEW w \in 0 .. 1, NEW x \in 0 .. 1, NEW s \in Nat, NEW t \in Nat,
         c + w <= s,
         (e <= c /\ x + s <= w + t) \/ (e <= c + 1 /\ w = 1 /\ x = 0 /\ t = s)
  PROVE  e + x <= t
  OBVIOUS

\* A datagram is lost in a step only when one was waiting; one begins to wait only when a
\* frame is given.
LEMMA LossMoves ==
  ASSUME LossInv, LostOfTun' \subseteq LostOfTun, Allowed \in Nat, Allowed' \in Nat,
         \/ LostOfUdp' \subseteq LostOfUdp /\ Waiting' + Allowed <= Waiting + Allowed'
         \/ LostOfUdp' \subseteq LostOfUdp \cup {udpDev.readed} /\ Waiting = 1 /\ Waiting' = 0 /\ Allowed' = Allowed
  PROVE  LossInv'
<1> DEFINE c == Cardinality(LostOfUdp)
           e == Cardinality(LostOfUdp)'
<1>1. IsFiniteSet(LostOfUdp) /\ LostOfTun' = {} /\ c + Waiting <= Allowed
  BY DEF LossInv
<1>2. LostOfUdp' \subseteq LostOfUdp \cup {udpDev.readed}
  OBVIOUS
<1>3. IsFiniteSet(LostOfUdp') /\ c \in Nat /\ e \in Nat /\ e <= c + 1 /\ (LostOfUdp' \subseteq LostOfUdp => e <= c)
  BY <1>1, <1>2, LostCounted
<1>4. Waiting \in 0 .. 1 /\ Waiting' \in 0 .. 1
  BY DEF Waiting
<1> DEFINE w == Waiting
           x == Waiting'
           s == Allowed
           t == Allowed'
<1>5. /\ c \in Nat /\ e \in Nat /\ w \in 0 .. 1 /\ x \in 0 .. 1 /\ s \in Nat /\ t \in Nat /\ c + w <= s
      /\ (e <= c /\ x + s <= w + t) \/ (e <= c + 1 /\ w = 1 /\ x = 0 /\ t = s)
  <2> HIDE DEF c, e
  <2> QED
    BY <1>1, <1>3, <1>4
<1> HIDE DEF c, e, w, x, s, t
<1>6. e + x <= t
  BY <1>5, LossSum
<1> QED
  BY <1>1, <1>3, <1>6 DEF LossInv, e, x, t

\* The steps of the loop and of the system.
LEMMA LossStep == EventInv /\ EventInv' /\ LossInv /\ [EventNext]_eventVars => LossInv'
<1> SUFFICES ASSUME EventInv, EventInv', LossInv, [EventNext]_eventVars PROVE LossInv'
  OBVIOUS
<1>0. /\ DevInv(flavour, udpDev, udpQueue, udpIn, got.udp)
      /\ DevInv(flavour, tunDev, tunQueue, tunIn, got.tun) /\ LoopInv
  BY DEF EventInv
<1>a. Allowed \in Nat /\ Allowed' \in Nat /\ Waiting \in 0 .. 1
  <2>1. got.tun \in Seq(GotRecord) /\ got'.tun \in Seq(GotRecord)
    BY DEF EventInv, DevInv, Reads
  <2> QED
    BY <2>1 DEF Allowed, Waiting
<1>b. ASSUME LostOfTun' \subseteq LostOfTun, LostOfUdp' \subseteq LostOfUdp, Waiting' = Waiting,
             got' = got, flavour' = flavour
      PROVE  LossInv'
  <2>1. Allowed' = Allowed
    BY <1>b DEF Allowed
  <2> QED
    BY <1>a, <1>b, <2>1, LossMoves
<1>c. ASSUME NEW dev, NEW q, NEW n, NEW g, DevInv(flavour, dev, q, n, g)
      PROVE  (n + 1) - Len(Append(q, n + 1)) = n - Len(q)
  <2>1. q \in Seq(Nat) /\ n \in Nat
    BY <1>c DEF DevInv, QueueOK
  <2> QED
    BY <2>1
<1>1. CASE UNCHANGED eventVars
  <2>1. LostOfTun' = LostOfTun /\ LostOfUdp' = LostOfUdp /\ Waiting' = Waiting
    BY <1>1 DEF eventVars, LostOfTun, LostOfUdp, Waiting
  <2> QED
    BY <1>1, <1>b, <2>1 DEF eventVars
<1>2. CASE UdpArrives \/ TunArrives
  <2>1. /\ UNCHANGED <<udpDev, tunDev, flavour, failed, lpc, m_udp_event, got>>
        /\ udpIn' - Len(udpQueue') = udpIn - Len(udpQueue) /\ tunIn' - Len(tunQueue') = tunIn - Len(tunQueue)
    BY <1>0, <1>2, <1>c DEF UdpArrives, TunArrives, loopVars
  <2>2. LostOfTun' = LostOfTun /\ LostOfUdp' = LostOfUdp /\ Waiting' = Waiting
    BY <2>1 DEF LostOfTun, LostOfUdp, Waiting
  <2> QED
    BY <1>b, <2>1, <2>2
<1>f. ASSUME NEW dev, NEW q, NEW n, NEW g, DevInv(flavour, dev, q, n, g)
      PROVE  Filled(dev, q).readed = dev.readed
  <2>1. dev \in [buffer : Nat, armed : {dev.armed}, done : Nat, readed : Nat, endpoint : Nat]
    BY <1>f DEF DevInv, IsDev
  <2> QED
    BY <2>1 DEF Filled
<1>4. CASE SystemFillsUdp
  <2>1. /\ flavour = "overlapped" /\ CanFill(udpDev, udpQueue)
        /\ udpDev' = Filled(udpDev, udpQueue) /\ udpQueue' = Tail(udpQueue)
        /\ UNCHANGED <<tunQueue, udpIn, tunIn, tunDev, flavour, failed, lpc, m_udp_event, got>>
    BY <1>4 DEF SystemFillsUdp, loopVars
  <2>2. LostOfUdp' \subseteq LostOfUdp /\ udpDev'.readed = udpDev.readed
    BY <1>0, <1>f, <2>1, FilledLosesNone DEF LostOfUdp
  <2>3. LostOfTun' = LostOfTun /\ Waiting' = Waiting
    BY <2>1, <2>2 DEF LostOfTun, Waiting
  <2> QED
    BY <1>b, <2>1, <2>2, <2>3
<1>5. CASE SystemFillsTun
  <2>1. /\ flavour = "overlapped" /\ CanFill(tunDev, tunQueue)
        /\ tunDev' = Filled(tunDev, tunQueue) /\ tunQueue' = Tail(tunQueue)
        /\ UNCHANGED <<udpQueue, udpIn, tunIn, udpDev, flavour, failed, lpc, m_udp_event, got>>
    BY <1>5 DEF SystemFillsTun, loopVars
  <2>2. LostOfTun' \subseteq LostOfTun
    BY <1>0, <2>1, FilledLosesNone DEF LostOfTun
  <2>3. LostOfUdp' = LostOfUdp /\ Waiting' = Waiting
    BY <2>1 DEF LostOfUdp, Waiting
  <2> QED
    BY <1>b, <2>1, <2>2, <2>3
<1>6. CASE AsioWait
  <2> DEFINE t == Ready(tunDev, tunQueue)
             u == Ready(udpDev, udpQueue)
  <2>1. /\ flavour # "select" /\ lpc = "wait" /\ UNCHANGED <<flavour, failed, udpIn, tunIn, got>>
        /\ tunQueue' = Rest(tunDev, tunQueue) /\ tunDev' = IF t.done # 0 THEN handle_read(t) ELSE t
        /\ \/ UNCHANGED <<udpDev, udpQueue, m_udp_event, lpc>>
           \/ /\ udpDev' = IF u.done # 0 THEN read_handle(u) ELSE u
              /\ udpQueue' = Rest(udpDev, udpQueue)
              /\ m_udp_event' = (u.done # 0) /\ lpc' = "dispatch"
    BY <1>6 DEF AsioWait
  <2>2. tunDev.readed = 0 /\ Allowed' = Allowed
    BY <1>0, <2>1 DEF LoopInv, Allowed
  <2>3. ASSUME NEW dev, NEW q, NEW n, NEW g, DevInv(flavour, dev, q, n, g)
        PROVE  IsDev(Ready(dev, q)) /\ Ready(dev, q).readed = dev.readed
    <3>1. /\ IsDev(dev) /\ n \in Nat /\ QueueOK(q, n) /\ Reads(dev.done, dev.readed, n - Len(q), g)
          /\ BufferOK(flavour, dev, n - Len(q))
      BY <2>3 DEF DevInv
    <3>a. CanFill(dev, q) => dev.readed \in {0, n - Len(q)}
      BY <3>1 DEF BufferOK, CanFill
    <3>2. CanFill(dev, q) => IsDev(Filled(dev, q)) /\ Filled(dev, q).readed = dev.readed
      BY <3>1, <3>a, ReadCompletes DEF Completed
    <3> QED
      BY <3>1, <3>2 DEF Ready
  <2>4. IsDev(t) /\ IsDev(u) /\ t.readed = 0 /\ u.readed = udpDev.readed
    BY <1>0, <2>2, <2>3
  <2> HIDE DEF t, u
  <2>5. LostOfTun' \subseteq LostOfTun
    <3>1. /\ tunDev'.done = 0
          /\ IF t.done # 0 THEN tunDev'.readed = IF t.done \in failed.tun THEN 0 ELSE t.done
             ELSE tunDev'.readed = tunDev.readed
      <4>1. CASE t.done # 0
        BY <2>1, <2>4, <4>1, HandlerShapes
      <4>2. CASE t.done = 0
        BY <2>1, <2>2, <2>4, <4>2
      <4> QED
        BY <4>1, <4>2
    <3>2. Lost(failed.tun, tunDev', tunIn - Len(Rest(tunDev, tunQueue)), got.tun) \subseteq LostOfTun
      BY <1>0, <2>1, <2>2, <3>1, HandlerLosesOne DEF t, LostOfTun
    <3> QED
      BY <2>1, <3>2 DEF LostOfTun
  <2>6. CASE UNCHANGED <<udpDev, udpQueue, m_udp_event, lpc>>
    <3>1. LostOfUdp' = LostOfUdp /\ Waiting' = Waiting
      BY <2>1, <2>6 DEF LostOfUdp, Waiting
    <3> QED
      BY <1>b, <2>1, <2>5, <3>1
  <2>7. CASE /\ udpDev' = IF u.done # 0 THEN read_handle(u) ELSE u
             /\ udpQueue' = Rest(udpDev, udpQueue)
             /\ m_udp_event' = (u.done # 0) /\ lpc' = "dispatch"
    <3>1. /\ udpDev'.done = 0
          /\ IF u.done # 0 THEN udpDev'.readed = IF u.done \in failed.udp THEN 0 ELSE u.done
             ELSE udpDev'.readed = udpDev.readed
      <4>1. CASE u.done # 0
        BY <2>4, <2>7, <4>1, HandlerShapes
      <4>2. CASE u.done = 0
        BY <2>4, <2>7, <4>2
      <4> QED
        BY <4>1, <4>2
    <3>2. LET L == Lost(failed.udp, udpDev', udpIn - Len(Rest(udpDev, udpQueue)), got.udp) IN
          /\ L \subseteq LostOfUdp \cup {udpDev.readed}
          /\ udpDev.readed = 0 \/ u.done = 0 => L \subseteq LostOfUdp
      BY <1>0, <2>1, <3>1, HandlerLosesOne DEF u, LostOfUdp
    <3>3. /\ LostOfUdp' \subseteq LostOfUdp \cup {udpDev.readed}
          /\ udpDev.readed = 0 \/ u.done = 0 => LostOfUdp' \subseteq LostOfUdp
      BY <2>1, <2>7, <3>2 DEF LostOfUdp
    <3>4. CASE u.done # 0 /\ udpDev.readed # 0
      <4>1. Waiting = 1 /\ Waiting' = 0
        BY <2>1, <2>7, <3>4 DEF Waiting
      <4> QED
        BY <1>a, <2>2, <2>5, <3>3, <4>1, LossMoves
    <3>5. CASE u.done # 0 /\ udpDev.readed = 0
      <4>1. Waiting = 0 /\ Waiting' = 0
        BY <2>1, <2>7, <3>5 DEF Waiting
      <4> QED
        BY <1>a, <2>2, <2>5, <3>3, <3>5, <4>1, LossMoves
    <3>6. CASE u.done = 0
      <4>1. Waiting' = Waiting
        BY <2>1, <2>7, <3>1, <3>6 DEF Waiting
      <4> QED
        BY <1>b, <2>1, <2>5, <3>3, <3>6, <4>1
    <3> QED
      BY <3>4, <3>5, <3>6
  <2> QED
    BY <2>1, <2>6, <2>7
<1>s. flavour = "select" => udpDev.readed = 0 /\ udpDev'.readed = udpDev'.readed
  BY <1>0 DEF DevInv, BufferOK
<1>7. CASE LinuxWait
  <2>1. flavour = "select" /\ UNCHANGED <<flavour, failed, udpQueue, tunQueue, udpIn, tunIn, udpDev, tunDev, got>>
    BY <1>7 DEF LinuxWait
  <2>2. LostOfTun' = LostOfTun /\ LostOfUdp' = LostOfUdp /\ Waiting' = Waiting
    BY <1>s, <2>1 DEF LostOfTun, LostOfUdp, Waiting
  <2> QED
    BY <1>b, <2>1, <2>2
<1>8. CASE read_from_tun
  <2>1. /\ lpc = "dispatch" /\ m_tun_event
        /\ UNCHANGED <<flavour, failed, udpQueue, udpIn, tunIn, udpDev>>
    BY <1>8 DEF read_from_tun, LinuxRead
  <2>2. got.tun \in Seq(GotRecord) /\ IsDev(tunDev)
    BY <1>0 DEF DevInv, Reads
  <2>3. CASE flavour = "select"
    <3>1. tunQueue # <<>> /\ tunQueue' = Tail(tunQueue) /\ tunDev' = tunDev
      BY <1>0, <1>8, <2>1, <2>3 DEF LoopInv, read_from_tun, LinuxRead
    <3> DEFINE r == Whole(Head(tunQueue))
    <3>2. Head(tunQueue) \in Nat
      BY <1>0, <2>3, <3>1, SelectRead
    <3>3. r \in GotRecord /\ r.size = Head(tunQueue)
      BY <3>2 DEF Whole, GotRecord
    <3>4. /\ got'.udp = got.udp
          /\ got'.tun = IF Head(tunQueue) \in failed.tun THEN got.tun ELSE Append(got.tun, r)
      <4>1. got' = IF Head(tunQueue) \in failed.tun THEN got ELSE [got EXCEPT !.tun = Append(got.tun, r)]
        BY <1>8, <2>3 DEF read_from_tun, LinuxRead
      <4>2. got \in [udp : {got.udp}, tun : {got.tun}]
        BY DEF EventInv
      <4> HIDE DEF r
      <4> QED
        BY <4>1, <4>2, GivenToLoop
    <3> HIDE DEF r
    <3>5. LostOfTun' \subseteq LostOfTun
      <4>1. Gives(failed.tun, Head(tunQueue), got.tun, got'.tun)
        <5> DEFINE h == got'.tun
                   k == Head(tunQueue)
        <5>1. h = Append(got.tun, r) \/ (h = got.tun /\ k \in failed.tun)
          BY <3>4
        <5>2. r.size = k
          BY <3>3
        <5> HIDE DEF h, k
        <5>3. Gives(failed.tun, k, got.tun, h)
          BY <2>2, <5>1, <5>2, GivenSizes
        <5> QED
          BY <5>3 DEF h, k
      <4>2. Lost(failed.tun, tunDev, tunIn - Len(Tail(tunQueue)), got'.tun) \subseteq LostOfTun
        BY <1>0, <2>3, <3>1, <4>1, SelectLosesNone DEF LostOfTun
      <4> QED
        BY <2>1, <3>1, <4>2 DEF LostOfTun
    <3>6. LostOfUdp' = LostOfUdp /\ Waiting' = Waiting /\ Waiting = 0 /\ Allowed' = Allowed
      BY <1>s, <2>1, <2>3, <3>4 DEF LostOfUdp, Waiting, Allowed
    <3> QED
      BY <1>a, <3>5, <3>6, LossMoves
  <2>4. CASE flavour # "select"
    <3> DEFINE r == Buffered(tunDev)
    <3>1. /\ got' = [got EXCEPT !.tun = Append(got.tun, r)]
          /\ tunQueue' = tunQueue /\ tunDev' = [tunDev EXCEPT !.readed = 0]
      BY <1>8, <2>4 DEF read_from_tun, LinuxRead
    <3>2. r \in GotRecord /\ r.size = tunDev.readed
      BY <2>2 DEF Buffered, IsDev, GotRecord
    <3> HIDE DEF r
    <3>3. got'.udp = got.udp /\ got'.tun = Append(got.tun, r)
      BY <3>1, GivenToLoop DEF EventInv
    <3>4. LostOfTun' \subseteq LostOfTun
      <4>1. Lost(failed.tun, [tunDev EXCEPT !.readed = 0], tunIn - Len(tunQueue), Append(got.tun, r)) \subseteq LostOfTun
        BY <2>2, <3>2, ReadLosesNone DEF LostOfTun
      <4> QED
        BY <2>1, <3>1, <3>3, <4>1 DEF LostOfTun
    <3>5. LostOfUdp' = LostOfUdp
      BY <2>1, <3>3 DEF LostOfUdp
    <3>6. Allowed' = Allowed + 1 /\ Waiting' \in 0 .. 1
      <4>1. Len(Append(got.tun, r)) = Len(got.tun) + 1
        BY <2>2, <3>2
      <4> QED
        BY <2>1, <2>4, <3>3, <4>1 DEF Allowed, Waiting
    <3>7. Waiting' + Allowed <= Waiting + Allowed'
      <4> DEFINE w == Waiting
                 x == Waiting'
                 s == Allowed
                 t == Allowed'
      <4>1. w \in 0 .. 1 /\ x \in 0 .. 1 /\ s \in Nat /\ t = s + 1
        BY <1>a, <3>6
      <4> HIDE DEF w, x, s, t
      <4>2. x + s <= w + t
        BY <4>1
      <4> QED
        BY <4>2 DEF w, x, s, t
    <3> QED
      BY <1>a, <3>4, <3>5, <3>7, LossMoves
  <2> QED
    BY <2>3, <2>4
<1>9. CASE receive_data
  <2>1. /\ lpc = "dispatch" /\ m_udp_event /\ lpc' = "wait"
        /\ UNCHANGED <<flavour, failed, tunQueue, udpIn, tunIn, tunDev>>
    BY <1>9 DEF receive_data
  <2>2. got.udp \in Seq(GotRecord) /\ IsDev(udpDev) /\ Waiting = 0
    BY <1>0, <2>1 DEF DevInv, Reads, Waiting
  <2>3. ASSUME got'.tun = got.tun, LostOfUdp' \subseteq LostOfUdp, udpDev'.readed = 0
        PROVE  LossInv'
    <3>1. LostOfTun' = LostOfTun /\ Allowed' = Allowed /\ Waiting' = 0
      BY <2>1, <2>3 DEF LostOfTun, Allowed, Waiting
    <3> QED
      BY <1>a, <2>2, <2>3, <3>1, LossMoves
  <2>4. CASE flavour = "select"
    <3> DEFINE r == LinuxReceive(Head(udpQueue))
    <3>1. udpQueue # <<>> /\ udpQueue' = Tail(udpQueue) /\ udpDev' = udpDev
          /\ got' = [got EXCEPT !.udp = Append(got.udp, r)]
      BY <1>0, <1>9, <2>1, <2>4 DEF LoopInv, receive_data
    <3>2. Head(udpQueue) \in failed.udp \/ r.size = Head(udpQueue)
      BY DEF LinuxReceive, Whole
    <3> HIDE DEF r
    <3>3. got'.tun = got.tun /\ got'.udp = Append(got.udp, r)
      BY <3>1, GivenToLoop DEF EventInv
    <3>4. Gives(failed.udp, Head(udpQueue), got.udp, got'.udp)
      <4> DEFINE h == got'.udp
                 k == Head(udpQueue)
      <4>1. h = Append(got.udp, r) /\ (k \in failed.udp \/ r.size = k)
        BY <3>2, <3>3
      <4> HIDE DEF h, k
      <4>2. Gives(failed.udp, k, got.udp, h)
        BY <2>2, <4>1, GivenSizes
      <4> QED
        BY <4>2 DEF h, k
    <3>5. Lost(failed.udp, udpDev, udpIn - Len(Tail(udpQueue)), got'.udp) \subseteq LostOfUdp
      BY <1>0, <2>4, <3>1, <3>4, SelectLosesNone DEF LostOfUdp
    <3>6. LostOfUdp' \subseteq LostOfUdp
      BY <2>1, <3>1, <3>5 DEF LostOfUdp
    <3> QED
      BY <1>s, <2>3, <2>4, <3>1, <3>3, <3>6
  <2>5. CASE flavour # "select" /\ udpDev.readed = 0
    <3>1. got' = got /\ udpQueue' = udpQueue /\ udpDev' = [udpDev EXCEPT !.readed = 0]
      BY <1>9, <2>5 DEF receive_data
    <3>2. udpDev' = udpDev
      BY <2>2, <2>5, <3>1 DEF IsDev
    <3>3. LostOfUdp' = LostOfUdp
      BY <2>1, <3>1, <3>2 DEF LostOfUdp
    <3> QED
      BY <2>3, <2>5, <3>1, <3>2, <3>3
  <2>6. CASE flavour # "select" /\ udpDev.readed # 0
    <3> DEFINE r == Buffered(udpDev)
    <3>1. /\ got' = [got EXCEPT !.udp = Append(got.udp, r)]
          /\ udpQueue' = udpQueue /\ udpDev' = [udpDev EXCEPT !.readed = 0]
      BY <1>9, <2>6 DEF receive_data
    <3>2. r \in GotRecord /\ r.size = udpDev.readed
      BY <2>2 DEF Buffered, IsDev, GotRecord
    <3> HIDE DEF r
    <3>3. got'.tun = got.tun /\ got'.udp = Append(got.udp, r)
      BY <3>1, GivenToLoop DEF EventInv
    <3>4. Lost(failed.udp, [udpDev EXCEPT !.readed = 0], udpIn - Len(udpQueue), Append(got.udp, r)) \subseteq LostOfUdp
      BY <2>2, <3>2, ReadLosesNone DEF LostOfUdp
    <3>5. LostOfUdp' \subseteq LostOfUdp
      BY <2>1, <3>1, <3>3, <3>4 DEF LostOfUdp
    <3>6. udpDev'.readed = 0
      BY <2>2, <3>1 DEF IsDev
    <3> QED
      BY <2>3, <3>3, <3>5, <3>6
  <2> QED
    BY <2>4, <2>5, <2>6
<1>10. CASE Idle
  <2>1. ~m_udp_event /\ UNCHANGED <<flavour, failed, udpQueue, tunQueue, udpIn, tunIn, udpDev, tunDev, m_udp_event, got>>
    BY <1>10 DEF Idle
  <2>2. LostOfTun' = LostOfTun /\ LostOfUdp' = LostOfUdp /\ Waiting' = Waiting
    BY <2>1 DEF LostOfTun, LostOfUdp, Waiting
  <2> QED
    BY <1>b, <2>1, <2>2
<1> QED
  BY <1>1, <1>2, <1>4, <1>5, <1>6, <1>7, <1>8, <1>9, <1>10 DEF EventNext

\* No frame is lost, and no more datagrams than frames were given.
LEMMA LossesKept == EventInv /\ LossInv => LossesBounded
<1> SUFFICES ASSUME EventInv, LossInv PROVE LossesBounded
  OBVIOUS
<1>1. LostOfTun = {} /\ Cardinality(LostOfUdp) + Waiting <= Allowed /\ Cardinality(LostOfUdp) \in Nat
  BY FS_CardinalityType DEF LossInv
<1>2. Allowed \in Nat /\ Waiting \in 0 .. 1
  <2>1. got.tun \in Seq(GotRecord)
    BY DEF EventInv, DevInv, Reads
  <2> QED
    BY <2>1 DEF Allowed, Waiting
<1>3. Cardinality(LostOfUdp) <= Allowed
  BY <1>1, <1>2
<1> QED
  BY <1>1, <1>3 DEF LossesBounded, LostOfTun, LostOfUdp, Allowed

\* The order and the shape of what the loop was given.
LEMMA ReadsWhole == EventInv => LoopReadsWhole
<1> SUFFICES ASSUME EventInv PROVE LoopReadsWhole
  OBVIOUS
<1>1. InOrder(got.udp) /\ InOrder(got.tun)
  BY DEF EventInv, DevInv, Reads
<1>2. GivenOK(flavour, failed.udp, got.udp) /\ GivenOK(flavour, {}, got.tun)
      /\ \A i \in DOMAIN got.tun : got.tun[i].size > 0
  BY DEF EventInv, GotInv
<1>3. \A s \in {got.udp, got.tun} : \A i \in DOMAIN s : Received(s[i]) =>
        s[i] = Whole(s[i].size) \/ (flavour = "overlapped" /\ s[i] = Torn(s[i].size))
  BY <1>2 DEF GivenOK
<1>4. \A i \in DOMAIN got.udp : ~Received(got.udp[i]) =>
        flavour = "select" /\ i \in failed.udp /\ got.udp[i] = Stale(got.udp, i)
  BY <1>2 DEF GivenOK
<1> QED
  BY <1>1, <1>2, <1>3, <1>4 DEF LoopReadsWhole

\* The loop is given what was sent, in order, as far as it can be.
LEMMA EventsHold == EventSpec => [](LoopReadsWhole /\ LossesBounded)
  BY EventsInit, EventStep, ReadsWhole, LossesStart, LossStep, LossesKept, PTL DEF EventSpec

-----------------------------------------------------------------------------
\* The statistics.

Entry == Nat \X Nat

\* A window shows the history up to the unit base.
Mirrors(buffer, base, h) ==
  \A i \in 1 .. WindowSize :
    buffer[i] = IF base - (WindowSize - i) < 0 THEN NoEntry ELSE h[base - (WindowSize - i)]

\* Nothing was counted after the unit base.
NoneAfter(base, h) == \A u \in 0 .. MaxUnit : u > base => h[u] = NoEntry

\* The unit up to which a window was moved: m_last is set before the zeros are pushed.
Base(w) == lastUnit[w] - (IF http = w THEN pushing ELSE 0)

StatShape ==
  /\ nowUnit \in 0 .. MaxUnit /\ pushing \in Nat
  /\ lastUnit \in [Way -> Nat] /\ \A w \in Way : lastUnit[w] <= nowUnit
  /\ window \in [Way -> [1 .. WindowSize -> Entry]]
  /\ history \in [Way -> [0 .. MaxUnit -> Entry]]

\* A page is drawn for a connection that was accepted.
PagesCounted ==
  /\ sessions \in Nat /\ accepted \in Nat
  /\ sessions > 0 \/ http \notin {"run", "ended"} \/ raced # {} => accepted > 0

StatInv ==
  /\ StatShape
  /\ \A w \in Way \ raced : Mirrors(window[w], Base(w), history[w]) /\ NoneAfter(Base(w), history[w])
  /\ PagesCounted

\* Zeros for the units in which nothing was counted.
LEMMA ZerosPushed ==
  ASSUME NEW buffer, NEW h, NEW base \in Int, NEW n \in Nat, base + n <= MaxUnit,
         Mirrors(buffer, base, h), NoneAfter(base, h)
  PROVE  Mirrors(PushZeros(buffer, n), base + n, h) /\ NoneAfter(base + n, h)
<1> USE DebugStatsConstants
<1> DEFINE p == PushZeros(buffer, n)
<1>1. \A i \in 1 .. WindowSize : p[i] = IF i + n <= WindowSize THEN buffer[i + n] ELSE NoEntry
  BY DEF PushZeros
<1> HIDE DEF p
<1>2. ASSUME NEW i \in 1 .. WindowSize
      PROVE  p[i] = IF (base + n) - (WindowSize - i) < 0 THEN NoEntry ELSE h[(base + n) - (WindowSize - i)]
  <2>1. CASE i + n <= WindowSize
    <3>1. i + n \in 1 .. WindowSize /\ base - (WindowSize - (i + n)) = (base + n) - (WindowSize - i)
      BY <2>1
    <3> QED
      BY <1>1, <2>1, <3>1 DEF Mirrors
  <2>2. CASE i + n > WindowSize
    <3> DEFINE u == (base + n) - (WindowSize - i)
    <3>1. p[i] = NoEntry /\ u \in Int /\ u > base /\ u <= MaxUnit
      BY <1>1, <2>2
    <3>2. u >= 0 => h[u] = NoEntry
      <4> HIDE DEF u
      <4> QED
        BY <3>1 DEF NoneAfter
    <3> QED
      BY <3>1, <3>2
  <2> QED
    BY <2>1, <2>2
<1>3. NoneAfter(base + n, h)
  BY DEF NoneAfter
<1> QED
  BY <1>2, <1>3 DEF Mirrors, p

\* A packet is entered in the last unit.
LEMMA PacketEntered ==
  ASSUME NEW buffer \in [1 .. WindowSize -> Entry], NEW h \in [0 .. MaxUnit -> Entry], NEW now \in 0 .. MaxUnit,
         NEW size \in Nat, Mirrors(buffer, now, h), NoneAfter(now, h)
  PROVE  LET g == [h EXCEPT ![now] = IF size = 0 THEN h[now] ELSE AddPacket(h[now], size)] IN
         /\ Mirrors(AddToBack(buffer, size), now, g) /\ NoneAfter(now, g)
         /\ AddToBack(buffer, size) \in [1 .. WindowSize -> Entry] /\ g \in [0 .. MaxUnit -> Entry]
<1> USE DebugStatsConstants
<1>1. WindowSize \in 1 .. WindowSize /\ buffer[WindowSize] = h[now]
  <2>1. WindowSize \in 1 .. WindowSize /\ now - (WindowSize - WindowSize) = now /\ ~(now < 0)
    OBVIOUS
  <2> QED
    BY <2>1 DEF Mirrors
<1>2. h[now] \in Entry /\ AddPacket(h[now], size) \in Entry
  <2>1. h[now] \in Entry
    OBVIOUS
  <2>2. h[now][1] \in Nat /\ h[now][2] \in Nat
    BY <2>1 DEF Entry
  <2>3. h[now][1] + size \in Nat /\ h[now][2] + 1 \in Nat
    BY <2>2
  <2> QED
    BY <2>1, <2>3 DEF AddPacket, Entry
<1> DEFINE e == IF size = 0 THEN h[now] ELSE AddPacket(h[now], size)
           g == [h EXCEPT ![now] = e]
           p == AddToBack(buffer, size)
<1>3. e \in Entry
  BY <1>2
<1>4. p \in [1 .. WindowSize -> Entry] /\ p[WindowSize] = e /\ \A i \in 1 .. WindowSize : i # WindowSize => p[i] = buffer[i]
  BY <1>1, <1>2 DEF AddToBack
<1> HIDE DEF e, p
<1>5. g \in [0 .. MaxUnit -> Entry] /\ g[now] = e /\ \A u \in 0 .. MaxUnit : u # now => g[u] = h[u]
  BY <1>3
<1> HIDE DEF g
<1>6. ASSUME NEW i \in 1 .. WindowSize
      PROVE  p[i] = IF now - (WindowSize - i) < 0 THEN NoEntry ELSE g[now - (WindowSize - i)]
  <2>1. CASE i = WindowSize
    <3>1. now - (WindowSize - i) = now /\ ~(now < 0)
      BY <2>1
    <3> QED
      BY <1>4, <1>5, <2>1, <3>1
  <2>2. CASE i # WindowSize
    <3>1. now - (WindowSize - i) # now /\ now - (WindowSize - i) <= MaxUnit /\ now - (WindowSize - i) \in Int
      BY <2>2
    <3>2. p[i] = IF now - (WindowSize - i) < 0 THEN NoEntry ELSE h[now - (WindowSize - i)]
      BY <1>4, <2>2 DEF Mirrors
    <3> QED
      BY <1>5, <3>1, <3>2
  <2> QED
    BY <2>1, <2>2
<1>7. NoneAfter(now, g)
  BY <1>5 DEF NoneAfter
<1> QED
  BY <1>4, <1>5, <1>6, <1>7 DEF Mirrors, g, p, e

\* Nothing was counted yet.
LEMMA StatInit == DebugInit => StatInv
<1> SUFFICES ASSUME DebugInit PROVE StatInv
  OBVIOUS
<1> USE DebugStatsConstants
<1>1. NoEntry \in Entry
  BY DEF NoEntry, Entry
<1>2. /\ nowUnit = 0 /\ window = [w \in Way |-> [i \in 1 .. WindowSize |-> NoEntry]]
      /\ lastUnit = [w \in Way |-> 0] /\ pushing = 0 /\ http = "run"
      /\ history = [w \in Way |-> [u \in 0 .. MaxUnit |-> NoEntry]]
  BY DEF DebugInit
<1> HIDE DEF NoEntry, Entry
<1>3. StatShape
  BY <1>1, <1>2 DEF StatShape
<1>4. ASSUME NEW w \in Way PROVE Mirrors(window[w], Base(w), history[w]) /\ NoneAfter(Base(w), history[w])
  <2>1. Base(w) = 0
    BY <1>2 DEF Base
  <2>2. /\ \A i \in 1 .. WindowSize : window[w][i] = NoEntry
        /\ \A u \in 0 .. MaxUnit : history[w][u] = NoEntry
    BY <1>2
  <2>3. NoneAfter(0, history[w])
    BY <2>2 DEF NoneAfter
  <2>4. ASSUME NEW i \in 1 .. WindowSize
        PROVE  window[w][i] = IF 0 - (WindowSize - i) < 0 THEN NoEntry ELSE history[w][0 - (WindowSize - i)]
    <3>1. 0 - (WindowSize - i) \in Int /\ 0 - (WindowSize - i) <= MaxUnit
      OBVIOUS
    <3> QED
      BY <2>2, <3>1
  <2> QED
    BY <2>1, <2>3, <2>4 DEF Mirrors
<1>5. PagesCounted
  BY DEF DebugInit, PagesCounted
<1> QED
  BY <1>3, <1>4, <1>5 DEF StatInv

\* A step that leaves window, m_last and history of every way, and what has to be pushed, as they are.
LEMMA StatStays ==
  ASSUME StatInv, UNCHANGED <<window, lastUnit, history, pushing, raced>>, nowUnit' \in 0 .. MaxUnit, nowUnit' >= nowUnit,
         \A w \in Way : http' = w <=> http = w, PagesCounted'
  PROVE  StatInv'
<1> USE DebugStatsConstants
<1>1. StatShape'
  <2>1. \A w \in Way : lastUnit[w] \in Nat /\ lastUnit[w] <= nowUnit /\ nowUnit \in Nat
    BY DEF StatInv, StatShape
  <2>2. \A w \in Way : lastUnit[w] <= nowUnit'
    BY <2>1
  <2> QED
    BY <2>2 DEF StatInv, StatShape
<1>2. \A w \in Way : Base(w)' = Base(w)
  BY DEF Base
<1> QED
  BY <1>1, <1>2 DEF StatInv

\* The loop counts a packet.
LEMMA StatCounts ==
  ASSUME StatInv, NEW w \in Way, NEW size \in Nat, update_stats(w, size)
  PROVE  StatInv'
<1> USE DebugStatsConstants
<1>0. StatShape
  BY DEF StatInv
<1> DEFINE n == nowUnit - lastUnit[w]
           p == PushZeros(window[w], n)
           g == [history[w] EXCEPT ![nowUnit] = IF size = 0 THEN history[w][nowUnit]
                                                 ELSE AddPacket(history[w][nowUnit], size)]
<1>1. /\ window' = [window EXCEPT ![w] = AddToBack(p, size)]
      /\ lastUnit' = [lastUnit EXCEPT ![w] = nowUnit]
      /\ nowUnit' = nowUnit /\ pushing' = pushing /\ http' = http
      /\ raced \subseteq raced' /\ (w \notin raced' => http # w)
      /\ raced' # {} => raced # {} \/ http = w
      /\ sessions' = sessions /\ accepted' = accepted
  BY DEF update_stats, httpVars
<1>2. history' = [history EXCEPT ![w] = g]
  BY Zenon DEF update_stats
<1>3. /\ nowUnit \in 0 .. MaxUnit /\ lastUnit[w] \in Nat /\ lastUnit[w] <= nowUnit /\ n \in Nat
      /\ window[w] \in [1 .. WindowSize -> Entry] /\ history[w] \in [0 .. MaxUnit -> Entry]
  BY <1>0 DEF StatShape
<1>4. NoEntry \in Entry
  BY DEF NoEntry, Entry
<1>5. p \in [1 .. WindowSize -> Entry]
  <2>1. \A i \in 1 .. WindowSize : i + n <= WindowSize => i + n \in 1 .. WindowSize
    BY <1>3
  <2> HIDE DEF n
  <2> QED
    BY <1>3, <1>4, <2>1 DEF PushZeros
<1>6. AddToBack(p, size) \in [1 .. WindowSize -> Entry] /\ g \in [0 .. MaxUnit -> Entry]
  <2>1. ASSUME NEW e \in Entry PROVE AddPacket(e, size) \in Entry
    <3>1. e[1] + size \in Nat /\ e[2] + 1 \in Nat
      BY DEF Entry
    <3> QED
      BY <3>1 DEF AddPacket, Entry
  <2>2. WindowSize \in 1 .. WindowSize
    OBVIOUS
  <2>3. AddToBack(p, size) \in [1 .. WindowSize -> Entry]
    <3> HIDE DEF p
    <3>1. AddPacket(p[WindowSize], size) \in Entry
      BY <1>5, <2>1, <2>2
    <3> QED
      BY <1>5, <2>2, <3>1 DEF AddToBack
  <2>4. g \in [0 .. MaxUnit -> Entry]
    <3>1. history[w][nowUnit] \in Entry /\ AddPacket(history[w][nowUnit], size) \in Entry
      BY <1>3, <2>1
    <3> QED
      BY <1>3, <3>1
  <2> QED
    BY <2>3, <2>4
<1>7. StatShape'
  <2> DEFINE q == AddToBack(p, size)
  <2> HIDE DEF p, g, q, n
  <2>1. window' = [window EXCEPT ![w] = q] /\ q \in [1 .. WindowSize -> Entry] /\ g \in [0 .. MaxUnit -> Entry]
    BY <1>1, <1>6 DEF q
  <2>2. window' \in [Way -> [1 .. WindowSize -> Entry]]
    BY <1>0, <2>1 DEF StatShape
  <2>3. history' \in [Way -> [0 .. MaxUnit -> Entry]]
    BY <1>0, <1>2, <2>1 DEF StatShape
  <2>4. lastUnit' \in [Way -> Nat] /\ \A v \in Way : lastUnit'[v] <= nowUnit
    BY <1>0, <1>1, <1>3 DEF StatShape
  <2> QED
    BY <1>0, <1>1, <2>2, <2>3, <2>4 DEF StatShape
<1>8. ASSUME NEW v \in Way \ raced' PROVE Mirrors(window'[v], Base(v)', history'[v]) /\ NoneAfter(Base(v)', history'[v])
  <2>1. Mirrors(window[v], Base(v), history[v]) /\ NoneAfter(Base(v), history[v]) /\ (v = w => http # w)
    BY <1>1, <1>8 DEF StatInv
  <2>2. CASE v # w
    <3>1. window'[v] = window[v] /\ history'[v] = history[v] /\ lastUnit'[v] = lastUnit[v]
      BY <1>0, <1>1, <1>2, <2>2 DEF StatShape
    <3>2. Base(v)' = Base(v)
      BY <1>1, <3>1 DEF Base
    <3> QED
      BY <2>1, <3>1, <3>2
  <2>3. CASE v = w
    <3>1. Base(w) = lastUnit[w] /\ Base(w)' = nowUnit
      BY <1>0, <1>1, <1>3, <2>1, <2>3 DEF Base, StatShape
    <3>2. window'[w] = AddToBack(p, size) /\ history'[w] = g
      BY <1>0, <1>1, <1>2 DEF StatShape
    <3>3. lastUnit[w] + n = nowUnit /\ nowUnit <= MaxUnit
      BY <1>3
    <3> HIDE DEF n
    <3>4. Mirrors(p, lastUnit[w] + n, history[w]) /\ NoneAfter(lastUnit[w] + n, history[w])
      BY <1>3, <2>1, <2>3, <3>1, <3>3, ZerosPushed
    <3> HIDE DEF p
    <3>5. Mirrors(AddToBack(p, size), nowUnit, g) /\ NoneAfter(nowUnit, g)
      BY <1>3, <1>5, <3>3, <3>4, PacketEntered
    <3> QED
      BY <2>3, <3>1, <3>2, <3>5
  <2> QED
    BY <2>2, <2>3
<1>9. PagesCounted'
  <2>1. PagesCounted /\ w \notin {"run", "ended"}
    BY DEF StatInv, Way
  <2> QED
    BY <1>1, <2>1 DEF PagesCounted
<1> QED
  BY <1>7, <1>8, <1>9 DEF StatInv

\* m_last is set; the zeros are pushed later.
LEMMA StatBegins ==
  ASSUME StatInv, NEW w \in Way, http \in {"table", "between"}, BeginRefresh(w)
  PROVE  StatInv'
<1>0. StatShape
  BY DEF StatInv
<1>1. /\ http' = w /\ pushing' = nowUnit - lastUnit[w] /\ lastUnit' = [lastUnit EXCEPT ![w] = nowUnit]
      /\ UNCHANGED <<nowUnit, window, history, raced, sessions, accepted>>
  BY DEF BeginRefresh
<1>2. lastUnit[w] \in Nat /\ nowUnit \in Nat /\ lastUnit[w] <= nowUnit
  BY <1>0 DEF StatShape
<1>3. pushing' \in Nat
  BY <1>1, <1>2
<1>4. lastUnit' \in [Way -> Nat] /\ \A v \in Way : lastUnit'[v] <= nowUnit
  BY <1>0, <1>1, <1>2 DEF StatShape
<1>5. StatShape'
  BY <1>0, <1>1, <1>3, <1>4 DEF StatShape
<1>6. \A v \in Way : Base(v)' = Base(v)
  BY <1>0, <1>1, <1>2 DEF Base, StatShape, Way
<1>7. PagesCounted'
  BY <1>1 DEF StatInv, PagesCounted
<1> QED
  BY <1>1, <1>5, <1>6, <1>7 DEF StatInv

\* The zeros are pushed.
LEMMA StatEnds ==
  ASSUME StatInv, NEW w \in Way, NEW next, NEW drawn, next \notin Way, EndRefresh(w, next, drawn)
  PROVE  StatInv'
<1> USE DebugStatsConstants
<1>0. StatShape
  BY DEF StatInv
<1> DEFINE p == PushZeros(window[w], pushing)
<1>1. /\ http = w /\ http' = next /\ pushing' = 0 /\ window' = [window EXCEPT ![w] = p]
      /\ UNCHANGED <<nowUnit, lastUnit, history, raced, sessions, accepted>>
  BY DEF EndRefresh
<1>2. /\ nowUnit \in 0 .. MaxUnit /\ lastUnit[w] \in Nat /\ lastUnit[w] <= nowUnit /\ pushing \in Nat
      /\ window[w] \in [1 .. WindowSize -> Entry]
  BY <1>0 DEF StatShape
<1>3. NoEntry \in Entry
  BY DEF NoEntry, Entry
<1>4. p \in [1 .. WindowSize -> Entry]
  BY <1>2, <1>3 DEF PushZeros
<1>5. StatShape'
  <2> HIDE DEF p
  <2>1. window' \in [Way -> [1 .. WindowSize -> Entry]]
    BY <1>0, <1>1, <1>4 DEF StatShape
  <2> QED
    BY <1>0, <1>1, <2>1 DEF StatShape
<1>6. ASSUME NEW v \in Way \ raced PROVE Mirrors(window'[v], Base(v)', history[v]) /\ NoneAfter(Base(v)', history[v])
  <2>1. Mirrors(window[v], Base(v), history[v]) /\ NoneAfter(Base(v), history[v])
    BY <1>6 DEF StatInv
  <2>2. CASE v # w
    <3>1. window'[v] = window[v]
      BY <1>0, <1>1, <2>2 DEF StatShape
    <3>2. Base(v)' = Base(v)
      BY <1>1, <2>2 DEF Base
    <3> QED
      BY <2>1, <3>1, <3>2
  <2>3. CASE v = w
    <3>1. Base(w) = lastUnit[w] - pushing /\ Base(w)' = lastUnit[w]
      BY <1>0, <1>1, <1>2 DEF Base, StatShape
    <3>2. window'[w] = p
      BY <1>0, <1>1 DEF StatShape
    <3>3. Base(w) \in Int /\ Base(w) + pushing = lastUnit[w] /\ Base(w) + pushing <= MaxUnit
      BY <1>2, <3>1
    <3>4. Mirrors(p, Base(w) + pushing, history[w]) /\ NoneAfter(Base(w) + pushing, history[w])
      BY <1>2, <2>1, <2>3, <3>3, ZerosPushed
    <3> QED
      BY <2>3, <3>1, <3>2, <3>3, <3>4
  <2> QED
    BY <2>2, <2>3
<1>7. PagesCounted'
  <2>1. PagesCounted /\ w \notin {"run", "ended"}
    BY DEF StatInv, Way
  <2> QED
    BY <1>1, <2>1 DEF PagesCounted
<1> QED
  BY <1>1, <1>5, <1>6, <1>7 DEF StatInv

\* The steps of the loop and of the http server.
LEMMA StatStep == StatInv /\ [DebugNext]_debugVars => StatInv'
<1> SUFFICES ASSUME StatInv, [DebugNext]_debugVars PROVE StatInv'
  OBVIOUS
<1>0. /\ nowUnit \in 0 .. MaxUnit /\ MaxUnit \in Nat /\ MaxSize \in Nat
  BY DebugStatsConstants DEF StatInv, StatShape
<1>p. PagesCounted
  BY DEF StatInv
<1>1. CASE UNCHANGED debugVars
  <2>1. PagesCounted'
    BY <1>p, <1>1 DEF debugVars, PagesCounted
  <2> QED
    BY <1>0, <1>1, <2>1, StatStays DEF debugVars
<1>2. CASE Tick
  <2>1. PagesCounted'
    BY <1>p, <1>2 DEF Tick, statVars, httpVars, PagesCounted
  <2> QED
    BY <1>0, <1>2, <2>1, StatStays DEF Tick, statVars, httpVars
<1>3. ASSUME NEW w \in Way, NEW size \in 0 .. MaxSize, update_stats(w, size) PROVE StatInv'
  BY <1>0, <1>3, StatCounts
<1>4. CASE do_accept \/ do_read_error \/ BadRequest \/ do_write
  <2>1. PagesCounted'
    BY <1>p, <1>4 DEF do_accept, do_read_error, BadRequest, do_write, statVars, PagesCounted
  <2> QED
    BY <1>0, <1>4, <2>1, StatStays DEF do_accept, do_read_error, BadRequest, do_write, statVars, Way
<1>5. CASE generate_table_of_peers \/ generate_table_of_tunnels \/ SendPage \/ HttpStop
  <2>1. PagesCounted'
    BY <1>p, <1>5 DEF generate_table_of_peers, generate_table_of_tunnels, SendPage, HttpStop, statVars, PagesCounted
  <2> QED
    BY <1>0, <1>5, <2>1, StatStays DEF generate_table_of_peers, generate_table_of_tunnels, SendPage, HttpStop, statVars, Way
<1>6. CASE get_data_buffer_as_js_str
  <2>1. "read" \in Way /\ "sent" \in Way /\ "table" \notin Way /\ "between" \notin Way
    BY DEF Way
  <2>2. CASE http = "table" /\ BeginRefresh("read")
    BY <2>1, <2>2, StatBegins
  <2>3. CASE EndRefresh("read", "between", page)
    BY <2>1, <2>3, StatEnds
  <2>4. CASE http = "between" /\ BeginRefresh("sent")
    BY <2>1, <2>4, StatBegins
  <2>5. CASE EndRefresh("sent", "table", "packets")
    BY <2>1, <2>5, StatEnds
  <2> QED
    BY <1>6, <2>2, <2>3, <2>4, <2>5 DEF get_data_buffer_as_js_str
<1>7. CASE get_packets_buffer_as_js_str
  <2>1. "sent" \in Way /\ "charts" \notin Way
    BY DEF Way
  <2> QED
    BY <1>7, <2>1, StatEnds DEF get_packets_buffer_as_js_str
<1> QED
  BY <1>1, <1>2, <1>3, <1>4, <1>5, <1>6, <1>7 DEF DebugNext

\* A window that no refresh is changing shows what was counted.
LEMMA StatsHold == DebugSpec => []WindowIsHistory
<1>1. StatInv => WindowIsHistory
  <2>0. StatInv => (raced # {} => accepted > 0)
    BY DEF StatInv, PagesCounted
  <2> SUFFICES ASSUME StatInv, NEW w \in Way \ (raced \cup {http}), NEW i \in 1 .. WindowSize
               PROVE  window[w][i] = IF lastUnit[w] - (WindowSize - i) < 0 THEN NoEntry
                                     ELSE history[w][lastUnit[w] - (WindowSize - i)]
    BY <2>0 DEF WindowIsHistory
  <2>1. Mirrors(window[w], Base(w), history[w])
    BY DEF StatInv
  <2>2. Base(w) = lastUnit[w]
    BY DEF StatInv, StatShape, Base
  <2> QED
    BY <2>1, <2>2 DEF Mirrors
<1> QED
  BY <1>1, StatInit, StatStep, PTL DEF DebugSpec

-----------------------------------------------------------------------------
\* Whatever arrives and whichever call fails, for any number of packets, subkeys and units
\* of time: the loop is given datagrams and frames once and in order, and what it is given is
\* whole but for a failed receive on Linux and a buffer that Windows fills meanwhile; no frame
\* is lost, and with asio at most one datagram for every frame; of the registry keys at most
\* one stays open, and the card is ours; a direction's statistics are what was counted unless
\* two threads raced on it (c_event_manager.cpp, c_udp_wrapper.cpp, c_tun_device.cpp,
\* c_tuntap_windows.cpp, peering_stats.cpp).
THEOREM DevicesWhole == MCSpec => []DevicesReadWhole
<1>1. (LoopReadsWhole /\ LossesBounded) /\ (RegistryClosed /\ CardIsOurs) /\ WindowIsHistory
        => DevicesReadWhole
  BY DEF DevicesReadWhole
<1> QED
  BY <1>1, PartsOfNode, DeviceHolds, EventsHold, StatsHold, PTL
-----------------------------------------------------------------------------
\* Types and bounds.

\* The credentials of a process, and the key files of a home directory.
Credentials == [uid : {0, 1}, euid : {0, 1}, SUDO_USER : {"none", "user", "root", "unknown"},
                caps : [Areas -> SUBSET Caps]]
BoundedFiles == [PRV : Absent .. MaxGen, pub : Absent .. MaxGen, IDI : Absent .. MaxGen]

StartTypes ==
  /\ cmdline \in CommandLines /\ have_keys \in BOOLEAN /\ creds \in Credentials
  /\ files \in [Homes -> BoundedFiles]
  /\ generated \in 0 .. MaxGen /\ starts \in 0 .. MaxStart /\ granted \subseteq Homes
  /\ exitcode \in {NoCode, 0, 1, 2, 134}

\* Whoever starts the program has credentials.
LEMMA StarterTypes == Starters \subseteq Credentials
<1>1. \A s \in SUBSET Caps : CapsOf(s) \in [Areas -> SUBSET Caps]
  BY DEF CapsOf
<1>2. CapsOf({}) \in [Areas -> SUBSET Caps] /\ CapsOf({"NET_ADMIN", "NET_RAW"}) \in [Areas -> SUBSET Caps]
      /\ CapsOf(Caps) \in [Areas -> SUBSET Caps]
  <2>1. {} \in SUBSET Caps /\ {"NET_ADMIN", "NET_RAW"} \in SUBSET Caps /\ Caps \in SUBSET Caps
    BY DEF Caps
  <2> QED
    BY <1>1, <2>1
<1> DEFINE none == CapsOf({})
           net == CapsOf({"NET_ADMIN", "NET_RAW"})
           all == CapsOf(Caps)
<1>3. Starters = [uid : {1}, euid : {1}, SUDO_USER : {"none"}, caps : {none, net}]
       \cup [uid : {0}, euid : {0}, SUDO_USER : {"none", "user", "root", "unknown"}, caps : {all}]
       \cup [uid : {1}, euid : {0}, SUDO_USER : {"none"}, caps : {all}]
  BY Zenon DEF Starters
<1> HIDE DEF none, net, all
<1>4. none \in [Areas -> SUBSET Caps] /\ net \in [Areas -> SUBSET Caps] /\ all \in [Areas -> SUBSET Caps]
  BY <1>2 DEF none, net, all
<1> DEFINE C == [Areas -> SUBSET Caps]
<1> HIDE DEF C
<1>5. none \in C /\ net \in C /\ all \in C
  BY <1>4 DEF C
<1>6. Starters \subseteq [uid : {0, 1}, euid : {0, 1}, SUDO_USER : {"none", "user", "root", "unknown"}, caps : C]
  BY <1>3, <1>5
<1> QED
  BY <1>6 DEF Credentials, C

\* What no process has is typed as what a process has.
LEMMA NoProcessTypes == NoProcess.cmdline \in CommandLines /\ NoProcess.creds \in Credentials
<1> DEFINE r == [cmd |-> "run", newloop |-> FALSE, home_env |-> FALSE, insecure_cap |-> FALSE,
                 set_prefix |-> "other", peer |-> "good"]
<1>1. r \in CommandLines /\ r.cmd = "run"
  BY DEF CommandLines, Commands
<1>2. \E c \in CommandLines : c.cmd = "run"
  BY <1>1
<1>3. NoProcess.cmdline \in CommandLines
  BY <1>2 DEF NoProcess
<1>4. \E c \in Starters : TRUE
  <2>1. [uid |-> 0, euid |-> 0, SUDO_USER |-> "none", caps |-> CapsOf(Caps)] \in Starters
    BY DEF Starters
  <2> QED
    BY <2>1
<1>5. NoProcess.creds \in Starters
  BY <1>4 DEF NoProcess
<1> QED
  BY <1>3, <1>5, StarterTypes

\* Capabilities are dropped within the credentials.
LEMMA ApplyTypes ==
  ASSUME creds \in Credentials, NEW given, NEW others, NEW next, ApplyCaps(given, others, next),
         exitcode \in {NoCode, 0, 1, 2, 134}
  PROVE  creds' \in Credentials /\ exitcode' \in {NoCode, 0, 1, 2, 134}
<1>1. CASE creds' = [creds EXCEPT !.caps = security_apply_now(@, given, others)] /\ Goto(next)
  <2> DEFINE c == security_apply_now(creds.caps, given, others)
             C == [Areas -> SUBSET Caps]
  <2>1. c \in C
    BY DEF security_apply_now
  <2>2. creds' = [creds EXCEPT !.caps = c]
    BY <1>1
  <2>3. creds \in [uid : {0, 1}, euid : {0, 1}, SUDO_USER : {"none", "user", "root", "unknown"}, caps : C]
    BY DEF Credentials
  <2> HIDE DEF c, C
  <2>4. creds' \in [uid : {0, 1}, euid : {0, 1}, SUDO_USER : {"none", "user", "root", "unknown"}, caps : C]
    BY <2>1, <2>2, <2>3
  <2> QED
    BY <1>1, <2>4 DEF Goto, Credentials, C
<1>2. CASE CapngFails
  BY <1>2 DEF CapngFails, Throws, Terminate
<1> QED
  BY <1>1, <1>2 DEF ApplyCaps

\* A step that writes no file keeps the types of the process.
LEMMA QuietTypes ==
  ASSUME StartTypes, Quiet
  PROVE  cmdline' \in CommandLines /\ have_keys' \in BOOLEAN /\ creds' \in Credentials
         /\ exitcode' \in {NoCode, 0, 1, 2, 134}
<1> DEFINE Codes == {NoCode, 0, 1, 2, 134}
<1>0. cmdline \in CommandLines /\ have_keys \in BOOLEAN /\ creds \in Credentials /\ exitcode \in Codes
  BY DEF StartTypes
<1>a. cmdline' = cmdline
  BY QuietLeaves DEF Leaves
<1> USE DEF Goto, Terminate, Throws, Aborts, MainReturns, StdException, ErrorExit
<1>1. CASE drop_root
  <2>1. have_keys' = have_keys /\ exitcode' \in Codes
    BY <1>0, <1>1 DEF drop_root, drop_root_from_sudo
  <2>2. creds' = creds \/ creds' = [creds EXCEPT !.uid = 1, !.euid = 1]
    BY <1>1 DEF drop_root, drop_root_from_sudo
  <2>3. creds' \in Credentials
    <3> DEFINE C == [Areas -> SUBSET Caps]
    <3> HIDE DEF C
    <3>1. creds \in [uid : {0, 1}, euid : {0, 1}, SUDO_USER : {"none", "user", "root", "unknown"}, caps : C]
      BY <1>0 DEF Credentials, C
    <3>2. creds' \in [uid : {0, 1}, euid : {0, 1}, SUDO_USER : {"none", "user", "root", "unknown"}, caps : C]
      BY <2>2, <3>1
    <3> QED
      BY <3>2 DEF Credentials, C
  <2> QED
    BY <1>0, <1>a, <2>1, <2>3
<1>2. CASE drop_privileges_on_startup
  <2>1. have_keys' = have_keys
    BY <1>2 DEF drop_privileges_on_startup
  <2> QED
    BY <1>0, <1>2, <1>a, <2>1, ApplyTypes DEF drop_privileges_on_startup
<1>3. CASE main_early \/ init_library_sodium \/ options_commands_run \/ main_execution
  <2>1. have_keys' = have_keys /\ creds' = creds
    BY <1>3 DEF main_early, init_library_sodium, options_commands_run, main_execution
  <2>2. exitcode' \in Codes
    BY <1>0, <1>3 DEF main_early, init_library_sodium, options_commands_run, main_execution
  <2> QED
    BY <1>0, <1>a, <2>1, <2>2
<1>4. CASE programtask_load_my_keys
  <2>1. have_keys' \in BOOLEAN /\ creds' = creds
    BY <1>4 DEF programtask_load_my_keys, HaveKeysConfigured, get_file_list, is_file_ok
  <2>2. exitcode' \in Codes
    BY <1>0, <1>4 DEF programtask_load_my_keys
  <2> QED
    BY <1>0, <1>a, <2>1, <2>2
<1>5. CASE ConfigureStep \/ use_options_peerref \/ prepare_socket
  <2>1. have_keys' = have_keys /\ creds' = creds
    BY <1>5 DEF ConfigureStep, use_options_peerref, prepare_socket
  <2>2. exitcode' \in Codes
    BY <1>0, <1>5 DEF ConfigureStep, configure_mykey, Configured, use_options_peerref, prepare_socket
  <2> QED
    BY <1>0, <1>a, <2>1, <2>2
<1>6. CASE run
  <2>0. have_keys' = have_keys
    BY <1>6 DEF run
  <2>1. \/ creds' = creds /\ exitcode' \in Codes
        \/ drop_privileges_after_tuntap("before_mainloop")
        \/ drop_privileges_before_mainloop("loop") \/ drop_privileges_before_mainloop("verify")
    <3>1. CASE startPc = "after_tuntap"
      BY <1>0, <1>6, <3>1 DEF run
    <3>2. CASE startPc = "before_mainloop"
      BY <1>0, <1>6, <3>2 DEF run
    <3>3. CASE startPc = "verify"
      BY <1>0, <1>6, <3>3 DEF run, verify_privileges_are_as_for_mainloop
    <3> QED
      BY <1>6, <3>1, <3>2, <3>3 DEF run
  <2>2. creds' \in Credentials /\ exitcode' \in Codes
    BY <1>0, <2>1, ApplyTypes DEF drop_privileges_after_tuntap, drop_privileges_before_mainloop
  <2> QED
    BY <1>0, <1>a, <2>0, <2>2
<1> QED
  BY <1>1, <1>2, <1>3, <1>4, <1>5, <1>6 DEF Quiet

\* Writing a key file keeps the bounds of the files.
LEMMA BoundedWritten ==
  ASSUME StartTypes, home_dir \in Homes, NEW f \in {"PRV", "pub", "IDI"}, NEW v \in Absent .. MaxGen,
         files' = [files EXCEPT ![home_dir][f] = v]
  PROVE  files' \in [Homes -> BoundedFiles]
<1>1. files[home_dir] \in BoundedFiles
  BY DEF StartTypes
<1>2. [files[home_dir] EXCEPT ![f] = v] \in BoundedFiles
  <2>1. CASE f = "PRV"
    BY <1>1, <2>1 DEF BoundedFiles
  <2>2. CASE f = "pub"
    BY <1>1, <2>2 DEF BoundedFiles
  <2>3. CASE f = "IDI"
    BY <1>1, <2>3 DEF BoundedFiles
  <2> QED
    BY <2>1, <2>2, <2>3
<1> QED
  BY <1>2 DEF StartTypes

\* Every step of the start keeps the types.
LEMMA StartTypesStep == StartInv /\ StartTypes /\ [StartNext]_startVars => StartTypes'
<1> SUFFICES ASSUME StartInv, StartTypes, [StartNext]_startVars PROVE StartTypes'
  OBVIOUS
<1>0. /\ home_dir \in Homes /\ cmdline \in CommandLines /\ have_keys \in BOOLEAN /\ creds \in Credentials
      /\ files \in [Homes -> BoundedFiles]
      /\ generated \in 0 .. MaxGen /\ starts \in 0 .. MaxStart /\ granted \subseteq Homes
      /\ exitcode \in {NoCode, 0, 1, 2, 134} /\ MaxGen \in Nat \ {0} /\ MaxStart \in Nat \ {0}
  BY StartConstants DEF StartInv, StartShape, StartTypes
<1>1. CASE UNCHANGED startVars
  BY <1>0, <1>1 DEF StartTypes, startVars, procVars
<1>2. CASE StartProcess
  <2>1. /\ files' = files /\ generated' = generated /\ granted' = granted /\ starts' = starts + 1
        /\ cmdline' \in CommandLines /\ creds' \in Starters /\ have_keys' = FALSE /\ exitcode' = NoCode
        /\ starts < MaxStart
    BY <1>2 DEF StartProcess
  <2>2. starts' \in 0 .. MaxStart
    <3>1. starts \in 0 .. MaxStart /\ MaxStart \in Nat /\ starts' = starts + 1 /\ starts < MaxStart
      BY <1>0, <2>1
    <3> QED
      BY <3>1
  <2>4. have_keys' \in BOOLEAN /\ exitcode' \in {NoCode, 0, 1, 2, 134}
    BY <2>1
  <2>3. creds' \in Credentials
    BY <2>1, StarterTypes
  <2> QED
    BY <1>0, <2>1, <2>2, <2>3, <2>4, Zenon DEF StartTypes
<1>3. CASE Gone
  <2>1. /\ files' = files /\ generated' = generated /\ granted' = granted /\ starts' = starts
        /\ cmdline' = NoProcess.cmdline /\ creds' = NoProcess.creds /\ have_keys' = FALSE /\ exitcode' = NoCode
    BY <1>3 DEF Gone
  <2> QED
    BY <1>0, <2>1, NoProcessTypes DEF StartTypes
<1>4. CASE Quiet
  <2>1. files' = files /\ generated' = generated /\ granted' = granted /\ starts' = starts
    BY <1>4 DEF Quiet
  <2> QED
    BY <1>0, <1>4, <2>1, QuietTypes DEF StartTypes
<1>5. CASE create_keys
  <2>1. /\ files' = files /\ generated' = generated + 1 /\ granted' = granted /\ starts' = starts
        /\ cmdline' = cmdline /\ creds' = creds /\ have_keys' = have_keys /\ exitcode' = exitcode
        /\ generated < MaxGen
    BY <1>5 DEF create_keys, Goto
  <2> QED
    BY <1>0, <2>1 DEF StartTypes
<1>6. ASSUME NEW file \in {"PRV", "pub"}, SaveKey(file) PROVE StartTypes'
  <2>1. /\ cmdline' = cmdline /\ creds' = creds /\ have_keys' = have_keys
        /\ generated' = generated /\ starts' = starts
    BY <1>6 DEF SaveKey
  <2>2. exitcode' \in {exitcode, 0}
    BY <1>6 DEF SaveKey, AfterSave, Goto, MainReturns, Terminate
  <2>3. granted' \in {granted, granted \cup {home_dir}}
    BY <1>6 DEF SaveKey
  <2>4. files' = files \/ \E v \in {Empty, generated} : files' = [files EXCEPT ![home_dir][file] = v]
    BY <1>6 DEF SaveKey, Truncated
  <2>5. Empty \in Absent .. MaxGen /\ generated \in Absent .. MaxGen
    BY <1>0 DEF Empty, Absent
  <2>6. files' \in [Homes -> BoundedFiles]
    BY <1>0, <2>4, <2>5, BoundedWritten
  <2> QED
    BY <1>0, <2>1, <2>2, <2>3, <2>6 DEF StartTypes
<1>7. CASE program_action_set_IDI
  <2>1. /\ cmdline' = cmdline /\ creds' = creds /\ have_keys' = have_keys
        /\ generated' = generated /\ starts' = starts /\ granted' = granted /\ exitcode' = exitcode
    BY <1>7 DEF program_action_set_IDI, Goto
  <2>2. \E v \in {0, 1} : files' = [files EXCEPT ![home_dir]["IDI"] = v]
    BY <1>7 DEF program_action_set_IDI, Truncated, Empty
  <2>3. 0 \in Absent .. MaxGen /\ 1 \in Absent .. MaxGen
    BY <1>0 DEF Absent
  <2>4. files' \in [Homes -> BoundedFiles]
    <3>1. PICK v \in {0, 1} : files' = [files EXCEPT ![home_dir]["IDI"] = v]
      BY <2>2
    <3> DEFINE f == "IDI"
               S == {"PRV", "pub", "IDI"}
    <3>2. v \in Absent .. MaxGen /\ f \in S /\ files' = [files EXCEPT ![home_dir][f] = v]
      BY <2>3, <3>1
    <3>3. StartTypes /\ home_dir \in Homes
      BY <1>0
    <3>4. ASSUME NEW k \in S, NEW n \in Absent .. MaxGen, files' = [files EXCEPT ![home_dir][k] = n]
          PROVE  files' \in [Homes -> BoundedFiles]
      BY <3>3, <3>4, BoundedWritten
    <3> HIDE DEF f, S
    <3> QED
      BY <3>2, <3>4
  <2> QED
    BY <1>0, <2>1, <2>4 DEF StartTypes
<1>8. CASE LoopStep
  <2>1. /\ cmdline' = cmdline /\ creds' = creds /\ have_keys' = have_keys /\ files' = files
        /\ generated' = generated /\ starts' = starts /\ granted' = granted /\ exitcode' = 0
    BY <1>8 DEF LoopStep, MainReturns, Terminate
  <2> QED
    BY <1>0, <2>1 DEF StartTypes
<1> QED
  BY <1>1, <1>2, <1>3, <1>4, <1>5, <1>6, <1>7, <1>8 DEF StartNext

\* The start stays within its types.
LEMMA StartTypesHold == StartSpec => []StartTypeOK
<1>1. StartInit => StartTypes
  <2> SUFFICES ASSUME StartInit PROVE StartTypes
    OBVIOUS
  <2>1. /\ cmdline = NoProcess.cmdline /\ creds = NoProcess.creds /\ have_keys = FALSE /\ exitcode = NoCode
        /\ files = [h \in Homes |-> [PRV |-> Absent, pub |-> Absent, IDI |-> Absent]]
        /\ generated = 0 /\ starts = 0 /\ granted = {}
    BY DEF StartInit
  <2>2. MaxGen \in Nat /\ MaxStart \in Nat /\ Absent \in Absent .. MaxGen
    BY StartConstants DEF Absent
  <2>3. [PRV |-> Absent, pub |-> Absent, IDI |-> Absent] \in BoundedFiles
    BY <2>2 DEF BoundedFiles
  <2>4. files \in [Homes -> BoundedFiles]
    BY <2>1, <2>3
  <2>5. generated \in 0 .. MaxGen /\ starts \in 0 .. MaxStart /\ granted \subseteq Homes
    BY <2>1, <2>2
  <2>6. cmdline \in CommandLines /\ creds \in Credentials
    BY <2>1, NoProcessTypes
  <2>7. have_keys \in BOOLEAN /\ exitcode \in {NoCode, 0, 1, 2, 134}
    BY <2>1
  <2> QED
    BY <2>4, <2>5, <2>6, <2>7 DEF StartTypes
<1>2. StartInv /\ StartTypes => StartTypeOK
  <2> SUFFICES ASSUME StartInv, StartTypes PROVE StartTypeOK
    OBVIOUS
  <2>1. creds.uid \in {0, 1} /\ \A area \in Areas : creds.caps[area] \subseteq Caps
    <3> DEFINE C == [Areas -> SUBSET Caps]
    <3> HIDE DEF C
    <3>1. creds.uid \in {0, 1} /\ creds.caps \in C
      BY DEF StartTypes, Credentials, C
    <3> QED
      BY <3>1 DEF C
  <2>2. \A h \in Homes : \A f \in {"PRV", "pub", "IDI"} : files[h][f] \in Absent .. MaxGen
    BY DEF StartTypes, BoundedFiles
  <2> QED
    BY <2>1, <2>2 DEF StartTypes, StartTypeOK, StartInv, StartShape
<1> QED
  BY <1>1, <1>2, StartTypesStep, StartInvariant, PTL DEF StartSpec

\* A packetstart has used a nonce that the count of its sender has passed.
TunnelTypes ==
  /\ texts \in [Side -> 0 .. MaxText]
  /\ \A s \in Side : CT[s].ab.out <= MaxStarts + texts[s]
  /\ \A p \in wire : p.to \in Side /\ p.nonce \in 0 .. 2 * (MaxStarts + MaxText) + 1

\* A side that counts up a stream, and has sent a text for it or made a packetstart.
LEMMA CountTypes ==
  ASSUME TunnelInv, TunnelTypes, NEW s \in Side, NEW stream \in {"ab", "final"},
         CT' = [CT EXCEPT ![s][stream].out = NonceAfter(@)]
  PROVE  /\ \A r \in Side \ {s} : CT'[r].ab.out = CT[r].ab.out
         /\ CT'[s].ab.out = IF stream = "ab" THEN CT[s].ab.out + 1 ELSE CT[s].ab.out
<1>1. CTShape
  BY DEF TunnelInv
<1>2. \A r \in Side : IsTunnel(CT[r]) /\ IsStream(CT[r].ab) /\ IsStream(CT[r].final)
  BY <1>1 DEF CTShape
<1>3. CT = [r \in Side |-> CT[r]]
  BY <1>1 DEF CTShape
<1>4. \A r \in Side \ {s} : CT'[r] = CT[r]
  BY <1>3
<1>5. CT'[s] = [CT[s] EXCEPT ![stream].out = NonceAfter(@)]
  BY <1>3
<1>6. CASE stream = "ab"
  <2>1. CT'[s].ab = [CT[s].ab EXCEPT !.out = NonceAfter(@)]
    BY <1>2, <1>5, <1>6 DEF IsTunnel
  <2>2. CT'[s].ab.out = CT[s].ab.out + 1
    BY <1>2, <2>1 DEF IsStream, NonceAfter
  <2> QED
    BY <1>4, <1>6, <2>2
<1>7. CASE stream = "final"
  <2>1. CT'[s].ab = CT[s].ab
    BY <1>2, <1>5, <1>7 DEF IsTunnel
  <2> QED
    BY <1>4, <1>7, <2>1
<1> QED
  BY <1>6, <1>7

\* The step of a side that makes a packetstart.
LEMMA PacketstartTypes ==
  ASSUME TunnelInv, TunnelTypes, NEW s \in Side, NEW kex, CT[s].pc # "none", CT[s].ab.out < MaxStarts,
         Packetstart(s, kex), texts' = texts
  PROVE  TunnelTypes'
<1>1. CT' = [CT EXCEPT ![s].ab.out = NonceAfter(@)]
  BY DEF Packetstart
<1>2. CT' = [CT EXCEPT ![s]["ab"].out = NonceAfter(@)]
  BY <1>1
<1>3. /\ \A r \in Side \ {s} : CT'[r].ab.out = CT[r].ab.out
      /\ CT'[s].ab.out = CT[s].ab.out + 1
  BY <1>2, CountTypes
<1>4. CT[s].ab.out \in Nat /\ CT[s].ab.odd \in BOOLEAN
  BY DEF TunnelInv, AliceInv, BobInv, Runs, Side, CTShape, IsStream
<1>5. MaxStarts \in Nat /\ MaxText \in Nat /\ \A r \in Side : texts[r] \in 0 .. MaxText
  BY TunnelConstants DEF TunnelTypes
<1>6. BoxNonce(CT[s].ab) \in 0 .. 2 * (MaxStarts + MaxText) + 1
  BY <1>4, <1>5 DEF BoxNonce, Nonce
<1>7. \A r \in Side : CT'[r].ab.out <= MaxStarts + texts'[r]
  <2> SUFFICES ASSUME NEW r \in Side PROVE CT'[r].ab.out <= MaxStarts + texts'[r]
    OBVIOUS
  <2>1. CASE r = s
    BY <1>3, <1>4, <1>5, <2>1
  <2>2. CASE r # s
    BY <1>3, <2>2 DEF TunnelTypes
  <2> QED
    BY <2>1, <2>2
<1>8. \A p \in wire' : p.to \in Side /\ p.nonce \in 0 .. 2 * (MaxStarts + MaxText) + 1
  <2> DEFINE q == [to |-> Other(s), kex |-> kex, IDe |-> CT[s].IDe, K |-> CT[s].ab.K, nonce |-> BoxNonce(CT[s].ab)]
  <2>1. wire' = wire \cup {q}
    BY DEF Packetstart
  <2>2. q.to \in Side /\ q.nonce \in 0 .. 2 * (MaxStarts + MaxText) + 1
    BY <1>6 DEF Other, Side
  <2> HIDE DEF q
  <2> QED
    BY <2>1, <2>2 DEF TunnelTypes
<1> QED
  BY <1>7, <1>8 DEF TunnelTypes

\* Every step of the tunnels keeps the types.
LEMMA TunnelTypesStep == TunnelInv /\ TunnelTypes /\ [TunnelNext]_tunnelVars => TunnelTypes'
<1> SUFFICES ASSUME TunnelInv, TunnelTypes, [TunnelNext]_tunnelVars PROVE TunnelTypes'
  OBVIOUS
<1>0. MaxStarts \in Nat /\ MaxText \in Nat /\ \A r \in Side : texts[r] \in 0 .. MaxText
  BY TunnelConstants DEF TunnelTypes
<1>b. CTShape
  BY DEF TunnelInv
<1>c. CT = [r \in Side |-> CT[r]] /\ \A r \in Side : IsTunnel(CT[r]) /\ IsStream(CT[r].ab)
  BY <1>b DEF CTShape
<1>d. "A" \in Side /\ "B" \in Side
  BY DEF Side
<1>1. CASE UNCHANGED tunnelVars
  BY <1>1 DEF TunnelTypes, tunnelVars
<1>2. ASSUME wire' = wire, texts' = texts, \A r \in Side : CT'[r].ab.out = CT[r].ab.out \/ CT'[r].ab.out = 0
      PROVE  TunnelTypes'
  <2>1. \A r \in Side : CT'[r].ab.out <= MaxStarts + texts'[r]
    BY <1>0, <1>2 DEF TunnelTypes
  <2> QED
    BY <1>2, <2>1 DEF TunnelTypes
<1>3. CASE AliceCtor
  <2> DEFINE st == Stream(IDC["A"], IDC["B"], Passwords(IDC["A"], IDC["B"], "ab"))
  <2>1. st.out = 0
    BY DEF Stream
  <2> HIDE DEF st
  <2>2. wire' = wire /\ texts' = texts /\ CT' = [CT EXCEPT !["A"].pc = "ab", !["A"].ab = st]
    BY <1>3 DEF AliceCtor, st
  <2>3. CT'["A"].ab = st /\ CT'["B"] = CT["B"]
    BY <1>c, <1>d, <2>2 DEF IsTunnel
  <2> QED
    BY <1>2, <2>1, <2>2, <2>3 DEF Side
<1>4. ASSUME NEW hash \in {1, 2}, create_IDe(hash) PROVE TunnelTypes'
  <2>1. wire' = wire /\ texts' = texts /\ CT' = [CT EXCEPT !["A"].IDe = Ephemeral("A", hash)]
    BY <1>4 DEF create_IDe
  <2>2. CT'["A"].ab = CT["A"].ab /\ CT'["B"] = CT["B"]
    BY <1>c, <1>d, <2>1 DEF IsTunnel
  <2> QED
    BY <1>2, <2>1, <2>2 DEF Side
<1>5. ASSUME NEW hash \in {1, 2}, NEW p \in wire, BobCtor(p, hash) PROVE TunnelTypes'
  <2> DEFINE ab == Stream(IDC["B"], IDC["A"], p.kex)
             fin == Stream(Ephemeral("B", hash), p.IDe, Passwords(Ephemeral("B", hash), p.IDe, "final"))
             n == [pc |-> "final", ab |-> [ab EXCEPT !.in = 1], IDe |-> Ephemeral("B", hash), final |-> fin]
  <2>1. wire' = wire /\ texts' = texts /\ CT' = [CT EXCEPT !["B"] = n]
    BY <1>5 DEF BobCtor
  <2>2. ab.out = 0 /\ [ab EXCEPT !.in = 1].out = ab.out
    BY DEF Stream
  <2>3. n.ab.out = 0
    BY <2>2
  <2> HIDE DEF n
  <2>4. CT'["A"] = CT["A"] /\ CT'["B"] = n
    BY <1>c, <1>d, <2>1
  <2> QED
    BY <1>2, <2>1, <2>3, <2>4 DEF Side
<1>6. ASSUME NEW p \in wire, create_CTf(p) PROVE TunnelTypes'
  <2> DEFINE fin == Stream(CT["A"].IDe, p.IDe, p.kex)
  <2>1. wire' = wire /\ texts' = texts
        /\ CT' = [CT EXCEPT !["A"].pc = "final", !["A"].ab.in = @ + 1, !["A"].final = fin]
    BY <1>6 DEF create_CTf
  <2> HIDE DEF fin
  <2>2. CT'["B"] = CT["B"] /\ CT'["A"].ab = [CT["A"].ab EXCEPT !.in = @ + 1]
    BY <1>c, <1>d, <2>1 DEF IsTunnel
  <2>3. CT'["A"].ab.out = CT["A"].ab.out
    BY <1>c, <1>d, <2>2 DEF IsStream
  <2> QED
    BY <1>2, <2>1, <2>2, <2>3 DEF Side
<1>7. CASE get_packetstart_ab
  BY <1>7, <1>d, PacketstartTypes DEF get_packetstart_ab
<1>8. CASE get_packetstart_final
  BY <1>8, <1>d, PacketstartTypes DEF get_packetstart_final
<1>9. ASSUME NEW s \in Side, NEW stream \in {"ab", "final"}, SendText(s, stream) PROVE TunnelTypes'
  <2>1. /\ wire' = wire /\ texts' = [texts EXCEPT ![s] = @ + 1] /\ texts[s] < MaxText
        /\ CT' = [CT EXCEPT ![s][stream].out = NonceAfter(@)] /\ CT[s][stream] # NoStream
    BY <1>9 DEF SendText
  <2>2. /\ \A r \in Side \ {s} : CT'[r].ab.out = CT[r].ab.out
        /\ CT'[s].ab.out = IF stream = "ab" THEN CT[s].ab.out + 1 ELSE CT[s].ab.out
    BY <2>1, CountTypes
  <2>3. texts' \in [Side -> 0 .. MaxText] /\ texts'[s] = texts[s] + 1 /\ \A r \in Side \ {s} : texts'[r] = texts[r]
    BY <1>0, <2>1 DEF TunnelTypes
  <2>4. CT[s].ab.out \in Int
    BY <1>c DEF IsStream
  <2>5. \A r \in Side : CT'[r].ab.out <= MaxStarts + texts'[r]
    <3> SUFFICES ASSUME NEW r \in Side PROVE CT'[r].ab.out <= MaxStarts + texts'[r]
      OBVIOUS
    <3>1. CASE r = s
      <4>1. CT[s].ab.out <= MaxStarts + texts[s]
        BY DEF TunnelTypes
      <4> QED
        BY <1>0, <2>2, <2>3, <2>4, <3>1, <4>1
    <3>2. CASE r # s
      BY <2>2, <2>3, <3>2 DEF TunnelTypes
    <3> QED
      BY <3>1, <3>2
  <2> QED
    BY <2>1, <2>3, <2>5 DEF TunnelTypes
<1> QED
  BY <1>1, <1>3, <1>4, <1>5, <1>6, <1>7, <1>8, <1>9 DEF TunnelNext

\* The tunnels stay within their types.
LEMMA TunnelTypesHold == TunnelSpec => []TunnelTypeOK
<1>1. TunnelInit => TunnelTypes
  <2> SUFFICES ASSUME TunnelInit PROVE TunnelTypes
    OBVIOUS
  <2>1. wire = {} /\ texts = [s \in Side |-> 0] /\ CT = [s \in Side |-> NoCT]
    BY DEF TunnelInit
  <2>2. NoCT.ab.out = -1
    BY DEF NoCT, NoStream
  <2>3. MaxStarts \in Nat /\ MaxText \in Nat
    BY TunnelConstants
  <2> HIDE DEF NoCT
  <2> QED
    BY <2>1, <2>2, <2>3 DEF TunnelTypes
<1>2. TunnelInv /\ TunnelTypes => TunnelTypeOK
  BY DEF TunnelInv, AliceInv, BobInv, TunnelTypes, TunnelTypeOK, Side
<1> QED
  BY <1>1, <1>2, TunnelTypesStep, TunnelInvariant, PTL DEF TunnelSpec

\* The keys are the numbers that were generated.
Numbered(data) == \A sys \in AllSystems \cap DOMAIN data : data[sys] \in Seq(1 .. MaxKeyNr)
KeyTypes ==
  /\ next_key \in 1 .. MaxKeyNr + 1 /\ load_failed \subseteq Pair
  /\ m_pub \in [Pair -> [AllSystems -> Seq(1 .. MaxKeyNr)]] /\ Numbered(blob.pub)

\* Every operation of a pair of keys keeps the types.
LEMMA KeyTypesStep == KeyTypes /\ [MultikeysNext]_multikeysVars => KeyTypes'
<1> SUFFICES ASSUME KeyTypes, [MultikeysNext]_multikeysVars PROVE KeyTypes'
  OBVIOUS
<1> DEFINE Lists == [AllSystems -> Seq(1 .. MaxKeyNr)]
<1>0. next_key \in 1 .. MaxKeyNr + 1 /\ load_failed \subseteq Pair /\ m_pub \in [Pair -> Lists]
      /\ Numbered(blob.pub) /\ MaxKeyNr \in Nat
  BY MultikeysConstants DEF KeyTypes
<1>1. CASE UNCHANGED multikeysVars
  BY <1>0, <1>1 DEF multikeysVars, KeyTypes
<1>2. ASSUME NEW p \in Pair, NEW sys \in AllSystems, NEW count \in 0 .. 2, generate(p, sys, count)
      PROVE  KeyTypes'
  <2> DEFINE new == NewKeys(count)
             l == m_pub[p][sys]
  <2>1. /\ m_pub' = [m_pub EXCEPT ![p][sys] = @ \o new] /\ next_key' = next_key + count
        /\ next_key + count - 1 <= MaxKeyNr /\ load_failed' = load_failed /\ blob' = blob
    BY <1>2 DEF generate, add_public_and_PRIVATE
  <2>2. new \in Seq(1 .. MaxKeyNr)
    <3>1. new = [i \in 1 .. count |-> next_key + i - 1] /\ \A i \in 1 .. count : next_key + i - 1 \in 1 .. MaxKeyNr
      BY <1>0, <2>1 DEF NewKeys
    <3>2. new \in [1 .. count -> 1 .. MaxKeyNr] /\ count \in Nat
      BY <3>1
    <3> HIDE DEF new
    <3> QED
      BY <3>2, SeqDef
  <2>3. l \in Seq(1 .. MaxKeyNr)
    BY <1>0
  <2> HIDE DEF new, l
  <2>4. l \o new \in Seq(1 .. MaxKeyNr)
    BY <2>2, <2>3
  <2>5. m_pub' = [m_pub EXCEPT ![p] = [m_pub[p] EXCEPT ![sys] = l \o new]]
    BY <2>1 DEF l
  <2>6. [m_pub[p] EXCEPT ![sys] = l \o new] \in Lists
    BY <1>0, <2>4
  <2>7. m_pub' \in [Pair -> Lists]
    BY <1>0, <2>5, <2>6
  <2> QED
    BY <1>0, <2>1, <2>7 DEF KeyTypes
<1>3. ASSUME NEW p \in Pair, get_hash(p) \/ multi_sign(p) PROVE KeyTypes'
  <2>1. m_pub' = m_pub /\ next_key' = next_key /\ load_failed' = load_failed /\ blob' = blob
    BY <1>3 DEF get_hash, multi_sign
  <2> QED
    BY <1>0, <2>1 DEF KeyTypes
<1>4. ASSUME NEW p \in Pair, datastore_save(p) PROVE KeyTypes'
  <2>1. m_pub' = m_pub /\ next_key' = next_key /\ load_failed' = load_failed
        /\ blob'.pub = serialize_bin(m_pub[p])
    BY <1>4 DEF datastore_save
  <2>2. Numbered(serialize_bin(m_pub[p]))
    BY <1>0 DEF serialize_bin, Numbered
  <2> QED
    BY <1>0, <2>1, <2>2 DEF KeyTypes
<1>5. ASSUME NEW p \in Pair, NEW read, NEW failed_ \in SUBSET Pair,
             m_pub' = [m_pub EXCEPT ![p] = load_from_bin(NoKeys, blob.pub, read)],
             next_key' = next_key, load_failed' = failed_, blob' = blob
      PROVE  KeyTypes'
  <2>1. load_from_bin(NoKeys, blob.pub, read) \in Lists
    <3>1. ASSUME NEW sys \in AllSystems
          PROVE  (IF sys \in read \cap DOMAIN blob.pub THEN blob.pub[sys] ELSE NoKeys[sys]) \in Seq(1 .. MaxKeyNr)
      <4>1. NoKeys[sys] \in Seq(1 .. MaxKeyNr)
        BY DEF NoKeys
      <4>2. sys \in DOMAIN blob.pub => blob.pub[sys] \in Seq(1 .. MaxKeyNr)
        BY <1>0 DEF Numbered
      <4> QED
        BY <4>1, <4>2
    <3> QED
      BY <3>1 DEF load_from_bin
  <2> HIDE DEF Lists
  <2>2. m_pub' \in [Pair -> Lists]
    BY <1>0, <1>5, <2>1
  <2>3. load_failed' \subseteq Pair
    BY <1>5
  <2>4. Numbered(blob'.pub)
    BY <1>0, <1>5 DEF Numbered
  <2> QED
    BY <1>0, <1>5, <2>2, <2>3, <2>4 DEF KeyTypes, Lists
<1>6. ASSUME NEW p \in Pair, datastore_load(p) PROVE KeyTypes'
  <2>1. /\ m_pub' = [m_pub EXCEPT ![p] = load_from_bin(NoKeys, blob.pub, AllSystems)]
        /\ next_key' = next_key /\ load_failed' = load_failed \ {p} /\ blob' = blob
    BY <1>6 DEF datastore_load
  <2>2. load_failed \ {p} \in SUBSET Pair
    BY <1>0
  <2> QED
    BY <1>5, <2>1, <2>2
<1>7. ASSUME NEW p \in Pair, NEW read \in SUBSET AllSystems, DamagedLoad(p, read) PROVE KeyTypes'
  <2>1. /\ m_pub' = [m_pub EXCEPT ![p] = load_from_bin(NoKeys, blob.pub, read)]
        /\ next_key' = next_key /\ load_failed' = load_failed \cup {p} /\ blob' = blob
    BY <1>7 DEF DamagedLoad
  <2>2. load_failed \cup {p} \in SUBSET Pair
    BY <1>0
  <2> QED
    BY <1>5, <2>1, <2>2
<1> QED
  BY <1>1, <1>2, <1>3, <1>4, <1>6, <1>7 DEF MultikeysNext

\* The keys stay within their types.
LEMMA KeyTypesHold == KeysSpec => []MultikeysTypeOK
<1>1. MultikeysInit => KeyTypes
  <2> SUFFICES ASSUME MultikeysInit PROVE KeyTypes
    OBVIOUS
  <2>1. m_pub = [p \in Pair |-> NoKeys] /\ next_key = 1 /\ load_failed = {} /\ blob = [pub |-> <<>>, PRV |-> <<>>]
    BY DEF MultikeysInit
  <2>2. NoKeys \in [AllSystems -> Seq(1 .. MaxKeyNr)]
    BY DEF NoKeys
  <2>3. blob.pub = <<>> /\ DOMAIN <<>> = {}
    BY <2>1
  <2>4. Numbered(blob.pub)
    BY <2>3 DEF Numbered
  <2>5. MaxKeyNr \in Nat
    BY MultikeysConstants
  <2> QED
    BY <2>1, <2>2, <2>4, <2>5 DEF KeyTypes
<1>2. KeyTypes => MultikeysTypeOK
  <2> SUFFICES ASSUME KeyTypes PROVE MultikeysTypeOK
    OBVIOUS
  <2>1. \A p \in Pair : \A sys \in AllSystems : m_pub[p][sys] \in Seq(1 .. MaxKeyNr)
    BY DEF KeyTypes
  <2>2. \A p \in Pair : \A sys \in AllSystems : KeySet(m_pub[p][sys]) \subseteq 1 .. MaxKeyNr
    <3> SUFFICES ASSUME NEW p \in Pair, NEW sys \in AllSystems PROVE KeySet(m_pub[p][sys]) \subseteq 1 .. MaxKeyNr
      OBVIOUS
    <3> DEFINE l == m_pub[p][sys]
    <3>1. l \in Seq(1 .. MaxKeyNr)
      BY <2>1
    <3> HIDE DEF l
    <3>2. \A i \in DOMAIN l : l[i] \in 1 .. MaxKeyNr
      <4> DEFINE S == 1 .. MaxKeyNr
      <4>1. l \in Seq(S)
        BY <3>1
      <4> HIDE DEF S
      <4>2. Seq(S) = UNION {[1 .. n -> S] : n \in Nat}
        BY SeqDef
      <4>3. PICK n \in Nat : l \in [1 .. n -> S]
        BY <4>1, <4>2
      <4>4. \A i \in DOMAIN l : l[i] \in S
        BY <4>3
      <4> QED
        BY <4>4 DEF S
    <3>3. KeySet(l) \subseteq 1 .. MaxKeyNr
      BY <3>2 DEF KeySet
    <3> QED
      BY <3>3 DEF l
  <2> QED
    BY <2>2 DEF KeyTypes, MultikeysTypeOK
<1> QED
  BY <1>1, <1>2, KeyTypesStep, PTL DEF KeysSpec

\* Handles are those of the system, and neither the search nor the trial of units runs on.
DeviceTypes ==
  /\ keysOpen \subseteq HkeyValue /\ key \in {0} \cup HkeyValue /\ wrapper.hkey \in {0} \cup HkeyValue
  /\ subkeys \in Seq(SubkeyKinds) /\ at \in 0 .. Len(subkeys)
  /\ unit \in 1 .. number_of_tested_cards + 2 /\ devOpen \in 0 .. 1

\* What a step of the search does with the handles.
HandlesMove ==
  /\ keysOpen' \subseteq HkeyValue /\ key' \in {0} \cup HkeyValue /\ wrapper'.hkey \in {0} \cup HkeyValue

\* Closing, setting or leaving the wrapper.
LEMMA WrapperTypes ==
  ASSUME DeviceInv, DeviceTypes
  PROVE  /\ Thrown => keysOpen' \subseteq HkeyValue /\ wrapper'.hkey = wrapper.hkey
         /\ CloseWrapper => keysOpen' \subseteq HkeyValue /\ wrapper'.hkey = wrapper.hkey
         /\ \A k : set(k) => keysOpen' \subseteq HkeyValue /\ wrapper'.hkey \in {wrapper.hkey, k}
         /\ \A next : RegOpenKey(next) => HandlesMove
<1>1. wrapper \in [hkey : {wrapper.hkey}, is_open : BOOLEAN] /\ keysOpen \subseteq HkeyValue
      /\ key \in {0} \cup HkeyValue /\ wrapper.hkey \in {0} \cup HkeyValue
  BY DEF DeviceInv, KeysAccounted, DeviceTypes
<1>2. \A k : RegCloseKey(k) => keysOpen' \subseteq HkeyValue
  BY <1>1 DEF RegCloseKey
<1>3. Thrown => keysOpen' \subseteq HkeyValue /\ wrapper'.hkey = wrapper.hkey
  BY <1>1, <1>2 DEF Thrown
<1>4. CloseWrapper => keysOpen' \subseteq HkeyValue /\ wrapper'.hkey = wrapper.hkey
  BY <1>1, <1>2 DEF CloseWrapper
<1>5. \A k : set(k) => keysOpen' \subseteq HkeyValue /\ wrapper'.hkey \in {wrapper.hkey, k}
  BY <1>1, <1>2 DEF set
<1>6. \A next : RegOpenKey(next) => HandlesMove
  BY <1>1, <1>3 DEF RegOpenKey, HandlesMove
<1> QED
  BY <1>3, <1>4, <1>5, <1>6

\* Every step of opening and configuring keeps the types.
LEMMA DeviceTypesStep == DeviceInv /\ DeviceTypes /\ [TunDeviceNext]_tunDeviceVars => DeviceTypes'
<1> SUFFICES ASSUME DeviceInv, DeviceTypes, [TunDeviceNext]_tunDeviceVars PROVE DeviceTypes'
  OBVIOUS
<1>0. /\ keysOpen \subseteq HkeyValue /\ key \in {0} \cup HkeyValue /\ wrapper.hkey \in {0} \cup HkeyValue
      /\ subkeys \in Seq(SubkeyKinds) /\ at \in 0 .. Len(subkeys) /\ Len(subkeys) \in Nat
      /\ unit \in 1 .. number_of_tested_cards + 2 /\ devOpen \in 0 .. 1 /\ number_of_tested_cards \in Nat
  BY TunDeviceConstants DEF DeviceTypes
<1>1. CASE UNCHANGED tunDeviceVars
  BY <1>1 DEF tunDeviceVars, searchVars, cardVars, DeviceTypes
<1>2. ASSUME HandlesMove, subkeys' = subkeys, at' \in 0 .. Len(subkeys), UNCHANGED cardVars PROVE DeviceTypes'
  BY <1>0, <1>2 DEF HandlesMove, cardVars, DeviceTypes
<1>3. ASSUME UNCHANGED searchVars, unit' \in 1 .. number_of_tested_cards + 2, devOpen' \in 0 .. 1 PROVE DeviceTypes'
  BY <1>3 DEF searchVars, DeviceTypes
<1>4. CASE OpenAdapter
  BY <1>0, <1>2, <1>4, WrapperTypes DEF OpenAdapter
<1>5. CASE get_subkeys
  <2>1. wrapper'.hkey = key /\ keysOpen' = keysOpen \ {key} /\ key' = key
    BY <1>5 DEF get_subkeys, RegCloseKey
  <2> QED
    BY <1>0, <1>2, <1>5, <2>1 DEF get_subkeys, HandlesMove
<1>6. CASE NextSubkey
  <2>1. CASE at = Len(subkeys)
    <3>1. Thrown /\ at' = at /\ key' = key /\ subkeys' = subkeys /\ UNCHANGED cardVars
      BY <1>6, <2>1 DEF NextSubkey
    <3>2. HandlesMove
      BY <1>0, <3>1, WrapperTypes DEF HandlesMove
    <3> QED
      BY <1>0, <1>2, <3>1, <3>2
  <2>2. CASE at # Len(subkeys)
    <3>1. /\ at' = at + 1 /\ subkeys' = subkeys /\ UNCHANGED cardVars
          /\ (UNCHANGED <<key, keysOpen, wrapper>> \/ RegOpenKey("component_id"))
      BY <1>6, <2>2 DEF NextSubkey
    <3>2. HandlesMove
      BY <1>0, <3>1, WrapperTypes DEF HandlesMove
    <3>3. at' \in 0 .. Len(subkeys)
      BY <1>0, <2>2, <3>1
    <3> QED
      BY <1>2, <3>1, <3>2, <3>3
  <2> QED
    BY <2>1, <2>2
<1>7. CASE ComponentId
  <2>1. /\ key' = key /\ at' = at /\ subkeys' = subkeys /\ UNCHANGED cardVars
        /\ (NoComponentId \/ set(key))
    BY <1>7 DEF ComponentId
  <2>2. HandlesMove
    BY <1>0, <2>1, WrapperTypes DEF HandlesMove, NoComponentId, RegCloseKey
  <2> QED
    BY <1>0, <1>2, <2>1, <2>2
<1>8. CASE InstanceId
  <2>1. key' = key /\ at' = at /\ subkeys' = subkeys /\ UNCHANGED cardVars
    BY <1>8 DEF InstanceId
  <2>2. Thrown \/ CloseWrapper \/ UNCHANGED <<wrapper, keysOpen>>
    BY <1>8 DEF InstanceId
  <2>3. HandlesMove
    BY <1>0, <2>1, <2>2, WrapperTypes DEF HandlesMove
  <2> QED
    BY <1>0, <1>2, <2>1, <2>3
<1>9. CASE CloseKey
  <2>1. key' = key /\ at' = at /\ subkeys' = subkeys /\ UNCHANGED cardVars
    BY <1>9 DEF CloseKey
  <2>2. CloseWrapper \/ UNCHANGED <<wrapper, keysOpen>>
    BY <1>9 DEF CloseKey
  <2>3. HandlesMove
    BY <1>0, <2>1, <2>2, WrapperTypes DEF HandlesMove
  <2> QED
    BY <1>0, <1>2, <2>1, <2>3
<1>10. CASE TryCard
  <2>1. key' = key /\ at' = at /\ subkeys' = subkeys /\ UNCHANGED cardVars
    BY <1>10 DEF TryCard
  <2>2. \/ Thrown \/ UNCHANGED <<wrapper, keysOpen>>
        \/ /\ wrapper' = [wrapper EXCEPT !.is_open = FALSE]
           /\ RegCloseKey(wrapper.hkey) \/ UNCHANGED keysOpen
    BY <1>10 DEF TryCard
  <2>3. wrapper \in [hkey : {wrapper.hkey}, is_open : BOOLEAN]
    BY DEF DeviceInv, KeysAccounted
  <2>4. HandlesMove
    BY <1>0, <2>1, <2>2, <2>3, WrapperTypes DEF HandlesMove, RegCloseKey
  <2> QED
    BY <1>0, <1>2, <2>1, <2>4
<1>11. CASE get_device_handle \/ create_tun_fd \/ OpenTun
  <2>1. dpc \in {"get_device_handle", "create_tun_fd", "open_tun"} /\ UNCHANGED searchVars /\ unit' = unit
        /\ devOpen' \in {devOpen, devOpen + 1}
    BY <1>11 DEF get_device_handle, create_tun_fd, OpenTun
  <2>2. devOpen = 0
    BY <2>1 DEF DeviceInv, CardFollowed, Opening
  <2> QED
    BY <1>0, <1>3, <2>1, <2>2
<1>12. CASE ConnectUnit
  <2>1. UNCHANGED searchVars /\ devOpen' = devOpen
    BY <1>12 DEF ConnectUnit
  <2>2. unit' = unit \/ (unit - 1 <= number_of_tested_cards /\ unit' = unit + 1)
    BY <1>12 DEF ConnectUnit, TestAgain
  <2>3. unit' \in 1 .. number_of_tested_cards + 2
    BY <1>0, <2>2
  <2> QED
    BY <1>0, <1>3, <2>1, <2>3
<1>13. CASE get_mac \/ get_human_name \/ RemoveOldAddress \/ CreateAddress \/ set_ipv6_address \/ set_mtu
  <2>1. /\ UNCHANGED searchVars
        /\ devOpen' = devOpen /\ unit' = unit
    BY <1>13 DEF get_mac, get_human_name, RemoveOldAddress, CreateAddress, set_ipv6_address, set_mtu, cardVars
  <2> QED
    BY <1>0, <1>3, <2>1
<1> QED
  BY <1>1, <1>4, <1>5, <1>6, <1>7, <1>8, <1>9, <1>10, <1>11, <1>12, <1>13 DEF TunDeviceNext

\* The search and the card stay within their types.
LEMMA DeviceTypesHold == DeviceSpec => []TunDeviceTypeOK
<1>1. TunDeviceInit => DeviceTypes
  <2> SUFFICES ASSUME TunDeviceInit PROVE DeviceTypes
    OBVIOUS
  <2>1. /\ subkeys \in IF platform \in Windows THEN UNION { [1 .. n -> SubkeyKinds] : n \in 0 .. MaxSubkeys }
                       ELSE {<<>>}
        /\ at = 0 /\ key = 0 /\ keysOpen = {} /\ wrapper = [hkey |-> 0, is_open |-> FALSE]
        /\ devOpen = 0 /\ unit = 1
    BY DEF TunDeviceInit
  <2>2. MaxSubkeys \in Nat /\ number_of_tested_cards \in Nat
    BY TunDeviceConstants
  <2>3. subkeys \in Seq(SubkeyKinds)
    <3>1. CASE platform \in Windows
      <4>1. PICK n \in 0 .. MaxSubkeys : subkeys \in [1 .. n -> SubkeyKinds]
        BY <2>1, <3>1
      <4>2. n \in Nat
        BY <2>2
      <4> QED
        BY <4>1, <4>2
    <3>2. CASE platform \notin Windows
      <4>1. subkeys = <<>>
        BY <2>1, <3>2
      <4> QED
        BY <4>1
    <3> QED
      BY <3>1, <3>2
  <2>4. Len(subkeys) \in Nat
    BY <2>3
  <2> QED
    BY <2>1, <2>2, <2>3, <2>4 DEF DeviceTypes
<1>2. DeviceTypes => TunDeviceTypeOK
  BY DEF DeviceTypes, TunDeviceTypeOK
<1>3. DeviceInv /\ [TunDeviceNext]_tunDeviceVars => DeviceInv'
  BY RegistryStep, SkipStep, CardStep DEF DeviceInv
<1> QED
  BY <1>1, <1>2, <1>3, DeviceInit, DeviceTypesStep, PTL DEF DeviceSpec

\* No more packets arrive than may, and the flags of the events are truth values.
EventTypes ==
  /\ m_udp_event \in BOOLEAN /\ m_tun_event \in BOOLEAN /\ udpIn <= MaxUdp /\ tunIn <= MaxTun

\* The loop and its devices stay within their types.
LEMMA EventTypesHold == EventSpec => []EventTypeOK
<1>1. EventInit => EventTypes
  <2> SUFFICES ASSUME EventInit PROVE EventTypes
    OBVIOUS
  <2>1. m_udp_event = FALSE /\ m_tun_event = FALSE /\ udpIn = 0 /\ tunIn = 0
    BY Zenon DEF EventInit
  <2>2. udpIn <= MaxUdp /\ tunIn <= MaxTun
    BY <2>1, EventDevicesConstants
  <2>3. m_udp_event \in BOOLEAN /\ m_tun_event \in BOOLEAN
    BY <2>1, Zenon
  <2> QED
    BY <2>2, <2>3 DEF EventTypes
<1>2. EventInv /\ EventTypes /\ [EventNext]_eventVars => EventTypes'
  <2> SUFFICES ASSUME EventInv, EventTypes, [EventNext]_eventVars PROVE EventTypes'
    OBVIOUS
  <2>0. udpIn \in Nat /\ tunIn \in Nat /\ MaxUdp \in Nat /\ MaxTun \in Nat
    BY EventDevicesConstants DEF EventInv, DevInv
  <2>1. CASE UNCHANGED eventVars
    BY <2>1 DEF eventVars, EventTypes
  <2>2. CASE UdpArrives \/ TunArrives
    <3>1. m_udp_event' = m_udp_event /\ m_tun_event' = m_tun_event
      BY <2>2 DEF UdpArrives, TunArrives, loopVars
    <3>2. \/ udpIn < MaxUdp /\ udpIn' = udpIn + 1 /\ tunIn' = tunIn
          \/ tunIn < MaxTun /\ tunIn' = tunIn + 1 /\ udpIn' = udpIn
      BY <2>2 DEF UdpArrives, TunArrives
    <3> QED
      BY <2>0, <3>1, <3>2 DEF EventTypes
  <2>3. CASE SystemFillsUdp \/ SystemFillsTun \/ read_from_tun \/ receive_data \/ Idle
    <3>1. UNCHANGED <<m_udp_event, m_tun_event, udpIn, tunIn>>
      BY <2>3 DEF SystemFillsUdp, SystemFillsTun, read_from_tun, LinuxRead, receive_data, Idle, loopVars
    <3> QED
      BY <3>1 DEF EventTypes
  <2>4. CASE AsioWait
    <3> DEFINE t == Ready(tunDev, tunQueue)
               u == Ready(udpDev, udpQueue)
    <3>1. udpIn' = udpIn /\ tunIn' = tunIn
      BY <2>4 DEF AsioWait
    <3>2. \/ m_udp_event' = m_udp_event /\ m_tun_event' = m_tun_event
          \/ m_tun_event' = TunEvent(t.done # 0) /\ m_udp_event' = (u.done # 0)
      BY <2>4 DEF AsioWait
    <3> HIDE DEF t, u
    <3>3. m_udp_event' \in BOOLEAN /\ m_tun_event' \in BOOLEAN
      BY <3>2 DEF EventTypes, TunEvent
    <3> QED
      BY <3>1, <3>3 DEF EventTypes
  <2>5. CASE LinuxWait
    <3>1. udpIn' = udpIn /\ tunIn' = tunIn
      BY <2>5 DEF LinuxWait
    <3>2. m_udp_event' \in BOOLEAN /\ m_tun_event' \in BOOLEAN
      BY <2>5 DEF LinuxWait
    <3> QED
      BY <3>1, <3>2 DEF EventTypes
  <2> QED
    BY <2>1, <2>2, <2>3, <2>4, <2>5 DEF EventNext
<1>3. EventInv /\ EventTypes => EventTypeOK
  <2> SUFFICES ASSUME EventInv, EventTypes PROVE EventTypeOK
    OBVIOUS
  <2>1. ASSUME NEW f, NEW dev, NEW q, NEW n, NEW g, NEW m \in Nat, DevInv(f, dev, q, n, g), n <= m
        PROVE  dev.readed \in 0 .. m
    <3>1. n \in Nat /\ Len(q) \in Nat /\ dev.readed \in 0 .. n - Len(q)
      <4>1. q \in Seq(Nat)
        BY <2>1 DEF DevInv, QueueOK
      <4> QED
        BY <2>1, <4>1 DEF DevInv, Reads
    <3> QED
      BY <2>1, <3>1
  <2>2. udpDev.readed \in 0 .. MaxUdp /\ tunDev.readed \in 0 .. MaxTun
    BY <2>1, EventDevicesConstants DEF EventInv, EventTypes
  <2> QED
    BY <2>2 DEF EventInv, LoopInv, EventTypes, EventTypeOK
<1> QED
  BY <1>1, <1>2, <1>3, EventsInit, EventStep, PTL DEF EventSpec

\* No entry of a window is greater than the total, and no packet is greater than it may be.
DebugTypes ==
  /\ total \in [Way -> Entry]
  /\ \A w \in Way : total[w][2] <= MaxPackets /\ total[w][1] <= total[w][2] * MaxSize
  /\ \A w \in Way, i \in 1 .. WindowSize : window[w][i][1] <= total[w][1] /\ window[w][i][2] <= total[w][2]
  /\ pushing <= MaxUnit
  /\ http \in {"run", "peers", "tunnels", "table", "between", "charts", "ended"} \cup Way /\ page \in {"data", "packets"}
  /\ sessions \in 0 .. accepted /\ accepted \in 0 .. MaxSession /\ raced \subseteq Way

\* A packet more.
LEMMA ProductGrows ==
  ASSUME NEW m \in Nat, NEW n \in Nat, NEW t \in Nat, NEW s \in 0 .. m, t <= n * m
  PROVE  t + s <= (n + 1) * m
<1>1. (n + 1) * m = n * m + m /\ n * m \in Nat
  OBVIOUS
<1> QED
  BY <1>1

\* A factor more.
LEMMA ProductMonotone ==
  ASSUME NEW m \in Nat, NEW n \in Nat, NEW k \in Nat, k <= n
  PROVE  k * m <= n * m
<1>1. PICK d \in Nat : n = k + d
  <2>1. n - k \in Nat /\ n = k + (n - k)
    OBVIOUS
  <2> QED
    BY <2>1
<1>2. (k + d) * m = k * m + d * m /\ k * m \in Nat /\ d * m \in Nat
  OBVIOUS
<1> QED
  BY <1>1, <1>2

\* Zeros are no greater than what they replace may be.
LEMMA PushedTypes ==
  ASSUME NEW buffer \in [1 .. WindowSize -> Entry], NEW n \in Nat, NEW x \in Nat, NEW y \in Nat,
         \A i \in 1 .. WindowSize : buffer[i][1] <= x /\ buffer[i][2] <= y
  PROVE  /\ PushZeros(buffer, n) \in [1 .. WindowSize -> Entry]
         /\ \A i \in 1 .. WindowSize : PushZeros(buffer, n)[i][1] <= x /\ PushZeros(buffer, n)[i][2] <= y
<1>1. WindowSize \in Nat
  BY DebugStatsConstants
<1>2. NoEntry \in Entry /\ NoEntry[1] <= x /\ NoEntry[2] <= y
  BY DEF NoEntry, Entry
<1>3. ASSUME NEW i \in 1 .. WindowSize
      PROVE  PushZeros(buffer, n)[i] = NoEntry \/ \E j \in 1 .. WindowSize : PushZeros(buffer, n)[i] = buffer[j]
  <2>1. CASE i + n <= WindowSize
    <3>1. i + n \in 1 .. WindowSize
      BY <1>1, <2>1
    <3> QED
      BY <2>1, <3>1 DEF PushZeros
  <2>2. CASE ~(i + n <= WindowSize)
    BY <2>2 DEF PushZeros
  <2> QED
    BY <2>1, <2>2
<1>4. PushZeros(buffer, n) = [i \in 1 .. WindowSize |-> PushZeros(buffer, n)[i]]
  BY DEF PushZeros
<1> HIDE DEF NoEntry
<1>5. \A i \in 1 .. WindowSize : PushZeros(buffer, n)[i] \in Entry /\ PushZeros(buffer, n)[i][1] <= x /\ PushZeros(buffer, n)[i][2] <= y
  BY <1>2, <1>3
<1> QED
  BY <1>4, <1>5

\* A step that changes no window and no total.
LEMMA StatsStayTyped ==
  ASSUME DebugTypes, UNCHANGED <<window, total, pushing, raced>>,
         http' \in {"run", "peers", "tunnels", "table", "between", "charts", "ended"} \cup Way,
         page' \in {"data", "packets"}, sessions' \in 0 .. accepted', accepted' \in 0 .. MaxSession
  PROVE  DebugTypes'
  BY DEF DebugTypes

\* The loop counts a packet.
LEMMA CountedTypes ==
  ASSUME StatInv, DebugTypes, NEW w \in Way, NEW size \in 0 .. MaxSize, update_stats(w, size)
  PROVE  DebugTypes'
<1> DEFINE d == nowUnit - lastUnit[w]
           p == PushZeros(window[w], d)
           buffer == AddToBack(p, size)
           t == AddPacket(total[w], size)
<1>0. MaxSize \in Nat /\ MaxPackets \in Nat /\ WindowSize \in Nat \ {0} /\ size \in Nat
  BY DebugStatsConstants
<1>1. /\ window' = [window EXCEPT ![w] = buffer] /\ total' = [total EXCEPT ![w] = t] /\ total[w][2] < MaxPackets
      /\ raced' = raced \cup ({http} \cap {w}) /\ pushing' = pushing /\ UNCHANGED httpVars
  BY DEF update_stats
<1>2. total[w] \in Entry /\ total[w][1] \in Nat /\ total[w][2] \in Nat /\ total[w][1] <= total[w][2] * MaxSize
      /\ total \in [Way -> Entry]
  BY DEF DebugTypes, Entry
<1>3. d \in Nat /\ window[w] \in [1 .. WindowSize -> Entry] /\ window \in [Way -> [1 .. WindowSize -> Entry]]
  BY DEF StatInv, StatShape
<1>4. \A i \in 1 .. WindowSize : window[w][i][1] <= total[w][1] /\ window[w][i][2] <= total[w][2]
  BY DEF DebugTypes
<1> HIDE DEF d
<1>5. /\ p \in [1 .. WindowSize -> Entry]
      /\ \A i \in 1 .. WindowSize : p[i][1] <= total[w][1] /\ p[i][2] <= total[w][2]
  <2> DEFINE buf == window[w]
             x == total[w][1]
             y == total[w][2]
  <2>1. buf \in [1 .. WindowSize -> Entry] /\ x \in Nat /\ y \in Nat
        /\ \A i \in 1 .. WindowSize : buf[i][1] <= x /\ buf[i][2] <= y
    BY <1>2, <1>3, <1>4
  <2> HIDE DEF buf, x, y
  <2>2. /\ PushZeros(buf, d) \in [1 .. WindowSize -> Entry]
        /\ \A i \in 1 .. WindowSize : PushZeros(buf, d)[i][1] <= x /\ PushZeros(buf, d)[i][2] <= y
    BY <1>3, <2>1, PushedTypes
  <2> QED
    BY <2>2 DEF buf, x, y
<1>6. t \in Entry /\ t[1] = total[w][1] + size /\ t[2] = total[w][2] + 1
  BY <1>0, <1>2 DEF AddPacket, Entry
<1>7. t[2] <= MaxPackets /\ t[1] <= t[2] * MaxSize
  <2> DEFINE x == total[w][1]
             y == total[w][2]
  <2>1. x \in Nat /\ y \in Nat /\ x <= y * MaxSize /\ t[1] = x + size /\ t[2] = y + 1 /\ y < MaxPackets
    BY <1>1, <1>2, <1>6
  <2> HIDE DEF x, y, t
  <2>2. x + size <= (y + 1) * MaxSize
    BY <1>0, <2>1, ProductGrows
  <2>3. y + 1 <= MaxPackets
    BY <1>0, <2>1
  <2> QED
    BY <2>1, <2>2, <2>3
<1> HIDE DEF p, t
<1>8. \A i \in 1 .. WindowSize : buffer[i][1] <= t[1] /\ buffer[i][2] <= t[2]
  <2> SUFFICES ASSUME NEW i \in 1 .. WindowSize PROVE buffer[i][1] <= t[1] /\ buffer[i][2] <= t[2]
    OBVIOUS
  <2>1. p[i] \in Entry /\ p[i][1] <= total[w][1] /\ p[i][2] <= total[w][2]
    BY <1>5
  <2>2. p[i][1] \in Nat /\ p[i][2] \in Nat
    BY <2>1 DEF Entry
  <2>3. CASE buffer[i] = p[i]
    BY <1>0, <1>2, <1>6, <2>1, <2>2, <2>3
  <2>4. CASE buffer[i] = AddPacket(p[i], size)
    <3>1. buffer[i][1] = p[i][1] + size /\ buffer[i][2] = p[i][2] + 1
      BY <2>4 DEF AddPacket
    <3> QED
      BY <1>0, <1>2, <1>6, <2>1, <2>2, <3>1
  <2>5. buffer[i] = p[i] \/ buffer[i] = AddPacket(p[i], size)
    BY <1>5 DEF AddToBack
  <2> QED
    BY <2>3, <2>4, <2>5
<1> HIDE DEF buffer
<1>9. /\ \A v \in Way : total'[v] = IF v = w THEN t ELSE total[v]
      /\ \A v \in Way : window'[v] = IF v = w THEN buffer ELSE window[v]
      /\ total' \in [Way -> Entry]
  BY <1>1, <1>2, <1>3, <1>6
<1>10. \A v \in Way : total'[v][2] <= MaxPackets /\ total'[v][1] <= total'[v][2] * MaxSize
  BY <1>7, <1>9 DEF DebugTypes
<1>11. \A v \in Way, i \in 1 .. WindowSize : window'[v][i][1] <= total'[v][1] /\ window'[v][i][2] <= total'[v][2]
  BY <1>8, <1>9 DEF DebugTypes
<1>12. raced' \subseteq Way
  BY <1>1 DEF DebugTypes
<1> QED
  BY <1>1, <1>9, <1>10, <1>11, <1>12 DEF DebugTypes, httpVars

\* The steps of the http server on the windows.
LEMMA RefreshTypes ==
  ASSUME StatInv, DebugTypes, NEW w \in Way
  PROVE  /\ BeginRefresh(w) => DebugTypes'
         /\ \A next \in {"table", "between", "charts"}, drawn \in {"data", "packets"} :
              EndRefresh(w, next, drawn) => DebugTypes'
<1>0. MaxUnit \in Nat /\ nowUnit \in 0 .. MaxUnit /\ pushing \in Nat /\ lastUnit[w] \in Nat /\ lastUnit[w] <= nowUnit
      /\ window \in [Way -> [1 .. WindowSize -> Entry]]
  BY DebugStatsConstants DEF StatInv, StatShape
<1>1. ASSUME BeginRefresh(w) PROVE DebugTypes'
  <2>1. /\ http' = w /\ pushing' = nowUnit - lastUnit[w]
        /\ UNCHANGED <<window, total, raced, page, sessions, accepted>>
    BY <1>1 DEF BeginRefresh
  <2>2. pushing' <= MaxUnit
    BY <1>0, <2>1
  <2> QED
    BY <2>1, <2>2 DEF DebugTypes
<1>2. ASSUME NEW next \in {"table", "between", "charts"}, NEW drawn \in {"data", "packets"}, EndRefresh(w, next, drawn)
      PROVE  DebugTypes'
  <2> DEFINE p == PushZeros(window[w], pushing)
  <2>1. /\ http' = next /\ page' = drawn /\ pushing' = 0 /\ window' = [window EXCEPT ![w] = p]
        /\ UNCHANGED <<total, raced, sessions, accepted>>
    BY <1>2 DEF EndRefresh
  <2>2. total[w][1] \in Nat /\ total[w][2] \in Nat
        /\ \A i \in 1 .. WindowSize : window[w][i][1] <= total[w][1] /\ window[w][i][2] <= total[w][2]
    BY DEF DebugTypes, Entry
  <2>3. \A i \in 1 .. WindowSize : p[i][1] <= total[w][1] /\ p[i][2] <= total[w][2]
    <3> DEFINE buf == window[w]
               x == total[w][1]
               y == total[w][2]
    <3>1. buf \in [1 .. WindowSize -> Entry] /\ x \in Nat /\ y \in Nat
          /\ \A i \in 1 .. WindowSize : buf[i][1] <= x /\ buf[i][2] <= y
      BY <1>0, <2>2
    <3> HIDE DEF buf, x, y
    <3>2. \A i \in 1 .. WindowSize : PushZeros(buf, pushing)[i][1] <= x /\ PushZeros(buf, pushing)[i][2] <= y
      BY <1>0, <3>1, PushedTypes
    <3> QED
      BY <3>2 DEF buf, x, y
  <2> HIDE DEF p
  <2>4. \A v \in Way : window'[v] = IF v = w THEN p ELSE window[v]
    BY <1>0, <2>1
  <2>5. \A v \in Way, i \in 1 .. WindowSize : window'[v][i][1] <= total[v][1] /\ window'[v][i][2] <= total[v][2]
    BY <2>3, <2>4 DEF DebugTypes
  <2>6. 0 <= MaxUnit
    BY <1>0
  <2> QED
    BY <2>1, <2>5, <2>6 DEF DebugTypes
<1> QED
  BY <1>1, <1>2

\* The steps of the loop and of the http server keep the types.
LEMMA DebugTypesStep == StatInv /\ DebugTypes /\ [DebugNext]_debugVars => DebugTypes'
<1> SUFFICES ASSUME StatInv, DebugTypes, [DebugNext]_debugVars PROVE DebugTypes'
  OBVIOUS
<1>0. /\ http \in {"run", "peers", "tunnels", "table", "between", "charts", "ended"} \cup Way
      /\ page \in {"data", "packets"}
      /\ sessions \in 0 .. accepted /\ accepted \in 0 .. MaxSession /\ MaxSession \in Nat
  BY DebugStatsConstants DEF DebugTypes
<1>1. CASE UNCHANGED debugVars
  BY <1>0, <1>1, StatsStayTyped DEF debugVars
<1>2. CASE Tick
  BY <1>0, <1>2, StatsStayTyped DEF Tick, statVars, httpVars
<1>3. ASSUME NEW w \in Way, NEW size \in 0 .. MaxSize, update_stats(w, size) PROVE DebugTypes'
  BY <1>3, CountedTypes
<1>4. CASE do_accept
  <2>1. UNCHANGED <<window, total, pushing, raced, http, page>> /\ accepted < MaxSession
        /\ sessions' = sessions + 1 /\ accepted' = accepted + 1
    BY <1>4 DEF do_accept, statVars
  <2>2. sessions' \in 0 .. accepted' /\ accepted' \in 0 .. MaxSession
    BY <1>0, <2>1
  <2> QED
    BY <1>0, <2>1, <2>2, StatsStayTyped
<1>5. CASE do_read_error \/ BadRequest \/ do_write \/ HttpStop
  <2>1. /\ UNCHANGED <<window, total, pushing, raced, accepted>>
        /\ http' \in {http, "ended", "peers"} /\ page' \in {page, "data"}
        /\ sessions' = 0 \/ (sessions > 0 /\ sessions' = sessions - 1)
    BY <1>5 DEF do_read_error, BadRequest, do_write, HttpStop, statVars
  <2>2. sessions' \in 0 .. accepted' /\ accepted' \in 0 .. MaxSession
    BY <1>0, <2>1
  <2>3. http' \in {"run", "peers", "tunnels", "table", "between", "charts", "ended"} \cup Way /\ page' \in {"data", "packets"}
    BY <1>0, <2>1
  <2> QED
    BY <2>1, <2>2, <2>3, StatsStayTyped
<1>6. CASE generate_table_of_peers \/ generate_table_of_tunnels \/ SendPage
  <2>1. /\ UNCHANGED <<window, total, pushing, raced, accepted, sessions, page>>
        /\ http' \in {"tunnels", "table", "run"}
    BY <1>6 DEF generate_table_of_peers, generate_table_of_tunnels, SendPage, statVars
  <2> QED
    BY <1>0, <2>1, StatsStayTyped
<1>7. CASE get_data_buffer_as_js_str \/ get_packets_buffer_as_js_str
  <2>1. "read" \in Way /\ "sent" \in Way
    BY DEF Way
  <2>2. \/ BeginRefresh("read") \/ BeginRefresh("sent")
        \/ EndRefresh("read", "between", page)
        \/ EndRefresh("sent", "table", "packets") \/ EndRefresh("sent", "charts", "data")
    BY <1>7 DEF get_data_buffer_as_js_str, get_packets_buffer_as_js_str
  <2> QED
    BY <1>0, <2>1, <2>2, RefreshTypes
<1> QED
  BY <1>1, <1>2, <1>3, <1>4, <1>5, <1>6, <1>7 DEF DebugNext

\* The statistics stay within their types.
LEMMA DebugTypesHold == DebugSpec => []DebugTypeOK
<1>0. /\ MaxUnit \in Nat /\ MaxSize \in Nat /\ MaxPackets \in Nat /\ MaxSession \in Nat /\ WindowSize \in Nat
  BY DebugStatsConstants
<1>1. DebugInit => DebugTypes
  <2> SUFFICES ASSUME DebugInit PROVE DebugTypes
    OBVIOUS
  <2>1. /\ window = [w \in Way |-> [i \in 1 .. WindowSize |-> NoEntry]] /\ total = [w \in Way |-> NoEntry]
        /\ http = "run" /\ page = "data" /\ pushing = 0 /\ sessions = 0 /\ accepted = 0 /\ raced = {}
    BY DEF DebugInit
  <2>2. NoEntry \in Entry /\ NoEntry[1] = 0 /\ NoEntry[2] = 0 /\ 0 * MaxSize = 0
    BY <1>0 DEF NoEntry, Entry
  <2> HIDE DEF NoEntry
  <2>3. /\ total \in [Way -> Entry] /\ \A w \in Way : total[w] = NoEntry
        /\ \A w \in Way, i \in 1 .. WindowSize : window[w][i] = NoEntry
    BY <2>1, <2>2
  <2>4. \A w \in Way : total[w][2] <= MaxPackets /\ total[w][1] <= total[w][2] * MaxSize
    BY <1>0, <2>2, <2>3
  <2>5. \A w \in Way, i \in 1 .. WindowSize : window[w][i][1] <= total[w][1] /\ window[w][i][2] <= total[w][2]
    BY <2>2, <2>3
  <2>6. pushing <= MaxUnit /\ raced \subseteq Way /\ sessions \in 0 .. accepted /\ accepted \in 0 .. MaxSession
    <3>1. pushing = 0 /\ sessions = 0 /\ accepted = 0 /\ raced = {} /\ MaxUnit \in Nat /\ MaxSession \in Nat
      BY <1>0, <2>1
    <3>2. pushing <= MaxUnit /\ sessions \in 0 .. accepted /\ accepted \in 0 .. MaxSession
      BY <3>1
    <3>3. raced \subseteq Way
      BY <3>1, Zenon
    <3> QED
      BY <3>2, <3>3
  <2>7. http \in {"run", "peers", "tunnels", "table", "between", "charts", "ended"} \cup Way
        /\ page \in {"data", "packets"}
    BY <2>1
  <2> QED
    BY <2>3, <2>4, <2>5, <2>6, <2>7 DEF DebugTypes
<1>2. StatInv /\ DebugTypes => DebugTypeOK
  <2> SUFFICES ASSUME StatInv, DebugTypes PROVE DebugTypeOK
    OBVIOUS
  <2> DEFINE Bounded == (0 .. MaxPackets * MaxSize) \X (0 .. MaxPackets)
  <2>1. \A w \in Way : total[w] \in Bounded
    <3> SUFFICES ASSUME NEW w \in Way PROVE total[w] \in Bounded
      OBVIOUS
    <3> DEFINE x == total[w][1]
               y == total[w][2]
    <3>1. x \in Nat /\ y \in Nat /\ y <= MaxPackets /\ x <= y * MaxSize /\ total[w] = <<x, y>>
      BY DEF DebugTypes, Entry
    <3> HIDE DEF x, y
    <3>2. y * MaxSize <= MaxPackets * MaxSize /\ y * MaxSize \in Nat /\ MaxPackets * MaxSize \in Nat
      BY <1>0, <3>1, ProductMonotone
    <3>3. x \in 0 .. MaxPackets * MaxSize /\ y \in 0 .. MaxPackets
      BY <1>0, <3>1, <3>2
    <3> QED
      BY <3>1, <3>3
  <2>2. \A w \in Way : \A i \in 1 .. WindowSize : window[w][i] \in Bounded
    <3> SUFFICES ASSUME NEW w \in Way, NEW i \in 1 .. WindowSize PROVE window[w][i] \in Bounded
      OBVIOUS
    <3> DEFINE x == window[w][i][1]
               y == window[w][i][2]
               n == MaxPackets * MaxSize
    <3>0. window[w][i] \in Entry
      BY DEF StatInv, StatShape
    <3>1. x \in Nat /\ y \in Nat /\ window[w][i] = <<x, y>> /\ x <= total[w][1] /\ y <= total[w][2]
      BY <3>0 DEF DebugTypes, Entry
    <3>2. n \in Nat /\ total[w][1] \in 0 .. n /\ total[w][2] \in 0 .. MaxPackets
      BY <1>0, <2>1
    <3> HIDE DEF x, y, n
    <3>3. x \in 0 .. n /\ y \in 0 .. MaxPackets
      BY <1>0, <3>1, <3>2
    <3> QED
      BY <3>1, <3>3 DEF n
  <2> HIDE DEF Bounded
  <2>3. window \in [Way -> [1 .. WindowSize -> Bounded]]
    BY <2>2 DEF StatInv, StatShape
  <2>4. total \in [Way -> Bounded]
    BY <2>1 DEF DebugTypes
  <2>5. lastUnit \in [Way -> 0 .. MaxUnit] /\ nowUnit \in 0 .. MaxUnit /\ pushing \in 0 .. MaxUnit
    <3>1. \A w \in Way : lastUnit[w] \in 0 .. MaxUnit
      BY <1>0 DEF StatInv, StatShape
    <3> QED
      BY <1>0, <3>1 DEF StatInv, StatShape, DebugTypes
  <2>6. sessions \in 0 .. MaxSession
    BY <1>0 DEF DebugTypes
  <2> QED
    BY <2>3, <2>4, <2>5, <2>6 DEF DebugTypes, DebugTypeOK, Bounded
<1> QED
  BY <1>1, <1>2, StatInit, StatStep, DebugTypesStep, PTL DEF DebugSpec

-----------------------------------------------------------------------------
\* The node.

\* Types of all parts.
AllTypes ==
  /\ StartTypeOK /\ TunnelTypeOK /\ MultikeysTypeOK /\ TunDeviceTypeOK /\ EventTypeOK /\ DebugTypeOK
  /\ SerialTypeOK /\ NumberTypeOK /\ FrameTypeOK /\ ReferenceTypeOK

\* Every part of the node, whatever its constants, keeps its types and stays in its bounds: no
\* start loops, no key, frame, packet or session is one too many, and no outcome is one that the
\* code does not have.
THEOREM NodeTypes == MCSpec => []TypeOK
<1>1. AllTypes /\ part \in Parts => TypeOK
  <2> SUFFICES ASSUME AllTypes, part \in Parts PROVE TypeOK
    OBVIOUS
  <2>1. CASE part = "start"
    <3>1. StartTypeOK
      BY DEF AllTypes
    <3> QED
      BY <2>1, <3>1, Zenon DEF TypeOK
  <2>2. CASE part = "tunnel"
    <3>1. TunnelTypeOK
      BY DEF AllTypes
    <3> QED
      BY <2>2, <3>1, Zenon DEF TypeOK
  <2>3. CASE part = "keys"
    <3>1. MultikeysTypeOK
      BY DEF AllTypes
    <3> QED
      BY <2>3, <3>1, Zenon DEF TypeOK
  <2>4. CASE part = "tundevice"
    <3>1. TunDeviceTypeOK
      BY DEF AllTypes
    <3> QED
      BY <2>4, <3>1, Zenon DEF TypeOK
  <2>5. CASE part = "events"
    <3>1. EventTypeOK
      BY DEF AllTypes
    <3> QED
      BY <2>5, <3>1, Zenon DEF TypeOK
  <2>6. CASE part = "debug"
    <3>1. DebugTypeOK
      BY DEF AllTypes
    <3> QED
      BY <2>6, <3>1, Zenon DEF TypeOK
  <2>7. CASE part = "serial"
    <3>1. SerialTypeOK
      BY DEF AllTypes
    <3> QED
      BY <2>7, <3>1, Zenon DEF TypeOK
  <2>8. CASE part = "numbers"
    <3>1. NumberTypeOK
      BY DEF AllTypes
    <3> QED
      BY <2>8, <3>1, Zenon DEF TypeOK
  <2>9. CASE part = "frames"
    <3>1. FrameTypeOK
      BY DEF AllTypes
    <3> QED
      BY <2>9, <3>1, Zenon DEF TypeOK
  <2>10. CASE part = "references"
    <3>1. ReferenceTypeOK
      BY DEF AllTypes
    <3> QED
      BY <2>10, <3>1, Zenon DEF TypeOK
  <2> QED
    BY PartsAssumption, <2>1, <2>2, <2>3, <2>4, <2>5, <2>6, <2>7, <2>8, <2>9, <2>10
<1>2. (StartTypeOK /\ TunnelTypeOK /\ MultikeysTypeOK /\ TunDeviceTypeOK /\ EventTypeOK /\ DebugTypeOK)
        /\ (SerialTypeOK /\ NumberTypeOK /\ FrameTypeOK /\ ReferenceTypeOK) => AllTypes
  BY DEF AllTypes
<1> QED
  BY <1>1, <1>2, PartsOfNode, StartTypesHold, TunnelTypesHold, KeyTypesHold, DeviceTypesHold,
     EventTypesHold, DebugTypesHold, SerialExact, NumberTypesHold, FramesExact, ReferencesExact, PTL

\* What the node writes it reads back as it was: values that are serialized, numbers that are
\* computed, frames that go through a device, and references to peers (trivialserialize,
\* stdplus/eint.hpp, tuntap, galaxysrv_peers.cpp).
THEOREM CodecsExact == MCSpec => []CodecsAreExact
<1>1. RoundTrip /\ EintIsExact /\ FramesAreExact /\ ReferenceIsExact => CodecsAreExact
  BY DEF CodecsAreExact
<1> QED
  BY <1>1, PartsOfNode, SerialExact, EintExactness, FramesExact, ReferencesExact, PTL
=============================================================================
