----------------------------- MODULE TunDevice ------------------------------
(***************************************************************************)
(* Opening and configuring the tun/tap card: the Windows devices           *)
(* (c_tun_device_windows, platform "windows", and c_tuntap_windows_obj,    *)
(* "windows_obj"), which look for a TAP card in the registry, the apple    *)
(* ones ("apple"), which try one utun unit after the other, and Linux.     *)
(* Every system call may fail.  A registry key is the handle value that    *)
(* the system gave out; a value is given out again once it was closed.     *)
(***************************************************************************)
EXTENDS Integers, Sequences, FiniteSets

CONSTANTS HkeyValue,              \* handle values
          MaxSubkeys,             \* bound: subkeys of the adapter class
          number_of_tested_cards  \* 100 in the code

ASSUME TunDeviceConstants == MaxSubkeys \in Nat /\ number_of_tested_cards \in Nat

VARIABLES platform, dpc,
          subkeys,       \* what is below the adapter class, in order
          at,            \* the subkey that is looked at
          key,           \* the local variable, 0 before it is set
          keysOpen,      \* open registry keys
          wrapper,       \* key_wrapped
          skipped,       \* keys that set() took for the one it had
          closedTwice,   \* a key was closed that was not open
          m_guid, m_register_tun_path,  \* subkeys, 0 if none
          devOpen,       \* open handles (or descriptors) of the card
          addrs,         \* IPv6 addresses of the card
          unit,          \* sc_unit
          m_ip6_ok, mtu_set

searchVars == <<subkeys, at, key, keysOpen, wrapper, skipped, closedTwice, m_guid, m_register_tun_path>>
cardVars == <<devOpen, addrs, unit, m_ip6_ok, mtu_set>>
tunDeviceVars == <<platform, dpc, searchVars, cardVars>>

Windows == {"windows", "windows_obj"}

\* What can be found below the adapter class: "Properties", a key without a
\* ComponentId, another card, and TAP cards: one without an instance id, one with an
\* empty one, one that does not open, one that does.
SubkeyKinds == {"Properties", "no_id", "other", "tap_no_instance", "tap_empty", "tap_busy", "tap"}

IsTap(k) == k \in {"tap_no_instance", "tap_empty", "tap_busy", "tap"}

TunDeviceInit ==
  /\ platform \in Windows \cup {"linux", "apple"}
  /\ subkeys \in IF platform \in Windows THEN UNION { [1 .. n -> SubkeyKinds] : n \in 0 .. MaxSubkeys }
                 ELSE {<<>>}
  /\ dpc = CASE platform = "linux" -> "open_tun" [] platform = "apple" -> "create_tun_fd"
             [] OTHER -> "open_adapter"
  /\ at = 0 /\ key = 0 /\ keysOpen = {} /\ wrapper = [hkey |-> 0, is_open |-> FALSE]
  /\ skipped = {} /\ closedTwice = FALSE /\ m_guid = 0 /\ m_register_tun_path = 0
  /\ devOpen = 0 /\ addrs \in IF platform \in Windows THEN {{}, {"old1", "old2"}} ELSE {{}}
  /\ unit = 1 /\ m_ip6_ok = FALSE /\ mtu_set = FALSE

Final == dpc \in {"ready", "thrown", "configured"}

-----------------------------------------------------------------------------
\* hkey_wrapper, as functions on what the registry has open.

RegCloseKey(k) == keysOpen' = keysOpen \ {k} /\ closedTwice' = (closedTwice \/ k \notin keysOpen)

\* The destructor.  The device itself has not come up when one runs after a throw.
Thrown ==
  /\ dpc' = "thrown"
  /\ wrapper' = [wrapper EXCEPT !.is_open = FALSE]
  /\ IF wrapper.is_open THEN RegCloseKey(wrapper.hkey) ELSE UNCHANGED <<keysOpen, closedTwice>>

\* The new wrapper returns at once when it is given the value it has, open or not.
Skips(k) == platform = "windows_obj" /\ wrapper.hkey = k

MutSetLeaks(k) ==
  /\ wrapper' = [hkey |-> k, is_open |-> TRUE]
  /\ UNCHANGED <<keysOpen, closedTwice, skipped>>

set(k) ==
  IF Skips(k) THEN skipped' = skipped \cup {k} /\ UNCHANGED <<wrapper, keysOpen, closedTwice>>
  ELSE /\ wrapper' = [hkey |-> k, is_open |-> TRUE]
       /\ IF wrapper.is_open THEN RegCloseKey(wrapper.hkey) ELSE UNCHANGED <<keysOpen, closedTwice>>
       /\ UNCHANGED skipped

CloseWrapper ==
  /\ wrapper' = [wrapper EXCEPT !.is_open = FALSE] /\ RegCloseKey(wrapper.hkey)

\* RegOpenKeyEx into the local variable.
RegOpenKey(next) ==
  \/ \E k \in HkeyValue \ keysOpen :
       key' = k /\ keysOpen' = keysOpen \cup {k} /\ dpc' = next /\ UNCHANGED <<wrapper, closedTwice>>
  \/ Thrown /\ UNCHANGED key

-----------------------------------------------------------------------------
\* get_device_guid.

OpenAdapter ==
  /\ dpc = "open_adapter" /\ RegOpenKey("get_subkeys")
  /\ UNCHANGED <<platform, subkeys, at, skipped, m_guid, m_register_tun_path, cardVars>>

\* RegQueryInfoKey may fail; whatever happens the key is closed.
get_subkeys ==
  /\ dpc = "get_subkeys"
  /\ wrapper' = [hkey |-> key, is_open |-> FALSE] /\ RegCloseKey(key)
  /\ dpc' \in {"next_subkey", "thrown"}
  /\ UNCHANGED <<platform, subkeys, at, key, skipped, m_guid, m_register_tun_path, cardVars>>

\* The loop; "Device not found" at its end.
NextSubkey ==
  /\ dpc = "next_subkey"
  /\ IF at = Len(subkeys) THEN Thrown /\ UNCHANGED <<at, key>>
     ELSE /\ at' = at + 1
          /\ IF subkeys[at + 1] = "Properties"
             THEN UNCHANGED <<dpc, key, keysOpen, wrapper, closedTwice>>
             ELSE RegOpenKey("component_id")
  /\ UNCHANGED <<platform, subkeys, skipped, m_guid, m_register_tun_path, cardVars>>

MutNoIdLeaks == UNCHANGED <<keysOpen, closedTwice, wrapper, skipped>>

\* A key without a ComponentId never gets into the wrapper.
NoComponentId == RegCloseKey(key) /\ UNCHANGED <<wrapper, skipped>>

ComponentId ==
  /\ dpc = "component_id"
  /\ IF subkeys[at] = "no_id" THEN NoComponentId /\ dpc' = "next_subkey"
     ELSE set(key) /\ dpc' = IF IsTap(subkeys[at]) THEN "instance_id" ELSE "close_key"
  /\ m_register_tun_path' = IF platform = "windows_obj" /\ IsTap(subkeys[at]) THEN at ELSE m_register_tun_path
  /\ UNCHANGED <<platform, subkeys, at, key, m_guid, cardVars>>

\* get() of the new wrapper throws unless it is open.
InstanceId ==
  /\ dpc = "instance_id"
  /\ CASE subkeys[at] = "tap_no_instance" \/ (platform = "windows_obj" /\ ~wrapper.is_open) -> Thrown
       [] subkeys[at] = "tap_empty" -> dpc' = "close_key" /\ UNCHANGED <<wrapper, keysOpen, closedTwice>>
       [] OTHER -> /\ dpc' = "open_tun_device"
                   /\ IF platform = "windows" THEN CloseWrapper ELSE UNCHANGED <<wrapper, keysOpen, closedTwice>>
  /\ UNCHANGED <<platform, subkeys, at, key, skipped, m_guid, m_register_tun_path, cardVars>>

\* The end of the loop's body; the new code leaves the key to the next set().
CloseKey ==
  /\ dpc = "close_key" /\ dpc' = "next_subkey"
  /\ IF platform = "windows" THEN CloseWrapper ELSE UNCHANGED <<wrapper, keysOpen, closedTwice>>
  /\ UNCHANGED <<platform, subkeys, at, key, skipped, m_guid, m_register_tun_path, cardVars>>

\* The card is opened and closed to try it.  On return the destructor runs.
TryCard ==
  /\ dpc = "open_tun_device"
  /\ \/ /\ subkeys[at] = "tap_busy" /\ dpc' = "next_subkey"
        /\ UNCHANGED <<m_guid, wrapper, keysOpen, closedTwice>>
     \/ subkeys[at] = "tap" /\ Thrown /\ UNCHANGED m_guid
     \/ /\ subkeys[at] = "tap" /\ m_guid' = at /\ dpc' = "get_device_handle"
        /\ wrapper' = [wrapper EXCEPT !.is_open = FALSE]
        /\ IF wrapper.is_open THEN RegCloseKey(wrapper.hkey) ELSE UNCHANGED <<keysOpen, closedTwice>>
  /\ UNCHANGED <<platform, subkeys, at, key, skipped, m_register_tun_path, cardVars>>

-----------------------------------------------------------------------------
\* get_device_handle closes the card when the driver does not answer; get_mac does not.
get_device_handle ==
  /\ dpc = "get_device_handle"
  /\ \/ devOpen' = devOpen + 1 /\ dpc' = "get_mac"
     \/ dpc' = "thrown" /\ UNCHANGED devOpen
  /\ UNCHANGED <<platform, searchVars, addrs, unit, m_ip6_ok, mtu_set>>

get_mac ==
  /\ dpc = "get_mac" /\ dpc' \in {"ready", "thrown"}
  /\ UNCHANGED <<platform, searchVars, cardVars>>

\* The apple card: the descriptor is closed when the control is unknown, not when
\* the search for a free unit is given up (after too many, or too long).
create_tun_fd ==
  /\ dpc = "create_tun_fd"
  /\ \/ dpc' = "connect" /\ devOpen' = devOpen + 1
     \/ dpc' = "thrown" /\ UNCHANGED devOpen
  /\ UNCHANGED <<platform, searchVars, addrs, unit, m_ip6_ok, mtu_set>>

MutTestAgain == unit - 2 <= number_of_tested_cards

\* The condition of the loop over the units.
TestAgain == unit - 1 <= number_of_tested_cards

ConnectUnit ==
  /\ dpc = "connect"
  /\ \/ dpc' = "ready" /\ UNCHANGED unit
     \/ TestAgain /\ unit' = unit + 1 /\ UNCHANGED dpc
     \/ dpc' = "thrown" /\ UNCHANGED unit
  /\ UNCHANGED <<platform, searchVars, devOpen, addrs, m_ip6_ok, mtu_set>>

OpenTun ==
  /\ dpc = "open_tun"
  /\ \/ dpc' = "ready" /\ devOpen' = devOpen + 1
     \/ dpc' = "thrown" /\ UNCHANGED devOpen
  /\ UNCHANGED <<platform, searchVars, addrs, unit, m_ip6_ok, mtu_set>>

-----------------------------------------------------------------------------
\* set_ipv6_address (set_tun_parameters) on Windows: name and LUID of the card, then
\* the old addresses are removed one by one, then ours is created.
get_human_name ==
  /\ dpc = "ready" /\ platform \in Windows
  /\ dpc' \in {"remove_old", "thrown"}
  /\ UNCHANGED <<platform, searchVars, cardVars>>

MutKeepOld(a) == addrs

AfterDelete(a) == addrs \ {a}

RemoveOldAddress ==
  /\ dpc = "remove_old"
  /\ \/ \E a \in addrs \cap {"old1", "old2"} :
          \/ addrs' = AfterDelete(a) /\ UNCHANGED dpc
          \/ dpc' = "thrown" /\ UNCHANGED addrs
     \/ addrs \cap {"old1", "old2"} = {} /\ dpc' = "create_address" /\ UNCHANGED addrs
  /\ UNCHANGED <<platform, searchVars, devOpen, unit, m_ip6_ok, mtu_set>>

\* Then the MTU, which only the new device writes, below the path of the card.
CreateAddress ==
  /\ dpc = "create_address"
  /\ \/ /\ addrs' = addrs \cup {"own"} /\ dpc' = IF platform = "windows_obj" THEN "set_mtu" ELSE "configured"
     \/ dpc' = "thrown" /\ UNCHANGED addrs
  /\ UNCHANGED <<platform, searchVars, devOpen, unit, m_ip6_ok, mtu_set>>

set_ipv6_address ==
  /\ dpc = "ready" /\ platform \notin Windows
  /\ \/ addrs' = addrs \cup {"own"} /\ m_ip6_ok' = (platform = "linux") /\ dpc' = "set_mtu"
     \/ dpc' = "thrown" /\ UNCHANGED <<addrs, m_ip6_ok>>
  /\ UNCHANGED <<platform, searchVars, devOpen, unit, mtu_set>>

set_mtu ==
  /\ dpc = "set_mtu"
  /\ \/ (platform = "linux" => m_ip6_ok) /\ mtu_set' = TRUE /\ dpc' = "configured"
     \/ dpc' = "thrown" /\ UNCHANGED mtu_set
  /\ UNCHANGED <<platform, searchVars, devOpen, addrs, unit, m_ip6_ok>>

TunDeviceNext ==
  \/ OpenAdapter \/ get_subkeys \/ NextSubkey \/ ComponentId \/ InstanceId \/ CloseKey \/ TryCard
  \/ get_device_handle \/ get_mac \/ create_tun_fd \/ ConnectUnit \/ OpenTun
  \/ get_human_name \/ RemoveOldAddress \/ CreateAddress \/ set_ipv6_address \/ set_mtu

-----------------------------------------------------------------------------
TunDeviceTypeOK ==
  /\ keysOpen \subseteq HkeyValue /\ key \in {0} \cup HkeyValue /\ wrapper.hkey \in {0} \cup HkeyValue
  /\ at \in 0 .. Len(subkeys) /\ unit \in 1 .. number_of_tested_cards + 2 /\ devOpen \in 0 .. 1

\* Whatever the registry holds and whichever call fails, no key is closed twice, and all
\* that were opened are closed but one at most: the new wrapper keeps a subkey open for good
\* when the system gives it the value of the key that was closed before the search, as set()
\* then returns at once (c_tuntap_windows.cpp:454).  The old wrapper leaves none.
RegistryClosed ==
  /\ ~closedTwice
  /\ Final => keysOpen = skipped
  /\ platform = "windows" => skipped = {}
  /\ \A j, k \in skipped : j = k

\* A card that came up is the one card that opened, with one handle, and once it is
\* configured it has our address and none of the old ones; the MTU is written to the
\* registry path of that card, also when TAP cards that do not open came before it.
CardIsOurs ==
  /\ dpc \in {"ready", "configured", "set_mtu"} => devOpen = 1
  /\ platform \in Windows /\ dpc = "ready" => subkeys[m_guid] = "tap"
  /\ dpc = "configured" => addrs = {"own"}
  /\ dpc = "set_mtu" /\ platform = "windows_obj" => m_register_tun_path = m_guid
=============================================================================
