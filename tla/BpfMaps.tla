------------------------------ MODULE BpfMaps ------------------------------
(***************************************************************************)
(* The BPF maps of kernelspace/xdp_lb.c, the only state the XDP data plane *)
(* and the Go control plane share.  Addresses are opaque values; Zero      *)
(* stands for the all-zero address or MAC of an unused field (and for the  *)
(* VIP 0.0.0.0), NULL for the result of a failed map lookup.               *)
(*                                                                         *)
(* The fields no program reads (port, vport, weight, the padding) and the  *)
(* source MAC, which never changes once written, are left out.             *)
(***************************************************************************)
EXTENDS Naturals, Sequences, FiniteSets

CONSTANTS
  MAX_BACKENDS,   \* max_entries of the three per-backend maps
  Addr,           \* IPv4 addresses a backend can have
  Mac,            \* MAC addresses a backend can have
  Veth,           \* names of host-side veth interfaces
  VIP,            \* the configured virtual IP; Zero when it is 0.0.0.0
  Zero,
  NULL

ASSUME MapAssumption ==
  /\ MAX_BACKENDS \in Nat \ {0}
  /\ Zero \notin Addr \cup Mac
  /\ VIP # NULL
  /\ NULL \notin Nat

VARIABLES
  config_map,       \* the single lb_config slot
  backend_map,      \* index -> backend_info
  backend_ips_map,  \* backend address -> index, NULL where there is no entry
  todo              \* fields that the array-map update in flight has yet to copy

maps == <<config_map, backend_map, backend_ips_map>>

Index == 0 .. MAX_BACKENDS - 1

(* discovery.Backend, reduced to the fields that reach the kernel. *)
Backend == [IP : Addr, MAC : Mac, VethName : Veth]

backend_info == [ipv4 : Addr \cup {Zero}, mac : Mac \cup {Zero}]
lb_config == [vip : {VIP, Zero}, backend_count : 0 .. MAX_BACKENDS]

InfoFields == {"ipv4", "mac"}
ConfigFields == {"vip", "backend_count"}

ZeroInfo == [ipv4 |-> Zero, mac |-> Zero]

(* The value UpdateBackend writes for a backend. *)
Info(b) == [ipv4 |-> b.IP, mac |-> b.MAC]

(* Variant of InArray for the sensitivity runs: max_entries off by one. *)
InArrayOneMore(k) == k <= MAX_BACKENDS

(* An array map has the indices below max_entries; an update past them fails. *)
InArray(k) == k < MAX_BACKENDS

Registered == {a \in Addr : backend_ips_map[a] # NULL}

(* A hash map refuses a new key once it holds max_entries keys (E2BIG); an *)
(* existing key is overwritten in place.                                   *)
HasRoom(a) == a \in Registered \/ Cardinality(Registered) < MAX_BACKENDS

MapsInit ==
  /\ config_map = [vip |-> Zero, backend_count |-> 0]
  /\ backend_map = [k \in Index |-> ZeroInfo]
  /\ backend_ips_map = [a \in Addr |-> NULL]
  /\ todo = {}

(***************************************************************************)
(* The kernel updates an element of an array map in place, with a memcpy   *)
(* that is not atomic against an XDP program holding a pointer to the      *)
(* element: one field is copied per step, in any order.  The MAC is copied *)
(* byte by byte; mac stands for any one of its bytes, so what is shown of  *)
(* it holds of each byte, not of the six together.                         *)
(***************************************************************************)
CopyInfo(k, v) ==
  /\ \/ /\ "ipv4" \in todo
        /\ backend_map' = [backend_map EXCEPT ![k].ipv4 = v.ipv4]
        /\ todo' = todo \ {"ipv4"}
     \/ /\ "mac" \in todo
        /\ backend_map' = [backend_map EXCEPT ![k].mac = v.mac]
        /\ todo' = todo \ {"mac"}
  /\ UNCHANGED <<config_map, backend_ips_map>>

CopyConfig(v) ==
  /\ \/ /\ "vip" \in todo
        /\ config_map' = [config_map EXCEPT !.vip = v.vip]
        /\ todo' = todo \ {"vip"}
     \/ /\ "backend_count" \in todo
        /\ config_map' = [config_map EXCEPT !.backend_count = v.backend_count]
        /\ todo' = todo \ {"backend_count"}
  /\ UNCHANGED <<backend_map, backend_ips_map>>

(* Put and Delete on the hash map replace an element atomically. *)
PutIp(a, k) ==
  /\ backend_ips_map' = [backend_ips_map EXCEPT ![a] = k]
  /\ UNCHANGED <<config_map, backend_map>>

DeleteIp(a) ==
  /\ backend_ips_map' = [backend_ips_map EXCEPT ![a] = NULL]
  /\ UNCHANGED <<config_map, backend_map>>

MapsTypeOK ==
  /\ config_map \in lb_config
  /\ backend_map \in [Index -> backend_info]
  /\ backend_ips_map \in [Addr -> Index \cup {NULL}]
  /\ todo \in SUBSET (InfoFields \cup ConfigFields)
=============================================================================
