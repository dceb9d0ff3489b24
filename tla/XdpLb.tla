------------------------------- MODULE XdpLb -------------------------------
(***************************************************************************)
(* The two XDP programs of kernelspace/xdp_lb.c, one run at a time on each *)
(* CPU.  A program holds pointers into the array maps, not copies: every   *)
(* load it makes through them is a step of its own, and the control plane  *)
(* may write between any two.  The object the repository ships loads       *)
(* backend_count twice (lines 97 and 105) and ipv4 twice (lines 108 and    *)
(* 117), and so does the model.                                            *)
(*                                                                         *)
(* prog[c].at is what the program on CPU c does next:                      *)
(*   vip, pick, lookup, mac, addr   the loads of xdp_lb_ingress, in order  *)
(*   snat                           the config load of xdp_veth_snat       *)
(*   out                            it has returned XDP_PASS               *)
(*   idle                           no program, no frame                   *)
(* A frame is reduced to the addresses the programs compare or rewrite;    *)
(* the IP checksum, rewritten along with them, is not represented here.    *)
(***************************************************************************)
EXTENDS BpfMaps

CONSTANTS
  CPU,
  Client,     \* the client's address
  Host,       \* the MAC a client's frame arrives with
  Other       \* a destination address that is not the VIP

ASSUME XdpAssumption ==
  /\ CPU # {}
  /\ Host \notin Mac \cup {Zero}
  /\ Client \notin Addr \cup {VIP, Zero}
  /\ Other \notin Addr \cup {VIP, Zero, Client}

VARIABLES
  counters_map,   \* CPU -> index -> rx_packets (rx_bytes moves with it)
  prog            \* the program on each CPU and the frame it works on

xdpVars == <<counters_map, prog>>

NoFrame == [saddr |-> NULL, daddr |-> NULL, h_dest |-> NULL]
Idle == [at |-> "idle", dst |-> NULL, idx |-> 0, frame |-> NoFrame]

(* A client's frame: icmp says that it passes the parsing and bounds       *)
(* checks at the head of xdp_lb_ingress (IPv4, ICMP, complete headers).    *)
Requests == [icmp : BOOLEAN, daddr : {VIP, Other}]

XdpInit ==
  /\ counters_map = [c \in CPU |-> [k \in Index |-> 0]]
  /\ prog = [c \in CPU |-> Idle]

-----------------------------------------------------------------------------
(* xdp_lb_ingress: parse, then the first load of backend_count. *)
Ingress(c, req) ==
  /\ prog[c].at = "idle"
  /\ prog' = [prog EXCEPT ![c] =
       [at |-> IF req.icmp /\ config_map.backend_count > 0 THEN "vip" ELSE "out",
        dst |-> req.daddr,
        idx |-> 0,
        frame |-> [saddr |-> Client, daddr |-> req.daddr, h_dest |-> Host]]]
  /\ UNCHANGED counters_map

(* Variant of MatchVip for the sensitivity runs: no destination filter. *)
MatchAnything(c) ==
  /\ prog[c].at = "vip"
  /\ prog' = [prog EXCEPT ![c].at = "pick"]
  /\ UNCHANGED counters_map

(* The VIP filter; a VIP of 0.0.0.0 accepts every destination. *)
MatchVip(c) ==
  /\ prog[c].at = "vip"
  /\ prog' = [prog EXCEPT ![c].at =
       IF config_map.vip \in {Zero, prog[c].frame.daddr} THEN "pick" ELSE "out"]
  /\ UNCHANGED counters_map

(* bpf_get_prandom_u32; any value past the array stands for all of them. *)
Random == 0 .. MAX_BACKENDS

(* A BPF modulo by zero leaves its left operand as it is. *)
Modulo(r, n) == IF n = 0 THEN r ELSE r % n

(* The second load of backend_count. *)
Pick(c) ==
  /\ prog[c].at = "pick"
  /\ \E r \in Random :
       prog' = [prog EXCEPT ![c].at = "lookup",
                            ![c].idx = Modulo(r, config_map.backend_count)]
  /\ UNCHANGED counters_map

(* Variant of Lookup: a failed lookup is not noticed. *)
LookupUnchecked(c) ==
  LET hit == InArray(prog[c].idx) => backend_map[prog[c].idx].ipv4 # Zero IN
  /\ prog[c].at = "lookup"
  /\ prog' = [prog EXCEPT ![c].at = IF hit THEN "mac" ELSE "out"]
  /\ UNCHANGED counters_map

(* The lookup in backend_map and the first load of ipv4. *)
Lookup(c) ==
  LET hit == InArray(prog[c].idx) /\ backend_map[prog[c].idx].ipv4 # Zero IN
  /\ prog[c].at = "lookup"
  /\ prog' = [prog EXCEPT ![c].at = IF hit THEN "mac" ELSE "out"]
  /\ UNCHANGED counters_map

RewriteMac(c) ==
  /\ prog[c].at = "mac"
  /\ prog' = [prog EXCEPT ![c].at = "addr",
                          ![c].frame.h_dest = backend_map[prog[c].idx].mac]
  /\ UNCHANGED counters_map

(* The second load of ipv4, and this CPU's counters. *)
RewriteDaddr(c) ==
  /\ prog[c].at = "addr"
  /\ prog' = [prog EXCEPT ![c].at = "out",
                          ![c].frame.daddr = backend_map[prog[c].idx].ipv4]
  /\ counters_map' = [counters_map EXCEPT ![c][prog[c].idx] = @ + 1]

IngressStep(c) ==
  MatchVip(c) \/ Pick(c) \/ Lookup(c) \/ RewriteMac(c) \/ RewriteDaddr(c)

-----------------------------------------------------------------------------
(* xdp_veth_snat on an ICMP reply of a container to the client: the        *)
(* reverse lookup, then the load of the VIP (loaded once, line 177).  Such *)
(* a reply passes the parsing and protocol checks; other frames pass       *)
(* unchanged there and containers send none here.                          *)
Reply(a) == [saddr |-> a, daddr |-> Client, h_dest |-> Host]

Snat(c, a) ==
  /\ prog[c].at = "idle"
  /\ prog' = [prog EXCEPT ![c] =
       [at |-> IF backend_ips_map[a] # NULL THEN "snat" ELSE "out",
        dst |-> Client, idx |-> 0, frame |-> Reply(a)]]
  /\ UNCHANGED counters_map

RewriteSaddr(c) ==
  /\ prog[c].at = "snat"
  /\ prog' = [prog EXCEPT ![c].at = "out",
                          ![c].frame.saddr = IF config_map.vip = Zero THEN @
                                             ELSE config_map.vip]
  /\ UNCHANGED counters_map

XdpTypeOK ==
  /\ counters_map \in [CPU -> [Index -> Nat]]
  /\ \A c \in CPU :
       /\ prog[c].at \in {"idle", "vip", "pick", "lookup", "mac", "addr", "snat", "out"}
       /\ prog[c].dst \in {VIP, Other, Client, NULL}
       /\ prog[c].idx \in Random
       /\ prog[c].at \in {"mac", "addr"} => prog[c].idx \in Index
       /\ prog[c].frame \in [saddr : Addr \cup {VIP, Client, NULL},
                             daddr : Addr \cup {VIP, Other, Client, Zero, NULL},
                             h_dest : Mac \cup {Host, Zero, NULL}]
=============================================================================
