---------------------------- MODULE LoadBalancer ----------------------------
(***************************************************************************)
(* The load balancer at work: Pool.Sync rewrites the maps while the XDP    *)
(* programs translate a client's ICMP requests and the containers' replies.*)
(*                                                                         *)
(* The bridge and the containers are external: a translated request        *)
(* reaches the container whose MAC and address it carries, if there is     *)
(* one, and that container answers from its own address.  The answer       *)
(* enters the host on the container's veth, where xdp_veth_snat sees it if *)
(* it is attached.                                                         *)
(***************************************************************************)
EXTENDS Pool, XdpLb

CONSTANT MaxPackets   \* bound: frames the client sends

ASSUME LBAssumption == MaxPackets \in Nat

VARIABLES
  sent,       \* frames the client has sent
  replies,    \* answers the containers have yet to put on the wire
  client,     \* source addresses of the answers the client has received
  window,     \* history, per CPU: backends of p.backends or of a running Sync
              \* at some moment since the ingress program started
  early,      \* history, per CPU: the request came before the VIP was written
  churned     \* history: some Sync dropped, replaced or moved a backend, or
              \* a container the pool does not list took a backend's place

envVars == <<sent, replies, client, window, early, churned>>
lbVars == <<vars, xdpVars, envVars>>

Members(list) == {list[n] : n \in 1 .. Len(list)}
Containers == UNION {Members(l) : l \in Lists}

LBInit ==
  /\ Init
  /\ XdpInit
  /\ sent = 0
  /\ replies = {}
  /\ client = {}
  /\ window = [c \in CPU |-> {}]
  /\ early = [c \in CPU |-> FALSE]
  /\ churned = FALSE

-----------------------------------------------------------------------------
(* The control plane. *)
Extends(list, old) == Len(old) <= Len(list) /\ SubSeq(list, 1, Len(old)) = old

StartSync(list) ==
  /\ SyncBegin(list)
  /\ window' = [c \in CPU |-> window[c] \cup Members(list)]
  /\ churned' = (churned \/ ~Extends(list, backends))
  /\ UNCHANGED <<xdpVars, sent, replies, client, early>>

RunSync ==
  /\ SyncStep \/ SyncFault
  /\ UNCHANGED <<xdpVars, envVars>>

(* The data plane on CPU c. *)
ClientSends(c, req) ==
  /\ sent < MaxPackets
  /\ Ingress(c, req)
  /\ sent' = sent + 1
  /\ window' = [window EXCEPT ![c] = Members(backends) \cup Members(newBackends)]
  /\ early' = [early EXCEPT ![c] = config_map.vip # VIP]
  /\ UNCHANGED <<vars, replies, client, churned>>

RunXdp(c) ==
  /\ IngressStep(c) \/ RewriteSaddr(c)
  /\ UNCHANGED <<vars, envVars>>

(* The bridge hands a request to the container that has its MAC and        *)
(* address at that moment, or nobody takes it.  The taker may be unknown   *)
(* to the pool: a container that was restarted with its address and MAC    *)
(* has a new veth until the next Sync.                                     *)
Takers(f) == {b \in Containers : b.MAC = f.h_dest /\ b.IP = f.daddr}

Deliver(c) ==
  LET f == prog[c].frame IN
  /\ prog[c].at = "out"
  /\ f.saddr = Client
  /\ \/ \E b \in Takers(f) :
          /\ replies' = replies \cup {[from |-> b, early |-> early[c]]}
          /\ churned' = (churned \/ b \notin Members(backends) \cup Members(newBackends))
     \/ UNCHANGED <<replies, churned>>
  /\ prog' = [prog EXCEPT ![c] = Idle]
  /\ UNCHANGED <<vars, counters_map, sent, client, window, early>>

(* A container's answer enters its veth, with or without the program. *)
ContainerReplies(c, r) ==
  /\ \/ /\ r.from.VethName \in vethLinks
        /\ Snat(c, r.from.IP)
     \/ /\ r.from.VethName \notin vethLinks
        /\ prog[c].at = "idle"
        /\ prog' = [prog EXCEPT ![c] =
             [at |-> "out", dst |-> Client, idx |-> 0, frame |-> Reply(r.from.IP)]]
        /\ UNCHANGED counters_map
  /\ replies' = replies \ {r}
  /\ early' = [early EXCEPT ![c] = r.early]
  /\ UNCHANGED <<vars, sent, client, window, churned>>

ClientReceives(c) ==
  /\ prog[c].at = "out"
  /\ prog[c].frame.daddr = Client
  /\ client' = IF early[c] THEN client ELSE client \cup {prog[c].frame.saddr}
  /\ prog' = [prog EXCEPT ![c] = Idle]
  /\ UNCHANGED <<vars, counters_map, sent, replies, window, early, churned>>

LBNext ==
  \/ \E list \in Lists : StartSync(list)
  \/ RunSync
  \/ \E c \in CPU :
       \/ \E req \in Requests : ClientSends(c, req)
       \/ RunXdp(c)
       \/ Deliver(c)
       \/ \E r \in replies : ContainerReplies(c, r)
       \/ ClientReceives(c)

LBSpec == LBInit /\ [][LBNext]_lbVars

-----------------------------------------------------------------------------
(* The types of the whole system.  A program that has passed the lookup    *)
(* holds an index inside backend_map, even if backend_count became zero    *)
(* between its two loads.                                                  *)
LBTypeOK ==
  /\ TypeOK
  /\ XdpTypeOK
  /\ sent \in 0 .. MaxPackets
  /\ replies \subseteq [from : Containers, early : BOOLEAN]
  /\ client \subseteq Addr \cup {VIP}
  /\ window \in [CPU -> SUBSET Containers]
  /\ early \in [CPU -> BOOLEAN]
  /\ churned \in BOOLEAN

(* The request on CPU c has been rewritten by xdp_lb_ingress. *)
Translated(c) ==
  /\ prog[c].at = "out"
  /\ prog[c].frame.saddr = Client
  /\ prog[c].frame.h_dest # Host

(* As long as no Sync fails, xdp_lb_ingress sends a request only to an     *)
(* address and a MAC of backends that were in the pool, or in the list     *)
(* being synced, while it ran, or to the zeroes of a slot that Sync clears *)
(* under it: a backend that a completed Sync removed is never chosen       *)
(* again, even by a program that races with a later Sync or loads a        *)
(* backend_count that has just become zero.                                *)
TargetsAreListed ==
  \A c \in CPU : Translated(c) /\ ~failedOnce =>
    /\ prog[c].frame.daddr \in {Zero} \cup {b.IP : b \in window[c]}
    /\ prog[c].frame.h_dest \in {Zero} \cup {b.MAC : b \in window[c]}

(* Once the VIP has been written, only frames addressed to the VIP are     *)
(* translated, whatever Sync writes meanwhile.                             *)
OnlyVipTranslated ==
  \A c \in CPU : Translated(c) /\ VIP # Zero /\ ~early[c] => prog[c].dst = VIP

(* As long as Syncs only append backends, and every request is taken by a  *)
(* container that the pool lists, every answer to a request that came      *)
(* after the VIP was written reaches the client with the VIP as its        *)
(* source: growing the pool is invisible to clients, also if some of these *)
(* Syncs fail half way.                                                    *)
GrowthIsSeamless == ~churned /\ VIP # Zero => client \subseteq {VIP}

(* "... so the data plane only ever sees a consistent snapshot": the MAC   *)
(* and the address xdp_lb_ingress writes into a frame are those of one     *)
(* backend.                                                                *)
ConsistentSnapshot ==
  \A c \in CPU : Translated(c) =>
    \E b \in Containers : prog[c].frame.h_dest = b.MAC /\ prog[c].frame.daddr = b.IP

(* "Replies are transparently rewritten so clients only ever see the VIP." *)
ClientSeesOnlyVip == VIP # Zero => client \subseteq {VIP}
=============================================================================
