------------------------- MODULE LoadBalancerProofs -------------------------
(***************************************************************************)
(* Proofs about the XDP programs running against Pool.Sync, for every      *)
(* number of CPUs, every set of lists and every choice of failing calls.   *)
(***************************************************************************)
EXTENDS LoadBalancer, PoolProofs

(* The types the arguments below rest on. *)
ProgOK ==
  /\ prog \in [CPU -> Program]
  /\ \A c \in CPU : prog[c].at \in {"mac", "addr"} => prog[c].idx \in Index
  /\ early \in [CPU -> BOOLEAN]
  /\ window \in [CPU -> SUBSET Containers]
  /\ replies \subseteq [from : Containers, early : BOOLEAN]

(* Every step of the system is a step of the pool or leaves it alone. *)
LEMMA LBNextPool == [LBNext]_lbVars => [Next]_vars
  BY DEF LBNext, lbVars, StartSync, RunSync, ClientSends, RunXdp, Deliver, ContainerReplies, ClientReceives, Next

(* The containers are the backends of the lists. *)
LEMMA ContainerFacts ==
  /\ Containers \subseteq Backend
  /\ \A list \in Lists \cup {<<>>} : Members(list) \subseteq Containers
<1>1. ASSUME NEW l \in Lists PROVE Members(l) \subseteq Backend
  <2>1. l \in Seq(Backend)
    BY PoolAssumption
  <2>2. QED
    BY <2>1 DEF Members
<1>2. Members(<<>>) = {}
  BY DEF Members
<1>3. QED
  BY <1>1, <1>2 DEF Containers

(* Every step preserves ProgOK. *)
LEMMA NextProgOK == IInv /\ ProgOK /\ [LBNext]_lbVars => ProgOK'
<1> SUFFICES ASSUME IInv, ProgOK, [LBNext]_lbVars PROVE ProgOK'
  OBVIOUS
<1>1. CASE UNCHANGED lbVars
  BY <1>1 DEF lbVars, xdpVars, envVars, ProgOK
<1>2. CASE \E list \in Lists : StartSync(list)
  <2>1. PICK list \in Lists : StartSync(list)
    BY <1>2
  <2>2. window' \in [CPU -> SUBSET Containers]
    BY <2>1, ContainerFacts DEF StartSync, ProgOK
  <2>3. QED
    BY <2>1, <2>2 DEF StartSync, xdpVars, ProgOK
<1>3. CASE RunSync
  BY <1>3 DEF RunSync, xdpVars, envVars, ProgOK
<1>4. CASE \E c \in CPU : \E req \in Requests : ClientSends(c, req)
  <2>1. PICK c \in CPU, req \in Requests : ClientSends(c, req)
    BY <1>4
  <2>2. prog' = [prog EXCEPT ![c] =
          [at |-> IF req.icmp /\ config_map.backend_count > 0 THEN "vip" ELSE "out",
           dst |-> req.daddr, idx |-> 0,
           frame |-> [saddr |-> Client, daddr |-> req.daddr, h_dest |-> Host]]]
    BY <2>1 DEF ClientSends, Ingress
  <2>3. req.daddr \in {VIP, Other} /\ 0 \in Random
    BY MapAssumption DEF Requests, Random
  <2>4. prog' \in [CPU -> Program] /\ \A d \in CPU : prog'[d].at \in {"mac", "addr"} => prog'[d].idx \in Index
    BY <2>2, <2>3, Zenon DEF ProgOK, Program, Frame, Ats
  <2>5. window' \in [CPU -> SUBSET Containers]
    BY <2>1, ContainerFacts DEF ClientSends, ProgOK, IInv, TypeOK
  <2>6. early' \in [CPU -> BOOLEAN] /\ replies' = replies
    BY <2>1, Zenon DEF ClientSends, ProgOK
  <2>7. QED
    BY <2>4, <2>5, <2>6 DEF ProgOK
<1>5. CASE \E c \in CPU : RunXdp(c)
  <2>1. PICK c \in CPU : RunXdp(c)
    BY <1>5
  <2>2. /\ prog'[c] \in Program
        /\ prog'[c].at \in {"mac", "addr"} => prog'[c].idx \in Index
        /\ prog' = [prog EXCEPT ![c] = prog'[c]]
    BY <2>1, IngressStepOK, Zenon DEF RunXdp, ProgOK, IInv, TypeOK
  <2>3. QED
    BY <2>1, <2>2, Zenon DEF RunXdp, envVars, ProgOK
<1>6. CASE \E c \in CPU : Deliver(c)
  <2>1. PICK c \in CPU : Deliver(c)
    BY <1>6
  <2>2. Idle \in Program /\ Idle.at = "idle"
    BY MapAssumption DEF Idle, NoFrame, Program, Frame, Ats, Random
  <2>3. prog' \in [CPU -> Program] /\ \A d \in CPU : prog'[d].at \in {"mac", "addr"} => prog'[d].idx \in Index
    BY <2>1, <2>2, Zenon DEF Deliver, ProgOK
  <2>4. replies' \subseteq [from : Containers, early : BOOLEAN]
    BY <2>1 DEF Deliver, Takers, ProgOK
  <2>5. QED
    BY <2>1, <2>3, <2>4 DEF Deliver, ProgOK
<1>7. CASE \E c \in CPU : \E r \in replies : ContainerReplies(c, r)
  <2>1. PICK c \in CPU, r \in replies : ContainerReplies(c, r)
    BY <1>7
  <2>2. r.early \in BOOLEAN /\ r.from.IP \in Addr
    BY ContainerFacts, Zenon DEF ProgOK, Backend
  <2>3. \E at \in {"snat", "out"} :
          prog' = [prog EXCEPT ![c] = [at |-> at, dst |-> Client, idx |-> 0, frame |-> Reply(r.from.IP)]]
    BY <2>1 DEF ContainerReplies, Snat
  <2>4. Reply(r.from.IP) \in Frame /\ 0 \in Random
    BY <2>2, MapAssumption DEF Reply, Frame, Random
  <2>5. prog' \in [CPU -> Program] /\ \A d \in CPU : prog'[d].at \in {"mac", "addr"} => prog'[d].idx \in Index
    BY <2>3, <2>4 DEF ProgOK, Program, Ats
  <2>6. early' \in [CPU -> BOOLEAN] /\ window' = window /\ replies' \subseteq replies
    BY <2>1, <2>2, Zenon DEF ContainerReplies, ProgOK
  <2>7. QED
    BY <2>5, <2>6 DEF ProgOK
<1>8. CASE \E c \in CPU : ClientReceives(c)
  <2>1. PICK c \in CPU : ClientReceives(c)
    BY <1>8
  <2>2. Idle \in Program /\ Idle.at = "idle"
    BY MapAssumption DEF Idle, NoFrame, Program, Frame, Ats, Random
  <2>3. prog' \in [CPU -> Program] /\ \A d \in CPU : prog'[d].at \in {"mac", "addr"} => prog'[d].idx \in Index
    BY <2>1, <2>2 DEF ClientReceives, ProgOK
  <2>4. QED
    BY <2>1, <2>3 DEF ClientReceives, ProgOK
<1>9. QED
  BY <1>1, <1>2, <1>3, <1>4, <1>5, <1>6, <1>7, <1>8, Zenon DEF LBNext

(* The pool's invariants and the programs' types hold in the whole system. *)
LBInv == IInv /\ SlotsClean /\ ProgOK

LEMMA LBInvariance == LBSpec => []LBInv
<1>1. LBInit => LBInv
  <2> SUFFICES ASSUME LBInit PROVE LBInv
    OBVIOUS
  <2>1. IInv
    BY InitIInv DEF LBInit
  <2>2. SlotsClean
    BY DEF LBInit, Init, MapsInit, SlotsClean, ResidueSlots
  <2>3. Idle \in Program /\ Idle.at = "idle"
    BY MapAssumption DEF Idle, NoFrame, Program, Frame, Ats, Random
  <2>4. prog \in [CPU -> Program] /\ \A c \in CPU : prog[c].at = "idle"
    BY <2>3 DEF LBInit, XdpInit
  <2>5. early \in [CPU -> BOOLEAN] /\ window \in [CPU -> SUBSET Containers] /\ replies = {}
    BY Zenon DEF LBInit
  <2>6. QED
    BY <2>1, <2>2, <2>4, <2>5 DEF LBInv, ProgOK
<1>2. LBInv /\ [LBNext]_lbVars => LBInv'
  BY LBNextPool, NextIInv, NextSlotsClean, NextProgOK DEF LBInv
<1>3. QED
  BY <1>1, <1>2, PTL DEF LBSpec

-----------------------------------------------------------------------------
(* Why only frames to the VIP are translated: the destination MAC is the   *)
(* client's until the rewrite, and a request that is past the filter, and  *)
(* found the VIP written, is one to the VIP.                               *)
VipPast(c) ==
  /\ prog[c].at \in {"vip", "pick", "lookup", "mac", "snat"} => prog[c].frame.h_dest = Host
  /\ prog[c].at = "vip" => prog[c].frame.daddr = prog[c].dst
  /\ prog[c].at = "vip" /\ ~early[c] => config_map.vip = VIP
  /\ prog[c].at \in {"pick", "lookup", "mac", "addr"} /\ VIP # Zero /\ ~early[c] => prog[c].dst = VIP
  /\ Translated(c) /\ VIP # Zero /\ ~early[c] => prog[c].dst = VIP

VipInv == \A c \in CPU : VipPast(c)

(* Once the VIP is written, no step of Sync takes it back. *)
LEMMA VipStays == IInv /\ [Next]_vars /\ config_map.vip = VIP => config_map'.vip = VIP
<1> SUFFICES ASSUME IInv, [Next]_vars, config_map.vip = VIP PROVE config_map'.vip = VIP
  OBVIOUS
<1>1. CASE UpdateConfig
  BY <1>1 DEF UpdateConfig, CopyConfig, IInv, TypeOK, MapsTypeOK, lb_config
<1>2. CASE ~UpdateConfig
  BY <1>2, Zenon DEF Next, SyncStep, SyncFault, SyncBegin, ClearSlot, ClearIp, UpdateSlot, UpdateIp,
     UpdateFails, AttachVeth, AttachVethFails, DetachVeth, DetachVethFails, Commit,
     CopyInfo, DeleteIp, PutIp, maps, vars
<1>3. QED
  BY <1>1, <1>2

(* A step that leaves a CPU's program and frame alone keeps VipPast. *)
LEMMA VipPastKept ==
  ASSUME IInv, [Next]_vars, NEW c \in CPU, VipPast(c), prog'[c] = prog[c], early'[c] = early[c]
  PROVE  VipPast(c)'
  BY VipStays DEF VipPast, Translated

(* One step of a program keeps VipPast on its CPU. *)
LEMMA VipPastStep ==
  ASSUME ProgOK, NEW c \in CPU, VipPast(c), IngressStep(c) \/ RewriteSaddr(c), UNCHANGED <<vars, envVars>>
  PROVE  VipPast(c)'
<1>1. prog \in [CPU -> Program] /\ prog[c] \in Program /\ early' = early /\ config_map' = config_map
  BY DEF ProgOK, envVars, vars, maps
<1>2. CASE MatchVip(c)
  <2>1. /\ prog[c].at = "vip"
        /\ prog'[c] = [prog[c] EXCEPT !.at = IF config_map.vip \in {Zero, prog[c].frame.daddr} THEN "pick" ELSE "out"]
    BY <1>1, <1>2 DEF MatchVip
  <2>2. prog'[c].frame = prog[c].frame /\ prog'[c].dst = prog[c].dst /\ prog'[c].at \in {"pick", "out"}
    BY <1>1, <2>1 DEF Program
  <2>3. prog'[c].at = "pick" => config_map.vip \in {Zero, prog[c].frame.daddr}
    BY <1>1, <2>1, Zenon DEF Program
  <2>4. QED
    BY <1>1, <2>1, <2>2, <2>3, Zenon DEF VipPast, Translated
<1>3. CASE Pick(c) \/ Lookup(c)
  <2>1. /\ prog'[c].frame = prog[c].frame /\ prog'[c].dst = prog[c].dst
        /\ prog[c].at \in {"pick", "lookup"} /\ prog'[c].at \in {"lookup", "mac", "out"}
    BY <1>1, <1>3 DEF Pick, Lookup, Program
  <2>2. QED
    BY <1>1, <2>1 DEF VipPast, Translated
<1>4. CASE RewriteMac(c) \/ RewriteDaddr(c)
  <2>1. /\ prog'[c].dst = prog[c].dst
        /\ prog[c].at \in {"mac", "addr"} /\ prog'[c].at \in {"addr", "out"}
    BY <1>1, <1>4 DEF RewriteMac, RewriteDaddr, Program
  <2>2. QED
    BY <1>1, <2>1, Zenon DEF VipPast, Translated
<1>5. CASE RewriteSaddr(c)
  <2>1. /\ prog[c].at = "snat" /\ prog'[c].at = "out"
        /\ prog'[c].frame.h_dest = prog[c].frame.h_dest
    BY <1>1, <1>5 DEF RewriteSaddr, Program, Frame
  <2>2. QED
    BY <2>1 DEF VipPast, Translated
<1>6. QED
  BY <1>2, <1>3, <1>4, <1>5 DEF IngressStep

(* Every step of the system keeps it on every CPU. *)
LEMMA NextVipInv == LBInv /\ VipInv /\ [LBNext]_lbVars => VipInv'
<1> SUFFICES ASSUME LBInv, VipInv, [LBNext]_lbVars, NEW d \in CPU PROVE VipPast(d)'
  BY DEF VipInv
<1> USE DEF LBInv
<1>0. [Next]_vars /\ VipPast(d) /\ prog \in [CPU -> Program]
  BY LBNextPool, Zenon DEF VipInv, ProgOK
<1>1. CASE prog'[d] = prog[d] /\ early'[d] = early[d]
  BY <1>0, <1>1, VipPastKept, Zenon
<1>2. CASE UNCHANGED lbVars \/ RunSync \/ \E list \in Lists : StartSync(list)
  BY <1>1, <1>2 DEF lbVars, xdpVars, envVars, RunSync, StartSync
<1>3. ASSUME NEW c \in CPU, NEW req \in Requests, ClientSends(c, req) PROVE VipPast(d)'
  <2>1. CASE c # d
    BY <1>0, <1>1, <1>3, <2>1, Zenon DEF ClientSends, Ingress, ProgOK
  <2>2. CASE c = d
    <3>1. /\ prog'[d].at \in {"vip", "out"} /\ prog'[d].dst = prog'[d].frame.daddr
          /\ prog'[d].frame.h_dest = Host
      BY <1>0, <1>3, <2>2 DEF ClientSends, Ingress
    <3>2. ~early'[d] => config_map.vip = VIP
      BY <1>3, <2>2, Zenon DEF ClientSends, ProgOK
    <3>3. config_map' = config_map
      BY <1>3 DEF ClientSends, vars, maps
    <3>4. QED
      BY <3>1, <3>2, <3>3, Zenon DEF VipPast, Translated
  <2>3. QED
    BY <2>1, <2>2, Zenon
<1>4. ASSUME NEW c \in CPU, RunXdp(c) PROVE VipPast(d)'
  <2>1. CASE c # d
    <3>1. prog'[d] = prog[d] /\ early' = early
      BY <1>0, <1>4, <2>1 DEF RunXdp, envVars, IngressStep, MatchVip, Pick, Lookup, RewriteMac, RewriteDaddr, RewriteSaddr
    <3>2. QED
      BY <1>1, <3>1, Zenon
  <2>2. CASE c = d
    BY <1>0, <1>4, <2>2, VipPastStep, Zenon DEF RunXdp
  <2>3. QED
    BY <2>1, <2>2
<1>5. ASSUME NEW c \in CPU, Deliver(c) \/ ClientReceives(c) PROVE VipPast(d)'
  <2>1. early' = early /\ prog' = [prog EXCEPT ![c] = Idle]
    BY <1>5 DEF Deliver, ClientReceives
  <2>2. CASE c # d
    BY <1>0, <1>1, <2>1, <2>2, Zenon
  <2>3. CASE c = d
    <3>1. prog'[d].at = "idle"
      BY <1>0, <2>1, <2>3 DEF Idle
    <3>2. QED
      BY <3>1 DEF VipPast, Translated
  <2>4. QED
    BY <2>2, <2>3
<1>6. ASSUME NEW c \in CPU, NEW r \in replies, ContainerReplies(c, r) PROVE VipPast(d)'
  <2>1. \E at \in {"snat", "out"} :
          prog' = [prog EXCEPT ![c] = [at |-> at, dst |-> Client, idx |-> 0, frame |-> Reply(r.from.IP)]]
    BY <1>6, Zenon DEF ContainerReplies, Snat
  <2>2. CASE c # d
    BY <1>0, <1>1, <1>6, <2>1, <2>2, Zenon DEF ContainerReplies, ProgOK
  <2>3. CASE c = d
    <3>1. prog'[d].at \in {"snat", "out"} /\ prog'[d].frame.h_dest = Host
      BY <1>0, <2>1, <2>3 DEF Reply
    <3>2. QED
      BY <3>1, Zenon DEF VipPast, Translated
  <2>4. QED
    BY <2>2, <2>3, Zenon
<1>7. QED
  BY <1>2, <1>3, <1>4, <1>5, <1>6 DEF LBNext

(* Once the VIP has been written, xdp_lb_ingress translates only requests  *)
(* to the VIP, on every CPU and whatever Sync is writing meanwhile.        *)
THEOREM VipFilter == LBSpec => []OnlyVipTranslated
<1>1. LBInit => VipInv
  <2> SUFFICES ASSUME LBInit, NEW c \in CPU PROVE VipPast(c)
    BY DEF VipInv
  <2>1. prog[c].at = "idle"
    BY Zenon DEF LBInit, XdpInit, Idle
  <2>2. QED
    BY <2>1 DEF VipPast, Translated
<1>2. VipInv => OnlyVipTranslated
  BY DEF VipInv, VipPast, OnlyVipTranslated
<1>3. QED
  BY LBInvariance, NextVipInv, <1>1, <1>2, PTL DEF LBSpec

-----------------------------------------------------------------------------
(* While no Sync has failed, the fields of every slot, counted or not, are *)
(* zero or those of a backend of the old or of the new list.               *)
Current == Members(backends) \cup Members(newBackends)

SlotListed ==
  /\ err => failedOnce
  /\ ~failedOnce => \A k \in Index :
       /\ backend_map[k].ipv4 = Zero \/ \E b \in Current : backend_map[k].ipv4 = b.IP
       /\ backend_map[k].mac = Zero \/ \E b \in Current : backend_map[k].mac = b.MAC

(* The backend at an index is a member of its list. *)
LEMMA AtMember ==
  ASSUME NEW list \in Lists \cup {<<>>}, NEW k \in Nat, k < Len(list)
  PROVE  At(list, k) \in Members(list)
<1>1. Len(list) \in Nat
  BY ListFacts
<1>2. k + 1 \in 1 .. Len(list)
  BY <1>1
<1>3. QED
  BY <1>2 DEF At, Members

(* Every step of Sync keeps SlotListed. *)
LEMMA NextSlotListed == IInv /\ IInv' /\ SlotsClean' /\ SlotListed /\ [Next]_vars => SlotListed'
<1> SUFFICES ASSUME IInv, IInv', SlotsClean', SlotListed, [Next]_vars PROVE SlotListed'
  OBVIOUS
<1>1. err' => failedOnce'
  BY Zenon DEF SlotListed, Next, SyncStep, SyncFault, SyncBegin, ClearSlot, ClearIp, UpdateSlot, UpdateIp, UpdateFails,
     AttachVeth, AttachVethFails, DetachVeth, DetachVethFails, UpdateConfig, Commit, Return, vars, poolVars
<1>2. failedOnce => failedOnce'
  BY Zenon DEF Next, SyncStep, SyncFault, SyncBegin, ClearSlot, ClearIp, UpdateSlot, UpdateIp, UpdateFails,
     AttachVeth, AttachVethFails, DetachVeth, DetachVethFails, UpdateConfig, Commit, Return, vars, poolVars
<1> SUFFICES ASSUME ~failedOnce', NEW k \in Index
             PROVE  /\ backend_map'[k].ipv4 = Zero \/ \E b \in Current' : backend_map'[k].ipv4 = b.IP
                    /\ backend_map'[k].mac = Zero \/ \E b \in Current' : backend_map'[k].mac = b.MAC
  BY <1>1, Zenon DEF SlotListed
<1>3. k \in Nat /\ i \in Nat /\ MAX_BACKENDS \in Nat
  BY MapAssumption DEF IInv, TypeOK, Index
<1>4. /\ backend_map[k].ipv4 = Zero \/ \E b \in Current : backend_map[k].ipv4 = b.IP
      /\ backend_map[k].mac = Zero \/ \E b \in Current : backend_map[k].mac = b.MAC
  BY <1>2, Zenon DEF SlotListed
<1>5. CASE Commit
  <2>1. /\ backends' = newBackends /\ pc' = "idle" /\ ~err'
        /\ backend_map' = backend_map /\ newBackends \in Lists \cup {<<>>} /\ Len(newBackends) \in Nat
        /\ newBackends' = <<>>
    BY <1>5, ListFacts, Zenon DEF Commit, Return, maps, IInv, TypeOK
  <2>2. CASE k < Len(newBackends)
    <3>1. backend_map'[k] = Info(At(newBackends, k))
      BY <2>1, <2>2 DEF IInv, SyncedExactly
    <3>2. At(newBackends, k) \in Current'
      BY <1>3, <2>1, <2>2, AtMember DEF Current, Members
    <3>3. backend_map'[k].ipv4 = At(newBackends, k).IP /\ backend_map'[k].mac = At(newBackends, k).MAC
      BY <3>1 DEF Info
    <3>4. QED
      BY <3>2, <3>3, Zenon
  <2>3. CASE k >= Len(newBackends)
    <3>1. backend_map'[k] = ZeroInfo
      BY <1>3, <2>1, <2>3 DEF SlotsClean, ResidueSlots, ZeroInfo
    <3>2. QED
      BY <3>1 DEF ZeroInfo
  <2>4. QED
    BY <1>3, <2>1, <2>2, <2>3
<1>6. CASE ClearSlot \/ UpdateSlot
  <2>1. Current' = Current
    BY <1>6, Zenon DEF ClearSlot, UpdateSlot, poolVars, Current, Members
  <2>2. \/ backend_map'[k].ipv4 = backend_map[k].ipv4
        \/ backend_map'[k].ipv4 = Zero
        \/ k = i /\ pc = "update" /\ backend_map'[k].ipv4 = At(newBackends, i).IP
    BY <1>6 DEF ClearSlot, UpdateSlot, CopyInfo, ZeroInfo, Info, IInv, TypeOK, MapsTypeOK, backend_info
  <2>3. \/ backend_map'[k].mac = backend_map[k].mac
        \/ backend_map'[k].mac = Zero
        \/ k = i /\ pc = "update" /\ backend_map'[k].mac = At(newBackends, i).MAC
    BY <1>6 DEF ClearSlot, UpdateSlot, CopyInfo, ZeroInfo, Info, IInv, TypeOK, MapsTypeOK, backend_info
  <2>4. pc = "update" => At(newBackends, i) \in Current
    BY <1>3, AtMember, Zenon DEF IInv, TypeOK, SyncProgress, LoopPosition, Current
  <2>5. QED
    BY <1>4, <2>1, <2>2, <2>3, <2>4, Zenon
<1>7. CASE \E list \in Lists : SyncBegin(list)
  <2>1. backends' = backends /\ newBackends = <<>> /\ backend_map' = backend_map
    BY <1>7, Zenon DEF SyncBegin, maps, IInv, SyncProgress, LoopPosition
  <2>2. Current \subseteq Current'
    BY <2>1 DEF Current, Members
  <2>3. QED
    BY <1>4, <2>1, <2>2, Zenon
<1>8. CASE ClearIp \/ UpdateIp \/ AttachVeth \/ UpdateConfig \/ (\E v \in Veth : DetachVeth(v)) \/ UNCHANGED vars
  <2>1. UNCHANGED <<backends, newBackends, backend_map>>
    BY <1>8, Zenon DEF ClearIp, UpdateIp, AttachVeth, UpdateConfig, DetachVeth, vars, poolVars, maps, PutIp, DeleteIp, CopyConfig
  <2>2. Current' = Current
    BY <2>1 DEF Current, Members
  <2>3. QED
    BY <1>4, <2>1, <2>2, Zenon
<1>9. ~(UpdateFails \/ SyncFault)
  BY Zenon DEF UpdateFails, SyncFault, AttachVethFails, DetachVethFails, Return
<1>10. QED
  BY <1>5, <1>6, <1>7, <1>8, <1>9, Zenon DEF Next, SyncStep

Ingressing == {"vip", "pick", "lookup", "mac", "addr"}

(* Why targets are listed: while xdp_lb_ingress runs, its window has the   *)
(* lists at hand, and what it has copied came from them.                   *)
WindowPast(c) ==
  /\ prog[c].at \in Ingressing => Current \subseteq window[c]
  /\ ~failedOnce /\ prog[c].at = "addr" =>
       prog[c].frame.h_dest \in {Zero} \cup {b.MAC : b \in window[c]}
  /\ ~failedOnce /\ Translated(c) =>
       /\ prog[c].frame.daddr \in {Zero} \cup {b.IP : b \in window[c]}
       /\ prog[c].frame.h_dest \in {Zero} \cup {b.MAC : b \in window[c]}

WindowInv == \A c \in CPU : WindowPast(c)

(* A run of Sync brings in no backend but those of the list it begins with. *)
LEMMA CurrentShrinks ==
  /\ SyncStep \/ SyncFault => Current' \subseteq Current
  /\ \A list \in Lists : SyncBegin(list) => Current' \subseteq Current \cup Members(list)
<1>1. ASSUME SyncStep \/ SyncFault PROVE Current' \subseteq Current
  <2>1. (backends' = backends \/ backends' = newBackends) /\ (newBackends' = newBackends \/ newBackends' = <<>>)
    BY <1>1, Zenon DEF SyncStep, SyncFault, ClearSlot, ClearIp, UpdateSlot, UpdateIp, UpdateFails,
       AttachVeth, AttachVethFails, DetachVeth, DetachVethFails, UpdateConfig, Commit, Return, poolVars
  <2>2. Members(<<>>) = {}
    BY DEF Members
  <2>3. Members(backends)' = Members(backends') /\ Members(newBackends)' = Members(newBackends')
    BY Zenon DEF Members
  <2>4. QED
    BY <2>1, <2>2, <2>3 DEF Current
<1>2. ASSUME NEW list \in Lists, SyncBegin(list) PROVE Current' \subseteq Current \cup Members(list)
  BY <1>2, Zenon DEF SyncBegin, Current, Members
<1>3. QED
  BY <1>1, <1>2

(* A step that leaves a CPU's program alone and only widens its window. *)
LEMMA WindowPastKept ==
  ASSUME NEW c \in CPU, WindowPast(c), prog'[c] = prog[c], window[c] \subseteq window'[c],
         Current' \subseteq Current \cup window'[c], failedOnce => failedOnce'
  PROVE  WindowPast(c)'
<1>1. prog'[c].at \in Ingressing => Current' \subseteq window'[c]
  BY Zenon DEF WindowPast
<1>2. ~failedOnce' /\ prog'[c].at = "addr" =>
        prog'[c].frame.h_dest \in {Zero} \cup {b.MAC : b \in window'[c]}
  BY Zenon DEF WindowPast
<1>3. ~failedOnce' /\ Translated(c)' =>
        /\ prog'[c].frame.daddr \in {Zero} \cup {b.IP : b \in window'[c]}
        /\ prog'[c].frame.h_dest \in {Zero} \cup {b.MAC : b \in window'[c]}
  BY DEF WindowPast, Translated
<1>4. QED
  BY <1>1, <1>2, <1>3, Zenon DEF WindowPast, Ingressing

(* One step of a program keeps WindowPast on its CPU. *)
LEMMA WindowPastStep ==
  ASSUME ProgOK, SlotListed, NEW c \in CPU, VipPast(c), WindowPast(c),
         IngressStep(c) \/ RewriteSaddr(c), UNCHANGED <<vars, envVars>>
  PROVE  WindowPast(c)'
<1> DEFINE k == prog[c].idx
<1>1. /\ prog \in [CPU -> Program] /\ prog[c] \in Program /\ UNCHANGED <<window, failedOnce, backends, newBackends>>
  BY Zenon DEF ProgOK, envVars, vars, poolVars
<1>2. Current' = Current
  BY <1>1, Zenon DEF Current, Members
<1>3. CASE MatchVip(c) \/ Pick(c) \/ Lookup(c)
  <2>1. /\ prog[c].at \in {"vip", "pick", "lookup"} /\ prog'[c].at \in {"pick", "lookup", "mac", "out"}
        /\ prog'[c].frame = prog[c].frame
    BY <1>1, <1>3 DEF MatchVip, Pick, Lookup, Program
  <2>2. prog'[c].frame.h_dest = Host
    BY <2>1, Zenon DEF VipPast
  <2>3. Current' \subseteq window'[c]
    BY <1>1, <1>2, <2>1 DEF WindowPast, Ingressing
  <2>4. QED
    BY <2>1, <2>2, <2>3 DEF WindowPast, Translated
<1>4. CASE RewriteMac(c)
  <2>1. /\ prog[c].at = "mac" /\ prog'[c].at = "addr" /\ prog'[c].frame.h_dest = backend_map[k].mac
    BY <1>1, <1>4 DEF RewriteMac, Program, Frame
  <2>2. k \in Index /\ Current \subseteq window[c]
    BY <2>1, Zenon DEF ProgOK, WindowPast, Ingressing
  <2>3. ~failedOnce => prog'[c].frame.h_dest \in {Zero} \cup {b.MAC : b \in window[c]}
    BY <2>1, <2>2, Zenon DEF SlotListed
  <2>4. QED
    BY <1>1, <1>2, <2>1, <2>2, <2>3, Zenon DEF WindowPast, Translated
<1>5. CASE RewriteDaddr(c)
  <2>1. /\ prog[c].at = "addr" /\ prog'[c].at = "out"
        /\ prog'[c].frame.h_dest = prog[c].frame.h_dest
        /\ prog'[c].frame.daddr = backend_map[k].ipv4
    BY <1>1, <1>5, Zenon DEF RewriteDaddr, Program, Frame
  <2>2. k \in Index /\ Current \subseteq window[c]
    BY <2>1, Zenon DEF ProgOK, WindowPast, Ingressing
  <2>3. ~failedOnce => prog'[c].frame.daddr \in {Zero} \cup {b.IP : b \in window[c]}
    BY <2>1, <2>2, Zenon DEF SlotListed
  <2>4. ~failedOnce => prog'[c].frame.h_dest \in {Zero} \cup {b.MAC : b \in window[c]}
    BY <2>1, Zenon DEF WindowPast
  <2>5. QED
    BY <1>1, <2>1, <2>3, <2>4, Zenon DEF WindowPast, Ingressing
<1>6. CASE RewriteSaddr(c)
  <2>1. prog[c].at = "snat" /\ prog'[c].at = "out" /\ prog'[c].frame.h_dest = prog[c].frame.h_dest
    BY <1>1, <1>6, Zenon DEF RewriteSaddr, Program, Frame
  <2>2. prog'[c].frame.h_dest = Host
    BY <2>1, Zenon DEF VipPast
  <2>3. QED
    BY <2>1, <2>2 DEF WindowPast, Translated, Ingressing
<1>7. QED
  BY <1>3, <1>4, <1>5, <1>6, Zenon DEF IngressStep

(* Every step of the system keeps it on every CPU. *)
LEMMA NextWindowInv == LBInv /\ VipInv /\ SlotListed /\ WindowInv /\ [LBNext]_lbVars => WindowInv'
<1> SUFFICES ASSUME LBInv, VipInv, SlotListed, WindowInv, [LBNext]_lbVars, NEW d \in CPU PROVE WindowPast(d)'
  BY DEF WindowInv
<1> USE DEF LBInv
<1>0. VipPast(d) /\ WindowPast(d) /\ prog \in [CPU -> Program] /\ window \in [CPU -> SUBSET Containers]
  BY DEF VipInv, WindowInv, ProgOK
<1>1. CASE UNCHANGED lbVars
  <2>1. /\ prog' = prog /\ window' = window /\ UNCHANGED <<backends, newBackends, failedOnce>>
    BY <1>1 DEF lbVars, xdpVars, envVars, vars, poolVars
  <2>2. Current' = Current
    BY <2>1, Zenon DEF Current, Members
  <2>3. QED
    BY <1>0, <2>1, <2>2, WindowPastKept, Zenon
<1>2. ASSUME NEW list \in Lists, StartSync(list) PROVE WindowPast(d)'
  <2>1. prog' = prog /\ window'[d] = window[d] \cup Members(list) /\ failedOnce' = failedOnce
    BY <1>2, Zenon DEF StartSync, SyncBegin, xdpVars
  <2>2. Current' \subseteq Current \cup window'[d]
    BY <1>2, <2>1, CurrentShrinks, Zenon DEF StartSync
  <2>3. QED
    BY <1>0, <2>1, <2>2, WindowPastKept, Zenon
<1>3. CASE RunSync
  <2>1. prog' = prog /\ window' = window /\ Current' \subseteq Current
    BY <1>3, CurrentShrinks DEF RunSync, xdpVars, envVars
  <2>2. failedOnce => failedOnce'
    BY <1>3, ZenonT(30) DEF RunSync, SyncStep, SyncFault, ClearSlot, ClearIp, UpdateSlot, UpdateIp, UpdateFails,
       AttachVeth, AttachVethFails, DetachVeth, DetachVethFails, UpdateConfig, Commit, Return, poolVars
  <2>3. QED
    BY <1>0, <2>1, <2>2, WindowPastKept, Zenon
<1>4. ASSUME NEW c \in CPU, UNCHANGED vars, c # d,
             prog'[d] = prog[d], window'[d] = window[d]
      PROVE  WindowPast(d)'
  <2>1. Current' = Current /\ failedOnce' = failedOnce
    BY <1>4 DEF vars, poolVars, Current, Members
  <2>2. QED
    BY <1>0, <1>4, <2>1, WindowPastKept, Zenon
<1>5. ASSUME NEW c \in CPU, NEW req \in Requests, ClientSends(c, req) PROVE WindowPast(d)'
  <2>1. CASE c # d
    <3>1. prog'[d] = prog[d] /\ window'[d] = window[d] /\ UNCHANGED vars
      BY <1>0, <1>5, <2>1, Zenon DEF ClientSends, Ingress
    <3>2. QED
      BY <1>4, <2>1, <3>1, Zenon
  <2>2. CASE c = d
    <3>1. prog'[d].at \in {"vip", "out"} /\ prog'[d].frame.h_dest = Host
      BY <1>0, <1>5, <2>2, Zenon DEF ClientSends, Ingress
    <3>2. window'[d] = Current
      BY <1>0, <1>5, <2>2 DEF ClientSends, Current
    <3>3. Current' = Current
      BY <1>5, Zenon DEF ClientSends, vars, poolVars, Current, Members
    <3>4. QED
      BY <3>1, <3>2, <3>3, Zenon DEF WindowPast, Translated
  <2>3. QED
    BY <2>1, <2>2, Zenon
<1>6. ASSUME NEW c \in CPU, RunXdp(c) PROVE WindowPast(d)'
  <2>1. CASE c # d
    <3>1. prog'[d] = prog[d] /\ window' = window /\ UNCHANGED vars
      BY <1>0, <1>6, <2>1, Zenon DEF RunXdp, envVars, IngressStep, MatchVip, Pick, Lookup, RewriteMac, RewriteDaddr, RewriteSaddr
    <3>2. QED
      BY <1>4, <2>1, <3>1, Zenon
  <2>2. CASE c = d
    BY <1>0, <1>6, <2>2, WindowPastStep, Zenon DEF RunXdp
  <2>3. QED
    BY <2>1, <2>2, Zenon
<1>7. ASSUME NEW c \in CPU, Deliver(c) \/ ClientReceives(c) PROVE WindowPast(d)'
  <2>1. window' = window /\ prog' = [prog EXCEPT ![c] = Idle] /\ UNCHANGED vars
    BY <1>7 DEF Deliver, ClientReceives
  <2>2. CASE c # d
    BY <1>0, <1>4, <2>1, <2>2, Zenon
  <2>3. CASE c = d
    <3>1. prog'[d].at = "idle"
      BY <1>0, <2>1, <2>3 DEF Idle
    <3>2. QED
      BY <3>1, Zenon DEF WindowPast, Translated, Ingressing
  <2>4. QED
    BY <2>2, <2>3
<1>8. ASSUME NEW c \in CPU, NEW r \in replies, ContainerReplies(c, r) PROVE WindowPast(d)'
  <2>1. /\ window' = window /\ UNCHANGED vars
        /\ \E at \in {"snat", "out"} :
             prog' = [prog EXCEPT ![c] = [at |-> at, dst |-> Client, idx |-> 0, frame |-> Reply(r.from.IP)]]
    BY <1>8, Zenon DEF ContainerReplies, Snat
  <2>2. CASE c # d
    BY <1>0, <1>4, <2>1, <2>2, Zenon
  <2>3. CASE c = d
    <3>1. prog'[d].at \in {"snat", "out"} /\ prog'[d].frame.h_dest = Host
      BY <1>0, <2>1, <2>3 DEF Reply
    <3>2. QED
      BY <3>1, Zenon DEF WindowPast, Translated, Ingressing
  <2>4. QED
    BY <2>2, <2>3, Zenon
<1>9. QED
  BY <1>1, <1>2, <1>3, <1>5, <1>6, <1>7, <1>8, Zenon DEF LBNext

(* As long as no Sync fails, a request goes only to an address and a MAC   *)
(* of backends that were in the pool, or in the list being synced, while   *)
(* xdp_lb_ingress ran, whatever it loads and whenever Sync writes.         *)
THEOREM TargetsListed == LBSpec => []TargetsAreListed
<1>1. LBInit => VipInv /\ SlotListed /\ WindowInv
  <2> SUFFICES ASSUME LBInit PROVE VipInv /\ SlotListed /\ WindowInv
    BY Zenon
  <2>1. \A c \in CPU : prog[c].at = "idle"
    BY Zenon DEF LBInit, XdpInit, Idle
  <2>2. VipInv /\ WindowInv
    BY <2>1, Zenon DEF VipInv, VipPast, WindowInv, WindowPast, Translated, Ingressing
  <2>3. SlotListed
    BY DEF LBInit, Init, MapsInit, SlotListed, ZeroInfo
  <2>4. QED
    BY <2>2, <2>3
<1>2. LBInv /\ LBInv' /\ SlotListed /\ [LBNext]_lbVars => SlotListed'
  BY LBNextPool, NextSlotListed, Zenon DEF LBInv
<1>3. WindowInv => TargetsAreListed
  BY DEF WindowInv, WindowPast, TargetsAreListed
<1>4. QED
  BY LBInvariance, NextVipInv, NextWindowInv, <1>1, <1>2, <1>3, PTL DEF LBSpec

-----------------------------------------------------------------------------
(* Why LBTypeOK holds of what the client receives: a request on its way    *)
(* through xdp_lb_ingress is not addressed to the client, and an answer    *)
(* leaves with a container's address or the VIP.                           *)
FramePast(c) ==
  /\ prog[c].at \in Ingressing => prog[c].frame.daddr \in {VIP, Other}
  /\ prog[c].at = "snat" => prog[c].frame.saddr \in Addr
  /\ prog[c].at = "out" /\ prog[c].frame.daddr = Client => prog[c].frame.saddr \in Addr \cup {VIP}

FrameInv ==
  /\ counters_map \in [CPU -> [Index -> Nat]]
  /\ sent \in 0 .. MaxPackets
  /\ churned \in BOOLEAN
  /\ client \subseteq Addr \cup {VIP}
  /\ \A c \in CPU : FramePast(c)

(* One step of a program keeps FramePast on its CPU. *)
LEMMA FramePastStep ==
  ASSUME MapsTypeOK, ProgOK, NEW c \in CPU, FramePast(c), IngressStep(c) \/ RewriteSaddr(c)
  PROVE  FramePast(c)'
<1>1. prog \in [CPU -> Program] /\ prog[c] \in Program
  BY Zenon DEF ProgOK
<1>2. CASE MatchVip(c) \/ Pick(c) \/ Lookup(c)
  <2>1. /\ prog[c].at \in {"vip", "pick", "lookup"} /\ prog'[c].at \in {"pick", "lookup", "mac", "out"}
        /\ prog'[c].frame = prog[c].frame
    BY <1>1, <1>2 DEF MatchVip, Pick, Lookup, Program
  <2>2. prog[c].frame.daddr \in {VIP, Other} /\ prog[c].frame.daddr # Client
    BY <2>1, XdpAssumption, Zenon DEF FramePast, Ingressing
  <2>3. QED
    BY <2>1, <2>2 DEF FramePast
<1>3. CASE RewriteMac(c)
  <2>1. prog[c].at = "mac" /\ prog'[c].at = "addr" /\ prog'[c].frame.daddr = prog[c].frame.daddr
    BY <1>1, <1>3, Zenon DEF RewriteMac, Program, Frame
  <2>2. QED
    BY <2>1 DEF FramePast, Ingressing
<1>4. CASE RewriteDaddr(c)
  <2>1. prog[c].at = "addr" /\ prog'[c].at = "out" /\ prog'[c].frame.daddr = backend_map[prog[c].idx].ipv4
    BY <1>1, <1>4, Zenon DEF RewriteDaddr, Program, Frame
  <2>2. prog'[c].frame.daddr \in Addr \cup {Zero}
    BY <2>1, Zenon DEF ProgOK, MapsTypeOK, backend_info
  <2>3. QED
    BY <2>1, <2>2, XdpAssumption, Zenon DEF FramePast, Ingressing
<1>5. CASE RewriteSaddr(c)
  <2>1. /\ prog[c].at = "snat" /\ prog'[c].at = "out"
        /\ prog'[c].frame.saddr = IF config_map.vip = Zero THEN prog[c].frame.saddr ELSE config_map.vip
    BY <1>1, <1>5 DEF RewriteSaddr, Program, Frame
  <2>2. config_map.vip \in {VIP, Zero}
    BY DEF MapsTypeOK, lb_config
  <2>3. QED
    BY <2>1, <2>2 DEF FramePast, Ingressing
<1>6. QED
  BY <1>2, <1>3, <1>4, <1>5, Zenon DEF IngressStep

(* The counters only count. *)
LEMMA CountersTyped ==
  ASSUME ProgOK, counters_map \in [CPU -> [Index -> Nat]], NEW c \in CPU,
         IngressStep(c) \/ RewriteSaddr(c)
  PROVE  counters_map' \in [CPU -> [Index -> Nat]]
<1>1. CASE RewriteDaddr(c)
  <2>1. prog[c].idx \in Index
    BY <1>1, Zenon DEF RewriteDaddr, ProgOK
  <2>2. QED
    BY <1>1, <2>1 DEF RewriteDaddr
<1>2. CASE ~RewriteDaddr(c)
  BY <1>2, Zenon DEF IngressStep, MatchVip, Pick, Lookup, RewriteMac, RewriteSaddr
<1>3. QED
  BY <1>1, <1>2, Zenon

(* Every step of the system keeps FrameInv. *)
LEMMA NextFrameInv == LBInv /\ FrameInv /\ [LBNext]_lbVars => FrameInv'
<1> SUFFICES ASSUME LBInv, FrameInv, [LBNext]_lbVars PROVE FrameInv'
  OBVIOUS
<1> USE DEF LBInv
<1>0. MapsTypeOK /\ prog \in [CPU -> Program] /\ MaxPackets \in Nat
  BY LBAssumption, Zenon DEF IInv, TypeOK, ProgOK
<1>1. ASSUME NEW d \in CPU, prog'[d] = prog[d] PROVE FramePast(d)'
  BY <1>1, Zenon DEF FrameInv, FramePast
<1>2. CASE UNCHANGED lbVars \/ RunSync \/ \E list \in Lists : StartSync(list)
  <2>1. UNCHANGED <<counters_map, prog, sent, client>> /\ churned' \in BOOLEAN
    BY <1>2, Zenon DEF lbVars, xdpVars, envVars, RunSync, StartSync, FrameInv
  <2>2. QED
    BY <1>1, <2>1 DEF FrameInv
<1>3. ASSUME NEW c \in CPU, NEW req \in Requests, ClientSends(c, req) PROVE FrameInv'
  <2>1. /\ UNCHANGED <<counters_map, client, churned>> /\ sent' = sent + 1 /\ sent < MaxPackets
        /\ prog' = [prog EXCEPT ![c] = prog'[c]]
        /\ prog'[c].at \in {"vip", "out"} /\ prog'[c].frame.daddr = req.daddr
    BY <1>0, <1>3, Zenon DEF ClientSends, Ingress
  <2>2. req.daddr \in {VIP, Other} /\ req.daddr # Client
    BY XdpAssumption, Zenon DEF Requests
  <2>3. FramePast(c)'
    BY <2>1, <2>2, Zenon DEF FramePast
  <2>4. \A d \in CPU : FramePast(d)'
    BY <1>0, <1>1, <2>1, <2>3, Zenon
  <2>5. QED
    BY <1>0, <2>1, <2>4 DEF FrameInv
<1>4. ASSUME NEW c \in CPU, RunXdp(c) PROVE FrameInv'
  <2>1. UNCHANGED <<sent, client, churned>> /\ prog' = [prog EXCEPT ![c] = prog'[c]]
    BY <1>0, <1>4, IngressStepOK, Zenon DEF RunXdp, envVars, ProgOK
  <2>2. FramePast(c)' /\ counters_map' \in [CPU -> [Index -> Nat]]
    BY <1>0, <1>4, FramePastStep, CountersTyped, Zenon DEF RunXdp, FrameInv
  <2>3. \A d \in CPU : FramePast(d)'
    BY <1>0, <1>1, <2>1, <2>2, Zenon
  <2>4. QED
    BY <2>1, <2>2, <2>3, Zenon DEF FrameInv
<1>5. ASSUME NEW c \in CPU, Deliver(c) \/ ClientReceives(c) PROVE FrameInv'
  <2>1. UNCHANGED <<counters_map, sent>> /\ churned' \in BOOLEAN /\ prog' = [prog EXCEPT ![c] = Idle]
    BY <1>5, ZenonT(30) DEF Deliver, ClientReceives, FrameInv
  <2>2. client' \subseteq Addr \cup {VIP}
    BY <1>5, Zenon DEF Deliver, ClientReceives, FrameInv, FramePast
  <2>3. prog'[c].at = "idle"
    BY <1>0, <2>1, Zenon DEF Idle
  <2>4. \A d \in CPU : FramePast(d)'
    BY <1>0, <1>1, <2>1, <2>3, Zenon DEF FramePast, Ingressing
  <2>5. QED
    BY <2>1, <2>2, <2>4 DEF FrameInv
<1>6. ASSUME NEW c \in CPU, NEW r \in replies, ContainerReplies(c, r) PROVE FrameInv'
  <2>1. UNCHANGED <<counters_map, sent, client, churned>>
    BY <1>6, Zenon DEF ContainerReplies, Snat
  <2>2. \E at \in {"snat", "out"} :
          prog' = [prog EXCEPT ![c] = [at |-> at, dst |-> Client, idx |-> 0, frame |-> Reply(r.from.IP)]]
    BY <1>6, ZenonT(30) DEF ContainerReplies, Snat
  <2>3. prog'[c].at \in {"snat", "out"} /\ prog'[c].frame.saddr = r.from.IP /\ r.from.IP \in Addr
    BY <1>0, <2>2, ContainerFacts DEF Reply, ProgOK, Backend
  <2>4. FramePast(c)' /\ \A d \in CPU \ {c} : prog'[d] = prog[d]
    BY <1>0, <2>2, <2>3, Zenon DEF FramePast, Ingressing
  <2>5. \A d \in CPU : FramePast(d)'
    BY <1>1, <2>4, Zenon
  <2>6. QED
    BY <2>1, <2>5, Zenon DEF FrameInv
<1>7. QED
  BY <1>2, <1>3, <1>4, <1>5, <1>6, Zenon DEF LBNext

LEMMA InitFrameInv == LBInit => FrameInv
<1> SUFFICES ASSUME LBInit PROVE FrameInv
  OBVIOUS
<1>1. counters_map \in [CPU -> [Index -> Nat]] /\ \A c \in CPU : prog[c].at = "idle"
  BY DEF LBInit, XdpInit, Idle
<1>2. sent \in 0 .. MaxPackets /\ client = {}
  BY LBAssumption DEF LBInit
<1>3. churned \in BOOLEAN
  BY Zenon DEF LBInit
<1>4. QED
  BY <1>1, <1>2, <1>3, Zenon DEF FrameInv, FramePast, Ingressing

(* The state of the whole system keeps its types: xdp_lb_ingress never     *)
(* writes through an index outside backend_map, and the client never gets  *)
(* an answer from an address that is neither a container's nor the VIP.    *)
THEOREM LBTypes == LBSpec => []LBTypeOK
<1>1. LBInv /\ FrameInv => LBTypeOK
  <2> SUFFICES ASSUME LBInv, FrameInv PROVE LBTypeOK
    BY Zenon
  <2>1. ASSUME NEW c \in CPU
        PROVE  /\ prog[c].at \in {"idle", "vip", "pick", "lookup", "mac", "addr", "snat", "out"}
               /\ prog[c].dst \in {VIP, Other, Client, NULL}
               /\ prog[c].idx \in Random
               /\ prog[c].at \in {"mac", "addr"} => prog[c].idx \in Index
               /\ prog[c].frame \in Frame
    BY Zenon DEF LBInv, ProgOK, Program, Ats
  <2>2. XdpTypeOK
    BY <2>1 DEF XdpTypeOK, FrameInv, Frame
  <2>3. QED
    BY <2>2 DEF LBTypeOK, LBInv, IInv, ProgOK, FrameInv
<1>2. QED
  BY LBInvariance, InitFrameInv, NextFrameInv, <1>1, PTL DEF LBSpec
=============================================================================
