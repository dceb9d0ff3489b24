---------------------------- MODULE GrowthProofs ----------------------------
(***************************************************************************)
(* Growing the pool is invisible to clients: what holds of the maps, the   *)
(* programs, the requests and their answers while Syncs only append.       *)
(***************************************************************************)
EXTENDS LoadBalancerProofs

(* Why growth is seamless: while Syncs only append, a translated request   *)
(* carries the address and the MAC of one backend of the list that is      *)
(* served, and an answer comes from one.                                   *)
GrowthPast(c) ==
  /\ ServedPast(c)
  /\ Translated(c) => \E k \in Index :
       /\ k < Len(Served)
       /\ prog[c].frame.daddr = At(Served, k).IP
       /\ prog[c].frame.h_dest = At(Served, k).MAC

FromServed(r) == \E k \in Index : k < Len(Served) /\ r.from = At(Served, k)

Growth ==
  /\ PoolGrown
  /\ \A c \in CPU : GrowthPast(c)
  /\ \A r \in replies : FromServed(r)

GrowthInv == ~churned => Growth

(* Until something is dropped, replaced or moved, a Sync that begins has a *)
(* list that extends p.backends.                                           *)
LEMMA BeginsGrowing ==
  ASSUME LBInv, [LBNext]_lbVars, ~churned'
  PROVE  ~churned /\ \A list \in Lists : SyncBegin(list) => Grows(backends, list)
<1>1. ~churned
  BY ZenonT(30) DEF LBNext, lbVars, envVars, StartSync, RunSync, ClientSends, RunXdp, Deliver, ContainerReplies, ClientReceives
<1>2. ASSUME NEW list \in Lists, SyncBegin(list) PROVE Grows(backends, list)
  <2>1. /\ pc = "idle" /\ pc' = Stage(list, 0) /\ newBackends' = list
    BY <1>2 DEF SyncBegin, GoTo
  <2>2. pc' # "idle"
    BY <2>1, StageFacts, ListFacts DEF LBInv, IInv, TypeOK
  <2>3. ~UNCHANGED vars
    BY <2>1, <2>2 DEF vars, poolVars
  <2>4. ~(SyncStep \/ SyncFault)
    BY <2>1, Zenon DEF SyncStep, SyncFault, ClearSlot, ClearIp, UpdateSlot, UpdateIp, UpdateFails,
       AttachVeth, AttachVethFails, DetachVeth, DetachVethFails, UpdateConfig, Commit
  <2>5. PICK l \in Lists : StartSync(l)
    BY <2>3, <2>4 DEF LBNext, lbVars, RunSync, ClientSends, RunXdp, Deliver, ContainerReplies, ClientReceives
  <2>6. l = list /\ Extends(l, backends)
    BY <2>1, <2>5, Zenon DEF StartSync, SyncBegin
  <2>7. QED
    BY <2>6, PrefixGrows DEF Extends, LBInv
<1>3. QED
  BY <1>1, <1>2

(* A backend at hand that has the address of a served one is that one. *)
LEMMA CurrentServed ==
  ASSUME IInv, PoolGrown, NEW b \in Current, NEW k \in Index, k < Len(Served), b.IP = At(Served, k).IP
  PROVE  b = At(Served, k)
<1>1. /\ Len(backends) \in Nat /\ Len(newBackends) \in Nat /\ MAX_BACKENDS \in Nat /\ k \in Nat
      /\ Len(backends) <= MAX_BACKENDS
      /\ backends \in Lists \cup {<<>>} /\ newBackends \in Lists \cup {<<>>}
  BY ListFacts, MapAssumption DEF IInv, TypeOK, Index
<1>2. pc = "idle" => newBackends = <<>>
  BY DEF IInv, SyncProgress, LoopPosition
<1>3. ASSUME NEW list \in {backends, newBackends}, b \in Members(list), k < Len(list), At(list, k) = At(Served, k)
      PROVE  b = At(Served, k)
  <2>1. PICK n \in 1 .. Len(list) : b = list[n]
    BY <1>3 DEF Members
  <2>2. n - 1 \in Nat /\ n - 1 < Len(list) /\ b = At(list, n - 1)
    BY <1>1, <2>1 DEF At
  <2>3. n - 1 = k
    BY <1>1, <1>3, <2>2, AddressFacts
  <2>4. QED
    BY <1>3, <2>2, <2>3
<1>4. CASE Served = newBackends /\ pc # "idle"
  <2>1. CASE b \in Members(newBackends)
    BY <1>3, <1>4, <2>1
  <2>2. CASE b \in Members(backends)
    <3>1. PICK n \in 1 .. Len(backends) : b = backends[n]
      BY <2>2 DEF Members
    <3>2. n - 1 \in Index /\ n - 1 < Len(backends) /\ b = At(backends, n - 1)
      BY <1>1, <3>1 DEF At, Index
    <3>3. b = At(newBackends, n - 1) /\ n - 1 < Len(newBackends)
      BY <1>1, <1>4, <3>2 DEF PoolGrown, Grows, Index
    <3>4. n \in 1 .. Len(newBackends) /\ b = newBackends[n]
      BY <1>1, <3>3 DEF At
    <3>5. b \in Members(newBackends)
      BY <3>4 DEF Members
    <3>6. QED
      BY <2>1, <3>5
  <2>3. QED
    BY <2>1, <2>2 DEF Current
<1>5. CASE Served = backends
  <2>1. CASE b \in Members(backends)
    BY <1>3, <1>5, <2>1
  <2>2. CASE b \in Members(newBackends)
    <3>1. pc # "idle"
      BY <1>2, <2>2 DEF Members
    <3>2. k < Len(newBackends) /\ At(newBackends, k) = At(Served, k)
      BY <1>1, <1>5, <3>1 DEF PoolGrown, Grows
    <3>3. QED
      BY <1>3, <2>2, <3>2
  <2>3. QED
    BY <2>1, <2>2 DEF Current
<1>6. QED
  BY <1>4, <1>5 DEF Served

(* A step that leaves the program on a CPU alone keeps GrowthPast there. *)
LEMMA GrowthPastKept ==
  ASSUME LBInv, LBInv', NEW c \in CPU, GrowthPast(c), prog'[c] = prog[c], Grows(Served, Served')
  PROVE  GrowthPast(c)'
<1>1. ServedPast(c)'
  BY ServedPastKept DEF LBInv, ProgOK, GrowthPast
<1>2. Len(Served) \in Nat /\ Len(Served') \in Nat
  <2>1. Len(backends) \in Nat /\ Len(newBackends) \in Nat /\ Len(backends') \in Nat /\ Len(newBackends') \in Nat
    BY ListFacts, Zenon DEF LBInv, IInv, TypeOK
  <2>2. QED
    BY <2>1 DEF Served
<1>3. ASSUME Translated(c)'
      PROVE  \E k \in Index : /\ k < Len(Served')
                              /\ prog'[c].frame.daddr = At(Served', k).IP
                              /\ prog'[c].frame.h_dest = At(Served', k).MAC
  <2>1. PICK k \in Index : /\ k < Len(Served)
                           /\ prog[c].frame.daddr = At(Served, k).IP
                           /\ prog[c].frame.h_dest = At(Served, k).MAC
    BY <1>3 DEF GrowthPast, Translated
  <2>2. k \in Nat
    BY MapAssumption DEF Index
  <2>3. k < Len(Served') /\ At(Served', k) = At(Served, k)
    BY <1>2, <2>1, <2>2 DEF Grows
  <2>4. QED
    BY <2>1, <2>3, Zenon
<1>4. QED
  BY <1>1, <1>3, Zenon DEF GrowthPast, At

(* So do the steps of a program on its own CPU. *)
LEMMA GrowthPastStep ==
  ASSUME LBInv, PoolGrown, NEW c \in CPU, VipPast(c), GrowthPast(c),
         IngressStep(c) \/ RewriteSaddr(c), UNCHANGED vars
  PROVE  GrowthPast(c)'
<1> USE DEF LBInv
<1>1. prog \in [CPU -> Program] /\ prog[c] \in Program
  BY DEF ProgOK
<1>2. Served' = Served
  BY Zenon DEF vars, poolVars, Served
<1>3. CASE RewriteSaddr(c)
  <2>1. prog[c].at = "snat" /\ prog'[c].at = "out" /\ prog'[c].frame.h_dest = prog[c].frame.h_dest
    BY <1>1, <1>3 DEF RewriteSaddr, Program, Frame
  <2>2. prog'[c].frame.h_dest = Host
    BY <2>1, Zenon DEF VipPast
  <2>3. QED
    BY <2>1, <2>2, Zenon DEF GrowthPast, ServedPast, Translated
<1>4. CASE IngressStep(c)
  <2>1. /\ ServedPast(c)'
        /\ prog[c].at = "addr" => backend_map[prog[c].idx] = Info(At(Served, prog[c].idx))
    BY <1>1, <1>4, IngressStepServed, ZenonT(30) DEF ProgOK, GrowthPast
  <2>2. CASE MatchVip(c) \/ Pick(c) \/ Lookup(c)
    <3>1. prog[c].at \in {"vip", "pick", "lookup"} /\ prog'[c].frame = prog[c].frame
      BY <1>1, <2>2 DEF MatchVip, Pick, Lookup, Program
    <3>2. prog'[c].frame.h_dest = Host
      BY <3>1, ZenonT(30) DEF VipPast
    <3>3. QED
      BY <2>1, <3>2 DEF GrowthPast, Translated
  <2>3. CASE RewriteMac(c)
    <3>1. prog'[c].at = "addr"
      BY <1>1, <2>3, Zenon DEF RewriteMac, Program
    <3>2. QED
      BY <2>1, <3>1, Zenon DEF GrowthPast, Translated
  <2>4. CASE RewriteDaddr(c)
    <3>1. /\ prog[c].at = "addr" /\ prog'[c].frame.h_dest = prog[c].frame.h_dest
          /\ prog'[c].frame.daddr = backend_map[prog[c].idx].ipv4
      BY <1>1, <2>4 DEF RewriteDaddr, Program, Frame
    <3>2. prog[c].idx \in Index /\ prog[c].idx < Len(Served) /\ prog[c].frame.h_dest = At(Served, prog[c].idx).MAC
      BY <3>1, ZenonT(30) DEF ProgOK, GrowthPast, ServedPast
    <3>3. prog'[c].frame.daddr = At(Served, prog[c].idx).IP
      BY <2>1, <3>1 DEF Info
    <3>4. QED
      BY <1>2, <2>1, <3>1, <3>2, <3>3, Zenon DEF GrowthPast, At
  <2>5. QED
    BY <1>4, <2>2, <2>3, <2>4 DEF IngressStep
<1>5. QED
  BY <1>3, <1>4

(* The steps of the system on the CPUs' programs. *)
LEMMA NextGrowthPast ==
  ASSUME LBInv, LBInv', VipInv, PoolGrown, [LBNext]_lbVars, Grows(Served, Served'),
         NEW d \in CPU, GrowthPast(d)
  PROVE  GrowthPast(d)'
<1> USE DEF LBInv
<1>0. VipPast(d) /\ prog \in [CPU -> Program]
  BY DEF VipInv, ProgOK
<1>1. CASE prog'[d] = prog[d]
  BY <1>1, GrowthPastKept, ZenonT(30)
<1>2. CASE UNCHANGED lbVars \/ RunSync \/ \E list \in Lists : StartSync(list)
  BY <1>1, <1>2 DEF lbVars, xdpVars, RunSync, StartSync
<1>3. ASSUME NEW c \in CPU, NEW req \in Requests, ClientSends(c, req) PROVE GrowthPast(d)'
  <2>1. CASE c # d
    BY <1>0, <1>1, <1>3, <2>1, Zenon DEF ClientSends, Ingress
  <2>2. CASE c = d
    <3>1. ServedPast(d)'
      BY <1>0, <1>3, <2>2, IngressServed, Zenon DEF ClientSends
    <3>2. prog'[d].frame.h_dest = Host
      BY <1>0, <1>3, <2>2 DEF ClientSends, Ingress
    <3>3. QED
      BY <3>1, <3>2, Zenon DEF GrowthPast, Translated
  <2>3. QED
    BY <2>1, <2>2, Zenon
<1>4. ASSUME NEW c \in CPU, RunXdp(c) PROVE GrowthPast(d)'
  <2>1. CASE c # d
    <3>1. prog'[d] = prog[d]
      BY <1>0, <1>4, <2>1, Zenon DEF RunXdp, IngressStep, MatchVip, Pick, Lookup, RewriteMac, RewriteDaddr, RewriteSaddr
    <3>2. QED
      BY <1>1, <3>1, Zenon
  <2>2. CASE c = d
    BY <1>0, <1>4, <2>2, GrowthPastStep, Zenon DEF RunXdp
  <2>3. QED
    BY <2>1, <2>2, Zenon
<1>5. ASSUME NEW c \in CPU, Deliver(c) \/ ClientReceives(c) PROVE GrowthPast(d)'
  <2>1. prog' = [prog EXCEPT ![c] = Idle]
    BY <1>5, Zenon DEF Deliver, ClientReceives
  <2>2. CASE c # d
    BY <1>0, <1>1, <2>1, <2>2, Zenon
  <2>3. CASE c = d
    <3>1. prog'[d].at = "idle"
      BY <1>0, <2>1, <2>3 DEF Idle
    <3>2. QED
      BY <3>1, Zenon DEF GrowthPast, ServedPast, Translated
  <2>4. QED
    BY <2>2, <2>3
<1>6. ASSUME NEW c \in CPU, NEW r \in replies, ContainerReplies(c, r) PROVE GrowthPast(d)'
  <2>1. \E at \in {"snat", "out"} :
          prog' = [prog EXCEPT ![c] = [at |-> at, dst |-> Client, idx |-> 0, frame |-> Reply(r.from.IP)]]
    BY <1>6, Zenon DEF ContainerReplies, Snat
  <2>2. CASE c # d
    BY <1>0, <1>1, <2>1, <2>2, Zenon
  <2>3. CASE c = d
    <3>1. prog'[d].at \in {"snat", "out"} /\ prog'[d].frame.h_dest = Host
      BY <1>0, <2>1, <2>3 DEF Reply
    <3>2. QED
      BY <3>1, Zenon DEF GrowthPast, ServedPast, Translated
  <2>4. QED
    BY <2>2, <2>3, Zenon
<1>7. QED
  BY <1>2, <1>3, <1>4, <1>5, <1>6, Zenon DEF LBNext

(* Every step keeps Growth until something is dropped, replaced or moved. *)
LEMMA NextGrowth == LBInv /\ LBInv' /\ VipInv /\ GrowthInv /\ [LBNext]_lbVars => GrowthInv'
<1> SUFFICES ASSUME LBInv, LBInv', VipInv, GrowthInv, [LBNext]_lbVars, ~churned' PROVE Growth'
  BY DEF GrowthInv
<1>1. Growth /\ \A list \in Lists : SyncBegin(list) => Grows(backends, list)
  BY BeginsGrowing DEF GrowthInv
<1>2. PoolGrown' /\ Grows(Served, Served')
  BY <1>1, LBNextPool, NextPoolGrown DEF Growth, LBInv
<1>3. \A c \in CPU : GrowthPast(c)'
  BY <1>1, <1>2, NextGrowthPast DEF Growth
<1>4. ASSUME NEW r \in replies PROVE FromServed(r)'
  <2>1. PICK k \in Index : k < Len(Served) /\ r.from = At(Served, k)
    BY <1>1 DEF Growth, FromServed
  <2>2. k \in Nat /\ Len(Served) \in Nat /\ Len(Served') \in Nat
    <3>1. Len(backends) \in Nat /\ Len(newBackends) \in Nat /\ Len(backends') \in Nat /\ Len(newBackends') \in Nat
      BY ListFacts DEF LBInv, IInv, TypeOK
    <3>2. QED
      BY <3>1, MapAssumption DEF Served, Index
  <2>3. k < Len(Served') /\ At(Served', k) = At(Served, k)
    BY <1>2, <2>1, <2>2 DEF Grows
  <2>4. QED
    BY <2>1, <2>3 DEF FromServed, At
<1>5. CASE replies' \subseteq replies
  BY <1>2, <1>3, <1>4, <1>5, Zenon DEF Growth
<1>6. ASSUME NEW c \in CPU, Deliver(c) PROVE \A r \in replies' : FromServed(r)'
  <2> DEFINE f == prog[c].frame
  <2>1. /\ prog[c].at = "out" /\ f.saddr = Client /\ UNCHANGED vars
        /\ \/ replies' = replies
           \/ \E b \in Takers(f) \cap Current : replies' = replies \cup {[from |-> b, early |-> early[c]]}
    BY <1>6, Zenon DEF Deliver, Current
  <2>2. Served' = Served
    BY <2>1, Zenon DEF vars, poolVars, Served
  <2>3. ASSUME NEW b \in Takers(f) \cap Current PROVE \E k \in Index : k < Len(Served) /\ b = At(Served, k)
    <3>1. b \in Containers /\ b.MAC = f.h_dest /\ b.IP = f.daddr /\ b.MAC \in Mac
      BY <2>3, ContainerFacts, Zenon DEF Takers, Backend
    <3>2. Translated(c)
      BY <2>1, <3>1, XdpAssumption, Zenon DEF Translated
    <3>3. PICK k \in Index : k < Len(Served) /\ f.daddr = At(Served, k).IP
      BY <1>1, <3>2 DEF Growth, GrowthPast
    <3>4. b = At(Served, k)
      BY <1>1, <2>1, <2>3, <3>1, <3>3, CurrentServed, Zenon DEF Growth, LBInv
    <3>5. QED
      BY <3>3, <3>4, Zenon
  <2>4. ASSUME NEW b \in Takers(f) \cap Current, NEW e PROVE FromServed([from |-> b, early |-> e])'
    BY <2>2, <2>3 DEF FromServed, At
  <2>5. QED
    BY <1>4, <2>1, <2>4
<1>7. CASE \E c \in CPU : Deliver(c)
  BY <1>2, <1>3, <1>6, <1>7 DEF Growth
<1>8. replies' \subseteq replies \/ \E c \in CPU : Deliver(c)
  BY ZenonT(30) DEF LBNext, lbVars, envVars, StartSync, RunSync, ClientSends, RunXdp, ContainerReplies, ClientReceives
<1>9. QED
  BY <1>5, <1>7, <1>8, Zenon

-----------------------------------------------------------------------------
(* A request that came after the VIP was written, and its answer, find the *)
(* VIP written.                                                            *)
VipWritten ==
  /\ \A c \in CPU : prog[c].at # "idle" /\ ~early[c] => config_map.vip = VIP
  /\ \A r \in replies : ~r.early => config_map.vip = VIP

LEMMA NextVipWritten == LBInv /\ VipWritten /\ [LBNext]_lbVars => VipWritten'
<1> SUFFICES ASSUME LBInv, VipWritten, [LBNext]_lbVars PROVE VipWritten'
  OBVIOUS
<1> USE DEF LBInv
<1>0. /\ config_map.vip = VIP => config_map'.vip = VIP
      /\ prog \in [CPU -> Program] /\ early \in [CPU -> BOOLEAN]
  BY LBNextPool, VipStays, Zenon DEF ProgOK
<1>1. CASE UNCHANGED lbVars \/ RunSync \/ \E list \in Lists : StartSync(list)
  BY <1>0, <1>1, Zenon DEF lbVars, xdpVars, envVars, RunSync, StartSync, VipWritten
<1>2. ASSUME NEW c \in CPU, NEW req \in Requests, ClientSends(c, req) PROVE VipWritten'
  <2>1. /\ replies' = replies /\ config_map' = config_map
        /\ \A d \in CPU \ {c} : prog'[d] = prog[d]
    BY <1>0, <1>2 DEF ClientSends, Ingress, vars, maps
  <2>2. /\ \A d \in CPU \ {c} : early'[d] = early[d]
        /\ ~early'[c] => config_map.vip = VIP
    BY <1>0, <1>2, Zenon DEF ClientSends
  <2>3. QED
    BY <2>1, <2>2, Zenon DEF VipWritten
<1>3. ASSUME NEW c \in CPU, RunXdp(c) PROVE VipWritten'
  <2>1. /\ replies' = replies /\ early' = early /\ config_map' = config_map
        /\ \A d \in CPU \ {c} : prog'[d] = prog[d]
        /\ prog[c].at # "idle"
    BY <1>0, <1>3, Zenon DEF RunXdp, envVars, vars, maps, IngressStep, MatchVip, Pick, Lookup, RewriteMac, RewriteDaddr, RewriteSaddr
  <2>2. QED
    BY <2>1, Zenon DEF VipWritten
<1>4. ASSUME NEW c \in CPU, Deliver(c) \/ ClientReceives(c) PROVE VipWritten'
  <2>1. /\ early' = early /\ config_map' = config_map /\ prog[c].at = "out"
        /\ prog' = [prog EXCEPT ![c] = Idle]
    BY <1>4, Zenon DEF Deliver, ClientReceives, vars, maps
  <2>2. \A d \in CPU : prog'[d].at # "idle" => prog'[d] = prog[d]
    BY <1>0, <2>1, ZenonT(30) DEF Idle
  <2>3. \A r \in replies' : r \in replies \/ r.early = early[c]
    BY <1>4 DEF Deliver, ClientReceives
  <2>4. QED
    BY <2>1, <2>2, <2>3, Zenon DEF VipWritten
<1>5. ASSUME NEW c \in CPU, NEW r \in replies, ContainerReplies(c, r) PROVE VipWritten'
  <2>1. /\ replies' \subseteq replies /\ config_map' = config_map
        /\ \A d \in CPU \ {c} : prog'[d] = prog[d]
    BY <1>0, <1>5, Zenon DEF ContainerReplies, Snat, vars, maps
  <2>2. early' = [early EXCEPT ![c] = r.early]
    BY <1>5 DEF ContainerReplies
  <2>3. early'[c] = r.early /\ \A d \in CPU \ {c} : early'[d] = early[d]
    BY <1>0, <2>2, Zenon
  <2>4. QED
    BY <2>1, <2>3, Zenon DEF VipWritten
<1>6. QED
  BY <1>1, <1>2, <1>3, <1>4, <1>5 DEF LBNext

-----------------------------------------------------------------------------
(* While Syncs only append, an answer to a request that came after the VIP *)
(* was written leaves the host with the VIP as its source.                 *)
AnswerPast(c) ==
  prog[c].at = "out" /\ prog[c].frame.daddr = Client /\ ~early[c] => prog[c].frame.saddr = VIP

AnswerInv == ~churned /\ VIP # Zero => client \subseteq {VIP} /\ \A c \in CPU : AnswerPast(c)

(* The steps of the programs: only RewriteSaddr makes an answer leave, and *)
(* it finds the VIP.                                                       *)
LEMMA AnswerPastStep ==
  ASSUME MapsTypeOK, ProgOK, VipWritten, VIP # Zero, NEW c \in CPU, FramePast(c),
         IngressStep(c) \/ RewriteSaddr(c), early' = early
  PROVE  AnswerPast(c)'
<1>1. prog \in [CPU -> Program] /\ prog[c] \in Program
  BY Zenon DEF ProgOK
<1>2. CASE MatchVip(c) \/ Pick(c) \/ Lookup(c)
  <2>1. prog[c].at \in {"vip", "pick", "lookup"} /\ prog'[c].frame = prog[c].frame
    BY <1>1, <1>2 DEF MatchVip, Pick, Lookup, Program
  <2>2. prog[c].frame.daddr # Client
    BY <2>1, XdpAssumption, Zenon DEF FramePast, Ingressing
  <2>3. QED
    BY <2>1, <2>2 DEF AnswerPast
<1>3. CASE RewriteMac(c)
  <2>1. prog'[c].at = "addr"
    BY <1>1, <1>3, Zenon DEF RewriteMac, Program
  <2>2. QED
    BY <2>1 DEF AnswerPast
<1>4. CASE RewriteDaddr(c)
  <2>1. prog[c].at = "addr" /\ prog'[c].frame.daddr = backend_map[prog[c].idx].ipv4
    BY <1>1, <1>4, Zenon DEF RewriteDaddr, Program, Frame
  <2>2. prog'[c].frame.daddr \in Addr \cup {Zero}
    BY <2>1, Zenon DEF ProgOK, MapsTypeOK, backend_info
  <2>3. QED
    BY <2>2, XdpAssumption DEF AnswerPast
<1>5. CASE RewriteSaddr(c)
  <2>1. /\ prog[c].at = "snat"
        /\ prog'[c].frame.saddr = IF config_map.vip = Zero THEN prog[c].frame.saddr ELSE config_map.vip
    BY <1>1, <1>5, Zenon DEF RewriteSaddr, Program, Frame
  <2>2. ~early[c] => config_map.vip = VIP
    BY <2>1, Zenon DEF VipWritten
  <2>3. QED
    BY <2>1, <2>2 DEF AnswerPast
<1>6. QED
  BY <1>2, <1>3, <1>4, <1>5, Zenon DEF IngressStep

(* A served backend's answer meets the program on its veth and is found in *)
(* backend_ips_map.                                                        *)
LEMMA ServedAnswers ==
  ASSUME LBInv, Growth, NEW c \in CPU, NEW r \in replies, ContainerReplies(c, r)
  PROVE  prog'[c].at = "snat"
<1>1. PICK k \in Index : k < Len(Served) /\ r.from = At(Served, k)
  BY DEF Growth, FromServed
<1>2. r.from.IP \in Registered /\ r.from.VethName \in vethLinks
  BY <1>1, ServedFacts, Zenon DEF Growth, LBInv
<1>3. Snat(c, r.from.IP) /\ backend_ips_map[r.from.IP] # NULL
  BY <1>2, Zenon DEF ContainerReplies, Registered
<1>4. QED
  BY <1>3 DEF Snat, LBInv, ProgOK

LEMMA NextAnswerInv ==
  LBInv /\ FrameInv /\ VipWritten /\ GrowthInv /\ AnswerInv /\ [LBNext]_lbVars => AnswerInv'
<1> SUFFICES ASSUME LBInv, FrameInv, VipWritten, GrowthInv, AnswerInv, [LBNext]_lbVars, ~churned', VIP # Zero
             PROVE  client' \subseteq {VIP} /\ \A c \in CPU : AnswerPast(c)'
  BY Zenon DEF AnswerInv
<1> USE DEF LBInv
<1>0. /\ Growth /\ client \subseteq {VIP} /\ \A c \in CPU : AnswerPast(c)
      /\ MapsTypeOK /\ prog \in [CPU -> Program] /\ early \in [CPU -> BOOLEAN]
  BY BeginsGrowing, Zenon DEF GrowthInv, AnswerInv, IInv, TypeOK, ProgOK
<1>1. ASSUME NEW d \in CPU, prog'[d] = prog[d], early'[d] = early[d] PROVE AnswerPast(d)'
  BY <1>0, <1>1, Zenon DEF AnswerPast
<1>2. CASE UNCHANGED lbVars \/ RunSync \/ \E list \in Lists : StartSync(list)
  <2>1. UNCHANGED <<prog, early, client>>
    BY <1>2, Zenon DEF lbVars, xdpVars, envVars, RunSync, StartSync
  <2>2. QED
    BY <1>0, <1>1, <2>1, Zenon
<1>3. ASSUME NEW c \in CPU, NEW req \in Requests, ClientSends(c, req)
      PROVE  client' \subseteq {VIP} /\ \A d \in CPU : AnswerPast(d)'
  <2>1. /\ client' = client /\ prog'[c].frame.daddr = req.daddr
        /\ \A d \in CPU \ {c} : prog'[d] = prog[d]
    BY <1>0, <1>3 DEF ClientSends, Ingress
  <2>2. \A d \in CPU \ {c} : early'[d] = early[d]
    BY <1>0, <1>3, Zenon DEF ClientSends
  <2>3. AnswerPast(c)'
    BY <2>1, XdpAssumption, ZenonT(30) DEF AnswerPast, Requests
  <2>4. QED
    BY <1>0, <1>1, <2>1, <2>2, <2>3, Zenon
<1>4. ASSUME NEW c \in CPU, RunXdp(c) PROVE client' \subseteq {VIP} /\ \A d \in CPU : AnswerPast(d)'
  <2>1. /\ client' = client /\ early' = early
        /\ \A d \in CPU \ {c} : prog'[d] = prog[d]
    BY <1>0, <1>4, Zenon DEF RunXdp, envVars, IngressStep, MatchVip, Pick, Lookup, RewriteMac, RewriteDaddr, RewriteSaddr
  <2>2. AnswerPast(c)'
    BY <1>0, <1>4, <2>1, AnswerPastStep, Zenon DEF RunXdp, FrameInv
  <2>3. QED
    BY <1>0, <1>1, <2>1, <2>2, Zenon
<1>5. ASSUME NEW c \in CPU, Deliver(c) \/ ClientReceives(c)
      PROVE  client' \subseteq {VIP} /\ \A d \in CPU : AnswerPast(d)'
  <2>1. early' = early /\ prog' = [prog EXCEPT ![c] = Idle]
    BY <1>5, ZenonT(30) DEF Deliver, ClientReceives
  <2>2. client' \subseteq {VIP}
    BY <1>0, <1>5, Zenon DEF Deliver, ClientReceives, AnswerPast
  <2>3. prog'[c].at = "idle" /\ \A d \in CPU \ {c} : prog'[d] = prog[d]
    BY <1>0, <2>1, Zenon DEF Idle
  <2>4. AnswerPast(c)'
    BY <2>3, Zenon DEF AnswerPast
  <2>5. QED
    BY <1>1, <2>1, <2>2, <2>3, <2>4, Zenon
<1>6. ASSUME NEW c \in CPU, NEW r \in replies, ContainerReplies(c, r)
      PROVE  client' \subseteq {VIP} /\ \A d \in CPU : AnswerPast(d)'
  <2>1. client' = client /\ \A d \in CPU \ {c} : prog'[d] = prog[d]
    BY <1>0, <1>6 DEF ContainerReplies, Snat
  <2>2. \A d \in CPU \ {c} : early'[d] = early[d]
    BY <1>0, <1>6, Zenon DEF ContainerReplies
  <2>3. AnswerPast(c)'
    BY <1>0, <1>6, ServedAnswers DEF AnswerPast
  <2>4. QED
    BY <1>0, <1>1, <2>1, <2>2, <2>3, Zenon
<1>7. QED
  BY <1>2, <1>3, <1>4, <1>5, <1>6, Zenon DEF LBNext

(* Growing the pool is invisible to clients: as long as Syncs only append  *)
(* backends, whether or not they fail, every answer to a request that came *)
(* after the VIP was written reaches the client under the VIP, on every    *)
(* CPU and however the writes of Sync fall between the loads of the        *)
(* programs.                                                               *)
THEOREM SeamlessGrowth == LBSpec => []GrowthIsSeamless
<1>1. LBInit => VipInv /\ FrameInv /\ GrowthInv /\ VipWritten /\ AnswerInv
  <2> SUFFICES ASSUME LBInit PROVE VipInv /\ FrameInv /\ GrowthInv /\ VipWritten /\ AnswerInv
    BY Zenon
  <2>1. \A c \in CPU : prog[c].at = "idle"
    BY DEF LBInit, XdpInit, Idle
  <2>2. VipInv /\ VipWritten /\ AnswerInv
    BY <2>1, Zenon DEF LBInit, VipInv, VipPast, Translated, VipWritten, AnswerInv, AnswerPast
  <2>3. FrameInv
    BY InitFrameInv, Zenon
  <2>4. PoolGrown
    BY DEF LBInit, Init, PoolGrown, Index
  <2>5. GrowthInv
    BY <2>1, <2>4, Zenon DEF LBInit, GrowthInv, Growth, GrowthPast, ServedPast, Translated
  <2>6. QED
    BY <2>2, <2>3, <2>5
<1>2. AnswerInv => GrowthIsSeamless
  BY DEF AnswerInv, GrowthIsSeamless
<1>3. QED
  BY LBInvariance, NextVipInv, NextFrameInv, NextGrowth, NextVipWritten, NextAnswerInv, <1>1, <1>2, PTL DEF LBSpec
=============================================================================
