--------------------------- MODULE PoolMapProofs ---------------------------
(***************************************************************************)
(* Proofs about what a Sync does to the maps and the links, on top of the  *)
(* invariant of PoolProofs: the order of its effects and the table that it *)
(* implements, the contents of backend_map and backend_ips_map during and  *)
(* after it, and repeated Syncs of one list.                               *)
(***************************************************************************)
EXTENDS PoolForward, PoolProofs

(* Only UpdateConfig changes the count, and it finds every slot it exposes *)
(* complete, every slot it retires zeroed and every exposed veth attached. *)
THEOREM ConfigIsLast == Spec => CountPublishedLast
<1>1. IInv /\ [Next]_vars => [PublishesCompleteState]_vars
  <2> SUFFICES ASSUME IInv, Next PROVE PublishesCompleteState
    BY DEF vars
  <2>1. CASE UpdateConfig
    <3>1. /\ pc = "detach" /\ i \in Nat /\ MAX_BACKENDS \in Nat
          /\ Len(newBackends) \in Nat /\ Len(backends) \in Nat
          /\ Len(newBackends) <= i /\ Len(backends) <= i /\ i <= MAX_BACKENDS
      BY <2>1, ListFacts, MapAssumption, Zenon DEF UpdateConfig, IInv, TypeOK, SyncProgress, LoopPosition
    <3>2. config_map'.backend_count # config_map.backend_count =>
            /\ "backend_count" \in todo
            /\ config_map'.backend_count = Len(newBackends)
      BY <2>1, <3>1 DEF UpdateConfig, CopyConfig, IInv, TypeOK, MapsTypeOK, lb_config
    <3>3. "backend_count" \in todo => config_map.backend_count = Len(backends)
      BY Zenon DEF IInv, SyncProgress, CountUnpublished
    <3>4. \A k \in Index : k < i => backend_map[k] =
            IF k < Len(newBackends) THEN Info(At(newBackends, k)) ELSE ZeroInfo
      BY <3>1 DEF IInv, SyncProgress, SlotsWritten
    <3>5. \A k \in Nat : k < Len(newBackends) => At(newBackends, k).VethName \in vethLinks
      BY <3>1 DEF IInv, SyncProgress, VethsAttached, Index
    <3>6. VethNames(newBackends) \subseteq vethLinks
      BY <3>5, VethNamesByIndex, Zenon DEF IInv, TypeOK
    <3>7. QED
      BY <3>1, <3>2, <3>3, <3>4, <3>6 DEF PublishesCompleteState, Index
  <2>2. CASE ~UpdateConfig
    <3>1. config_map' = config_map
      BY <2>2, Zenon DEF Next, SyncStep, SyncFault, SyncBegin, ClearSlot, ClearIp, UpdateSlot, UpdateIp,
         UpdateFails, AttachVeth, AttachVethFails, DetachVeth, DetachVethFails, Commit,
         CopyInfo, DeleteIp, PutIp, maps
    <3>2. QED
      BY <3>1 DEF PublishesCompleteState
  <2>3. QED
    BY <2>1, <2>2, Zenon
<1>2. QED
  BY Invariance, <1>1, PTL DEF Spec, CountPublishedLast

(* No step of Sync detaches the SNAT program from a backend of the list    *)
(* being synced.                                                           *)
THEOREM DetachIsExact == Spec => DetachesOnlyDropped
<1>1. IInv /\ [Next]_vars => [KeepsListedVeths]_vars
  <2> SUFFICES ASSUME IInv, Next PROVE KeepsListedVeths
    BY DEF vars
  <2>1. CASE \E v \in Veth : DetachVeth(v)
    <3>1. PICK v \in Veth : DetachVeth(v)
      BY <2>1
    <3>2. /\ pc = "detach" /\ i \in Nat /\ Len(newBackends) \in Nat /\ MAX_BACKENDS \in Nat
          /\ Len(newBackends) <= i /\ i <= MAX_BACKENDS
      BY <3>1, ListFacts, MapAssumption DEF DetachVeth, IInv, TypeOK, SyncProgress, LoopPosition
    <3>3. \A k \in Nat : k < Len(newBackends) => At(newBackends, k).VethName \in byVeth \ oldByVeth
      BY <3>2 DEF IInv, SyncProgress, VethsAttached, Index
    <3>4. VethNames(newBackends) \subseteq byVeth \ oldByVeth
      BY <3>3, VethNamesByIndex, Zenon DEF IInv, TypeOK
    <3>5. QED
      BY <3>1, <3>4, Zenon DEF DetachVeth, KeepsListedVeths
  <2>2. CASE ~ \E v \in Veth : DetachVeth(v)
    <3>1. vethLinks \subseteq vethLinks'
      BY <2>2, Zenon DEF Next, SyncStep, SyncFault, SyncBegin, ClearSlot, ClearIp, UpdateSlot, UpdateIp,
         UpdateFails, AttachVeth, AttachVethFails, DetachVethFails, UpdateConfig, Commit, poolVars
    <3>2. QED
      BY <3>1, Zenon DEF KeepsListedVeths
  <2>3. QED
    BY <2>1, <2>2
<1>2. QED
  BY Invariance, <1>1, PTL DEF Spec, DetachesOnlyDropped

-----------------------------------------------------------------------------
(***************************************************************************)
(* Pool implements ForwardTable.                                           *)
(***************************************************************************)
(* A write to slot i of backend_map is a change of entry i of the table,   *)
(* or none where the slot is past the count.                               *)
LEMMA CopyDisturbs ==
  ASSUME IInv, pc # "detach", pc # "idle", i \in Index, UNCHANGED poolVars,
         NEW e \in backend_info, CopyInfo(i, e),
         e = ZeroInfo \/ (i < Len(newBackends) /\ e = Info(At(newBackends, i)))
  PROVE  \/ UNCHANGED <<tableView, newBackends, modeView>>
         \/ \E k \in DOMAIN tableView : Forward!Disturb(k)
<1> DEFINE n == config_map.backend_count
<1>1. n \in 0 .. MAX_BACKENDS /\ config_map' = config_map
  BY Zenon DEF IInv, TypeOK, MapsTypeOK, lb_config, CopyInfo
<1>2. modeView = "busy" /\ modeView' = "busy" /\ newBackends' = newBackends
  BY Zenon DEF modeView, poolVars
<1>3. backend_map \in [Index -> backend_info] /\ MAX_BACKENDS \in Nat
  BY MapAssumption, Zenon DEF IInv, TypeOK, MapsTypeOK
<1>4. CASE i >= n
  <2>1. \A k \in 0 .. n - 1 : backend_map'[k] = backend_map[k]
    BY <1>1, <1>3, <1>4 DEF CopyInfo, Index
  <2>2. tableView' = tableView
    BY <1>1, <2>1, Zenon DEF tableView
  <2>3. QED
    BY <1>2, <2>2
<1>5. CASE i < n
  <2>1. i \in DOMAIN tableView
    BY <1>1, <1>5 DEF tableView, Index
  <2>2. e \in Forward!MayHold(i)
    BY Zenon DEF Forward!MayHold, Forward!Blank, Forward!Entry, ZeroInfo, Info, At
  <2>3. \/ tableView' = [tableView EXCEPT ![i].ipv4 = e.ipv4]
        \/ tableView' = [tableView EXCEPT ![i].mac = e.mac]
    <3>1. ASSUME backend_map' = [backend_map EXCEPT ![i].ipv4 = e.ipv4]
          PROVE  tableView' = [tableView EXCEPT ![i].ipv4 = e.ipv4]
      <4> DEFINE w == [backend_map[i] EXCEPT !.ipv4 = e.ipv4]
      <4>1. \A k \in 0 .. n - 1 : backend_map'[k] = IF k = i THEN w ELSE backend_map[k]
        BY <1>1, <1>3, <3>1 DEF Index
      <4>2. tableView' = [k \in 0 .. n - 1 |-> IF k = i THEN w ELSE backend_map[k]]
        BY <1>1, <4>1, Zenon DEF tableView
      <4>3. tableView[i] = backend_map[i] /\ DOMAIN tableView = 0 .. n - 1
        BY <2>1 DEF tableView
      <4>4. [tableView EXCEPT ![i].ipv4 = e.ipv4] = [k \in 0 .. n - 1 |-> IF k = i THEN w ELSE tableView[k]]
        BY <4>3, Zenon
      <4>5. QED
        BY <4>2, <4>4, Zenon DEF tableView
    <3>2. ASSUME backend_map' = [backend_map EXCEPT ![i].mac = e.mac]
          PROVE  tableView' = [tableView EXCEPT ![i].mac = e.mac]
      <4> DEFINE w == [backend_map[i] EXCEPT !.mac = e.mac]
      <4>1. \A k \in 0 .. n - 1 : backend_map'[k] = IF k = i THEN w ELSE backend_map[k]
        BY <1>1, <1>3, <3>2 DEF Index
      <4>2. tableView' = [k \in 0 .. n - 1 |-> IF k = i THEN w ELSE backend_map[k]]
        BY <1>1, <4>1, Zenon DEF tableView
      <4>3. tableView[i] = backend_map[i] /\ DOMAIN tableView = 0 .. n - 1
        BY <2>1 DEF tableView
      <4>4. [tableView EXCEPT ![i].mac = e.mac] = [k \in 0 .. n - 1 |-> IF k = i THEN w ELSE tableView[k]]
        BY <4>3, Zenon
      <4>5. QED
        BY <4>2, <4>4, Zenon DEF tableView
    <3>3. QED
      BY <3>1, <3>2, Zenon DEF CopyInfo
  <2>4. Forward!Disturb(i)
    BY <1>2, <2>2, <2>3 DEF Forward!Disturb
  <2>5. QED
    BY <2>1, <2>4, Zenon
<1>6. QED
  BY <1>1, <1>4, <1>5 DEF Index

(* An error return before the count is published is the table's GiveUp. *)
LEMMA FailGivesUp ==
  ASSUME IInv, modeView = "busy", Return(TRUE), UNCHANGED <<maps, backends, byVeth, vethLinks>>
  PROVE  Forward!GiveUp
  BY Zenon DEF Forward!GiveUp, Return, maps, modeView, tableView

(* Every step of Sync is one step of ForwardTable, or none. *)
LEMMA NextImplements ==
  ASSUME IInv, [Next]_vars
  PROVE  Forward!Next \/ UNCHANGED <<tableView, newBackends, modeView>>
<1>1. CASE \E list \in Lists : SyncBegin(list)
  <2>1. PICK list \in Lists : SyncBegin(list)
    BY <1>1, Zenon
  <2>2. Len(backends) \in Nat
    BY ListFacts DEF IInv, TypeOK
  <2>3. pc' \in {"clear", "update", "stale", "detach"} /\ todo' = Fields(pc')
    BY <2>1, <2>2, StageFacts, Zenon DEF SyncBegin, GoTo
  <2>4. modeView \in {"ok", "failed"} /\ modeView' = "busy"
    BY <2>1, <2>3 DEF modeView, SyncBegin, Fields, ConfigFields
  <2>5. tableView' = tableView /\ newBackends' = list
    BY <2>1 DEF SyncBegin, maps, tableView
  <2>6. Forward!Start(list)
    BY <2>4, <2>5 DEF Forward!Start
  <2>7. QED
    BY <2>6 DEF Forward!Next
<1>2. CASE ClearSlot
  <2>1. i \in Index /\ ZeroInfo \in backend_info
    BY <1>2, ListFacts, MapAssumption, SMTT(30) DEF ClearSlot, IInv, TypeOK, SyncProgress, LoopPosition, Index, ZeroInfo, backend_info
  <2>2. QED
    BY <1>2, <2>1, CopyDisturbs, SMTT(30) DEF ClearSlot, Forward!Next
<1>3. CASE UpdateSlot
  <2>1. /\ i \in Index /\ i < Len(newBackends)
        /\ Info(At(newBackends, i)) \in backend_info
    BY <1>3, ListFacts, MapAssumption
       DEF UpdateSlot, IInv, TypeOK, SyncProgress, LoopPosition, Index, InArray, Info, Backend, backend_info
  <2>2. QED
    BY <1>3, <2>1, CopyDisturbs, SMTT(30) DEF UpdateSlot, Forward!Next
<1>4. CASE ClearIp \/ UpdateIp \/ AttachVeth
  <2>1. Len(backends) \in Nat /\ i + 1 \in Nat /\ newBackends \in Lists \cup {<<>>}
    BY ListFacts DEF IInv, TypeOK
  <2>2. /\ pc \notin {"idle", "detach"} /\ pc' # "idle"
        /\ pc' = "detach" => todo' = ConfigFields
    BY <1>4, <2>1, StageFacts, Zenon DEF ClearIp, UpdateIp, AttachVeth, GoTo, Fields
  <2>3. modeView = "busy" /\ modeView' = "busy"
    BY <2>2, Zenon DEF modeView, ConfigFields
  <2>4. UNCHANGED <<tableView, newBackends>>
    BY <1>4, Zenon DEF ClearIp, UpdateIp, AttachVeth, PutIp, DeleteIp, maps, tableView
  <2>5. QED
    BY <2>3, <2>4, Zenon
<1>5. CASE UpdateFails \/ AttachVethFails \/ \E v \in Veth : DetachVethFails(v)
  <2>1. modeView = "busy"
    BY <1>5, Zenon DEF UpdateFails, AttachVethFails, DetachVethFails, modeView, IInv, SyncProgress, LoopPosition, ConfigFields
  <2>2. QED
    BY <1>5, <2>1, FailGivesUp, Zenon DEF UpdateFails, AttachVethFails, DetachVethFails, Forward!Next
<1>6. CASE \E v \in Veth : DetachVeth(v)
  BY <1>6, Zenon DEF DetachVeth, maps, tableView, modeView
<1>7. CASE UpdateConfig
  <2>1. /\ pc = "detach" /\ pc' = "detach" /\ newBackends' = newBackends
        /\ Len(newBackends) \in Nat /\ i \in Nat /\ MAX_BACKENDS \in Nat
        /\ Len(newBackends) <= i /\ i <= MAX_BACKENDS
    BY <1>7, ListFacts, MapAssumption DEF UpdateConfig, poolVars, IInv, TypeOK, SyncProgress, LoopPosition
  <2>2. CASE "backend_count" \in todo /\ "backend_count" \notin todo'
    <3>1. config_map'.backend_count = Len(newBackends) /\ backend_map' = backend_map
      BY <1>7, <2>1, <2>2, ZenonT(30) DEF UpdateConfig, CopyConfig, IInv, TypeOK, MapsTypeOK, lb_config
    <3>2. \A k \in 0 .. Len(newBackends) - 1 : backend_map[k] = Forward!Entry(newBackends, k)
      BY <2>1 DEF IInv, SyncProgress, SlotsWritten, Index, Info, At, Forward!Entry
    <3>3. tableView' = Forward!Entries(newBackends)
      BY <2>1, <3>1, <3>2, Zenon DEF tableView, Forward!Entries
    <3>4. modeView = "busy" /\ modeView' = "published"
      BY <2>1, <2>2 DEF modeView
    <3>5. QED
      BY <2>1, <3>3, <3>4 DEF Forward!Publish, Forward!Next
  <2>3. CASE ~("backend_count" \in todo /\ "backend_count" \notin todo')
    <3>1. config_map'.backend_count = config_map.backend_count /\ backend_map' = backend_map
      BY <1>7, <2>1, <2>3, SMTT(30) DEF UpdateConfig, CopyConfig, IInv, TypeOK, MapsTypeOK, lb_config
    <3>2. ("backend_count" \in todo) = ("backend_count" \in todo')
      BY <1>7, <2>3 DEF UpdateConfig, CopyConfig
    <3>3. QED
      BY <2>1, <3>1, <3>2 DEF tableView, modeView
  <2>4. QED
    BY <2>2, <2>3
<1>8. CASE Commit
  <2>1. modeView = "published" /\ modeView' = "ok" /\ newBackends' = <<>> /\ tableView' = tableView
    BY <1>8, Zenon DEF Commit, Return, maps, modeView, tableView
  <2>2. QED
    BY <2>1, Zenon DEF Forward!Finish, Forward!Next
<1>9. CASE UNCHANGED vars
  BY <1>9, Zenon DEF vars, maps, poolVars, tableView, modeView
<1>10. QED
  BY <1>1, <1>2, <1>3, <1>4, <1>5, <1>6, <1>7, <1>8, <1>9, SMTT(30) DEF Next, SyncStep, SyncFault

(* Sync implements the atomic replacement of the forwarding table, for     *)
(* every set of lists, every map size and every choice of failing calls.   *)
THEOREM Refinement == Spec => ImplementsForwardTable
<1>1. Init => Forward!Init
  <2> SUFFICES ASSUME Init PROVE Forward!Init
    BY Zenon
  <2>1. tableView = Forward!Entries(<<>>)
    BY DEF Init, MapsInit, tableView, Forward!Entries
  <2>2. QED
    BY <2>1, Zenon DEF Init, modeView, Forward!Init
<1>2. IInv /\ [Next]_vars => [Forward!Next]_Forward!tableVars
  BY NextImplements, Zenon DEF Forward!tableVars
<1>3. QED
  BY Invariance, <1>1, <1>2, PTL DEF Spec, ImplementsForwardTable, Forward!Spec

-----------------------------------------------------------------------------
(* A slot that is updated without a clear had no address, or the same one. *)
LEMMA UpdateStage ==
  ASSUME NEW list \in Lists \cup {<<>>}, NEW k \in Nat, Len(backends) \in Nat,
         Stage(list, k) = "update", k < Len(backends)
  PROVE  At(backends, k).IP = At(list, k).IP
<1>1. Len(list) \in Nat
  BY ListFacts
<1>2. QED
  BY <1>1 DEF Stage, HeldByOther

-----------------------------------------------------------------------------
(* What UpdateBackend writes for the backend at index k. *)
LEMMA InfoFacts ==
  ASSUME NEW list, NEW k
  PROVE  Info(At(list, k)).ipv4 = list[k + 1].IP /\ Info(At(list, k)).mac = list[k + 1].MAC
  BY DEF Info, At

(* ServesOldOrNew, spelled out. *)
SlotOldOrNew ==
  ~err => \A k \in Index : k < config_map.backend_count =>
    /\ \/ backend_map[k].ipv4 = Zero
       \/ k < Len(backends) /\ backend_map[k].ipv4 = backends[k + 1].IP
       \/ k < Len(newBackends) /\ backend_map[k].ipv4 = newBackends[k + 1].IP
    /\ \/ backend_map[k].mac = Zero
       \/ k < Len(backends) /\ backend_map[k].mac = backends[k + 1].MAC
       \/ k < Len(newBackends) /\ backend_map[k].mac = newBackends[k + 1].MAC

(* Each step of Sync keeps it so; only a failed Sync leaves a mixture. *)
LEMMA NextServes == IInv /\ IInv' /\ SlotOldOrNew /\ [Next]_vars => SlotOldOrNew'
<1> SUFFICES ASSUME IInv, IInv', SlotOldOrNew, [Next]_vars, ~err' PROVE SlotOldOrNew'
  BY DEF SlotOldOrNew, At
<1>1. Len(backends) \in Nat /\ Len(newBackends) \in Nat /\ MAX_BACKENDS \in Nat /\ i \in Nat
  BY ListFacts, MapAssumption DEF IInv, TypeOK
<1>2. CASE pc' = "idle"
  <2>1. \A k \in Index : k < config_map'.backend_count =>
          /\ k < Len(backends')
          /\ backend_map'[k].ipv4 = backends'[k + 1].IP
          /\ backend_map'[k].mac = backends'[k + 1].MAC
    BY <1>2, InfoFacts DEF IInv, SyncedExactly
  <2>2. QED
    BY <2>1 DEF SlotOldOrNew
<1>3. CASE pc = "idle" /\ pc' # "idle"
  <2>1. ~err /\ UNCHANGED <<maps, backends>>
    BY <1>3, SMTT(30) DEF Next, SyncBegin, SyncStep, SyncFault, ClearSlot, ClearIp, UpdateSlot, UpdateIp,
       UpdateFails, AttachVeth, AttachVethFails, DetachVeth, DetachVethFails, UpdateConfig, Commit, vars, poolVars
  <2>2. \A k \in Index : k < config_map.backend_count =>
          /\ k < Len(backends)
          /\ backend_map[k].ipv4 = backends[k + 1].IP
          /\ backend_map[k].mac = backends[k + 1].MAC
    BY <1>3, <2>1, InfoFacts DEF IInv, SyncedExactly
  <2>3. QED
    BY <2>1, <2>2, Zenon DEF SlotOldOrNew, maps
<1>4. CASE pc # "idle" /\ pc' # "idle"
  <2>1. ~err /\ UNCHANGED <<backends, newBackends>>
    BY <1>4, SMTT(30) DEF Next, SyncBegin, SyncStep, SyncFault, ClearSlot, ClearIp, UpdateSlot, UpdateIp,
       UpdateFails, AttachVeth, AttachVethFails, DetachVeth, DetachVethFails, UpdateConfig, Commit, vars, poolVars, Return
  <2>2. CASE ClearSlot \/ UpdateSlot
    <3>1. /\ config_map' = config_map
          /\ \A k \in Index : k # i => backend_map'[k] = backend_map[k]
          /\ i \in Index => \/ backend_map'[i].ipv4 = backend_map[i].ipv4
                            \/ backend_map'[i].ipv4 = Zero
                            \/ i < Len(newBackends) /\ backend_map'[i].ipv4 = At(newBackends, i).IP
          /\ i \in Index => \/ backend_map'[i].mac = backend_map[i].mac
                            \/ backend_map'[i].mac = Zero
                            \/ i < Len(newBackends) /\ backend_map'[i].mac = At(newBackends, i).MAC
      BY <2>2 DEF ClearSlot, UpdateSlot, CopyInfo, ZeroInfo, Info, IInv, TypeOK, MapsTypeOK, backend_info, SyncProgress, LoopPosition
    <3>2. QED
      BY <2>1, <3>1 DEF SlotOldOrNew, At
  <2>3. CASE UpdateConfig
    <3>1. backend_map' = backend_map /\ i <= MAX_BACKENDS /\ Len(newBackends) <= i
      BY <2>3 DEF UpdateConfig, CopyConfig, IInv, TypeOK, SyncProgress, LoopPosition
    <3>2. \/ config_map'.backend_count = config_map.backend_count
          \/ config_map'.backend_count = Len(newBackends)
      BY <2>3 DEF UpdateConfig, CopyConfig, IInv, TypeOK, MapsTypeOK, lb_config
    <3>3. \A k \in Index : k < Len(newBackends) =>
            /\ backend_map[k].ipv4 = newBackends[k + 1].IP
            /\ backend_map[k].mac = newBackends[k + 1].MAC
      BY <1>1, <1>4, <3>1, InfoFacts DEF IInv, SyncProgress, SlotsWritten, Index
    <3>4. QED
      BY <2>1, <3>1, <3>2, <3>3, Zenon DEF SlotOldOrNew
  <2>4. CASE ~(ClearSlot \/ UpdateSlot \/ UpdateConfig)
    <3>1. UNCHANGED <<config_map, backend_map>>
      BY <2>4, Zenon DEF Next, SyncBegin, SyncStep, SyncFault, ClearIp, UpdateIp, UpdateFails, AttachVeth,
         AttachVethFails, DetachVeth, DetachVethFails, Commit, vars, maps, PutIp, DeleteIp
    <3>2. QED
      BY <2>1, <3>1 DEF SlotOldOrNew, At
  <2>5. QED
    BY <2>2, <2>3, <2>4, Zenon
<1>5. QED
  BY <1>2, <1>3, <1>4, Zenon

(* While Sync follows a successful one, the data plane never finds in slot *)
(* k the address or the MAC of a backend of another slot or an older list. *)
THEOREM SlotsServeOldOrNew == Spec => []ServesOldOrNew
<1>1. Init => SlotOldOrNew
  BY DEF Init, MapsInit, SlotOldOrNew, Index
<1>2. SlotOldOrNew => ServesOldOrNew
  BY Zenon DEF SlotOldOrNew, ServesOldOrNew, At
<1>3. QED
  BY Invariance, <1>1, <1>2, NextServes, PTL DEF Spec

-----------------------------------------------------------------------------
UnmovedKept ==
  \A k \in Index :
    /\ k < Len(newBackends) /\ k < Len(backends)
    /\ At(newBackends, k).IP = At(backends, k).IP
    /\ At(backends, k).IP \in Registered
    => At(backends, k).IP \in Registered'

(* The only deletions are those of addresses whose slot another address    *)
(* takes or nobody does, so a backend that keeps its index stays           *)
(* registered through every step.                                          *)
THEOREM UnmovedKeepsEntry == Spec => UnmovedStaysRegistered
<1>1. IInv /\ [Next]_vars => [UnmovedKept]_vars
  <2> SUFFICES ASSUME IInv, Next, NEW k \in Index,
                      k < Len(newBackends), k < Len(backends),
                      At(newBackends, k).IP = At(backends, k).IP,
                      At(backends, k).IP \in Registered
               PROVE  At(backends, k).IP \in Registered'
    BY DEF UnmovedKept
  <2> DEFINE a == At(backends, k).IP
  <2>1. /\ Len(backends) \in Nat /\ Len(newBackends) \in Nat /\ i \in Nat /\ k \in Nat
        /\ a \in Addr /\ backend_ips_map[a] # NULL /\ backend_ips_map \in [Addr -> Index \cup {NULL}]
    BY ListFacts, MapAssumption DEF IInv, TypeOK, MapsTypeOK, Index, Registered, Backend
  <2>2. backend_ips_map'[a] # NULL
    <3>1. CASE ClearIp
      <4>1. At(backends, i).IP # a
        <5>1. CASE pc = "clear"
          <6>1. i < Len(backends) /\ At(backends, i).IP # At(newBackends, i).IP
            BY <5>1 DEF IInv, SyncProgress, LoopPosition
          <6>2. CASE i = k
            BY <6>1, <6>2, Zenon
          <6>3. CASE i # k
            BY <2>1, <6>1, <6>3, AddressFacts, Zenon DEF IInv, TypeOK
          <6>4. QED
            BY <6>2, <6>3, Zenon
        <5>2. CASE pc = "stale"
          <6>1. i < Len(backends) /\ i # k
            BY <2>1, <5>2 DEF IInv, SyncProgress, LoopPosition
          <6>2. QED
            BY <2>1, <6>1, AddressFacts, Zenon DEF IInv, TypeOK
        <5>3. QED
          BY <3>1, <5>1, <5>2 DEF ClearIp
      <4>2. QED
        BY <2>1, <3>1, <4>1 DEF ClearIp, DeleteIp
    <3>2. CASE UpdateIp
      <4>1. i \in Index /\ i # NULL
        BY <2>1, <3>2, MapAssumption DEF UpdateIp, InArray, Index
      <4>2. QED
        BY <2>1, <3>2, <4>1, Zenon DEF UpdateIp, PutIp
    <3>3. CASE ~ClearIp /\ ~UpdateIp
      <4>1. backend_ips_map' = backend_ips_map
        BY <3>3, Zenon DEF Next, SyncBegin, SyncStep, SyncFault, ClearSlot, UpdateSlot, UpdateFails, AttachVeth,
           AttachVethFails, DetachVeth, DetachVethFails, UpdateConfig, Commit, CopyInfo, CopyConfig, maps
      <4>2. QED
        BY <2>1, <4>1
    <3>4. QED
      BY <3>1, <3>2, <3>3
  <2>3. QED
    BY <2>1, <2>2 DEF Registered
<1>2. QED
  BY Invariance, <1>1, PTL DEF Spec, UnmovedStaysRegistered, UnmovedKept

-----------------------------------------------------------------------------
(* Slot k has its new backend and its address is registered. *)
Written(k) == k < Len(newBackends) /\ (k < i \/ (k = i /\ pc = "attach"))

(* Address a was at slot j of the old list and Sync has deleted it there. *)
Dropped(j, a) ==
  /\ j < Len(backends) /\ At(backends, j).IP = a
  /\ j < i \/ (j = i /\ pc \in {"update", "attach"})

(* The entry of a written backend is its index, unless the clearing of a   *)
(* later old slot with its address has deleted it.                         *)
ReverseMap ==
  pc # "idle" => \A k \in Index : Written(k) =>
    LET a == At(newBackends, k).IP IN
    backend_ips_map[a] = IF \E j \in Index : k < j /\ Dropped(j, a) THEN NULL ELSE k

(* The deletion of old address At(backends, i).IP, at pc "clear" or "stale". *)
LEMMA ClearIpReverseMap == IInv /\ IInv' /\ ReverseMap /\ ClearIp => ReverseMap'
<1> SUFFICES ASSUME IInv, IInv', ReverseMap, ClearIp, NEW k \in Index, Written(k)'
             PROVE  LET a == At(newBackends, k).IP IN
                    backend_ips_map'[a] = IF \E j \in Index : k < j /\ Dropped(j, a)' THEN NULL ELSE k
  BY Zenon DEF ReverseMap, ClearIp, At
<1> DEFINE a == At(newBackends, k).IP
           d == At(backends, i).IP
<1>1. /\ Len(backends) \in Nat /\ Len(newBackends) \in Nat /\ i \in Nat /\ k \in Nat /\ i \in Index
      /\ UNCHANGED <<backends, newBackends>> /\ pc \in {"clear", "stale"}
      /\ i < Len(backends)
      /\ backend_ips_map \in [Addr -> Index \cup {NULL}]
      /\ backend_ips_map' = [backend_ips_map EXCEPT ![d] = NULL]
  BY ListFacts, MapAssumption DEF IInv, TypeOK, MapsTypeOK, SyncProgress, LoopPosition, ClearIp, DeleteIp, Index
<1>2. \/ pc = "clear" /\ i' = i /\ pc' = "update"
      \/ pc = "stale" /\ i' = i + 1 /\ pc' \in {"stale", "detach"} /\ i >= Len(newBackends)
  <2>1. CASE pc = "clear"
    BY <2>1, Zenon DEF ClearIp
  <2>2. CASE pc = "stale"
    <3>1. i >= Len(newBackends) /\ i' = i + 1 /\ pc' = Stage(newBackends, i + 1)
      BY <2>2, Zenon DEF ClearIp, GoTo, IInv, SyncProgress, LoopPosition
    <3>2. i + 1 \in Nat /\ ~(i + 1 < Len(newBackends)) /\ newBackends \in Lists \cup {<<>>}
      BY <1>1, <3>1 DEF IInv, TypeOK
    <3>3. QED
      BY <1>1, <2>2, <3>1, <3>2, StageFacts, Zenon
  <2>3. QED
    BY <1>1, <2>1, <2>2
<1>3. k < i /\ k < Len(newBackends) /\ Written(k)
  BY <1>1, <1>2 DEF Written
<1>4. \A j \in Index : Dropped(j, a)' <=> Dropped(j, a) \/ (j = i /\ d = a)
  BY <1>1, <1>2, SMTT(30) DEF Dropped, Index, At
<1>5. a \in Addr
  BY <1>1, <1>3, ListFacts, Zenon DEF IInv, TypeOK, Backend
<1>6. CASE a = d
  BY <1>1, <1>3, <1>4, <1>5, <1>6, Zenon
<1>7. CASE a # d
  <2>1. backend_ips_map'[a] = backend_ips_map[a]
    BY <1>1, <1>5, <1>7, Zenon
  <2>2. backend_ips_map[a] = IF \E j \in Index : k < j /\ Dropped(j, a) THEN NULL ELSE k
    BY <1>1, <1>3, Zenon DEF ReverseMap
  <2>3. QED
    BY <1>4, <1>7, <2>1, <2>2, Zenon
<1>8. QED
  BY <1>6, <1>7, Zenon

(* The registration of the address of newBackends[i]. *)
LEMMA UpdateIpReverseMap == IInv /\ ReverseMap /\ UpdateIp => ReverseMap'
<1> SUFFICES ASSUME IInv, ReverseMap, UpdateIp, NEW k \in Index, Written(k)'
             PROVE  LET a == At(newBackends, k).IP IN
                    backend_ips_map'[a] = IF \E j \in Index : k < j /\ Dropped(j, a)' THEN NULL ELSE k
  BY Zenon DEF ReverseMap, UpdateIp, At
<1> DEFINE a == At(newBackends, k).IP
           e == At(newBackends, i).IP
<1>1. /\ Len(backends) \in Nat /\ Len(newBackends) \in Nat /\ i \in Nat /\ k \in Nat
      /\ UNCHANGED <<backends, newBackends, i>> /\ pc = "update" /\ pc' = "attach"
      /\ i < Len(newBackends)
      /\ backend_ips_map \in [Addr -> Index \cup {NULL}]
      /\ backend_ips_map' = [backend_ips_map EXCEPT ![e] = i]
  BY ListFacts, MapAssumption DEF IInv, TypeOK, MapsTypeOK, SyncProgress, LoopPosition, UpdateIp, PutIp, Index
<1>2. \A j \in Index : Dropped(j, a)' <=> Dropped(j, a)
  BY <1>1 DEF Dropped, At
<1>3. k <= i /\ k < Len(newBackends)
  BY <1>1 DEF Written
<1>4. a \in Addr /\ e \in Addr
  BY <1>1, <1>3, ListFacts, Zenon DEF IInv, TypeOK, Backend
<1>5. CASE k = i
  <2>1. ~ \E j \in Index : k < j /\ Dropped(j, a)
    BY <1>1, <1>5 DEF Dropped, Index
  <2>2. QED
    BY <1>1, <1>2, <1>4, <1>5, <2>1, Zenon
<1>6. CASE k < i
  <2>1. a # e
    BY <1>1, <1>3, <1>6, AddressFacts DEF IInv, TypeOK
  <2>2. backend_ips_map'[a] = backend_ips_map[a]
    BY <1>1, <1>4, <2>1, Zenon
  <2>3. backend_ips_map[a] = IF \E j \in Index : k < j /\ Dropped(j, a) THEN NULL ELSE k
    BY <1>1, <1>3, <1>6, Zenon DEF ReverseMap, Written
  <2>4. QED
    BY <1>2, <2>2, <2>3, Zenon
<1>7. QED
  BY <1>1, <1>3, <1>5, <1>6

(* The move to the next index after AttachVethXDP. *)
LEMMA AttachReverseMap == IInv /\ ReverseMap /\ AttachVeth => ReverseMap'
<1> SUFFICES ASSUME IInv, ReverseMap, AttachVeth, NEW k \in Index, Written(k)'
             PROVE  LET a == At(newBackends, k).IP IN
                    backend_ips_map[a] = IF \E j \in Index : k < j /\ Dropped(j, a)' THEN NULL ELSE k
  BY Zenon DEF ReverseMap, AttachVeth, At, maps
<1> DEFINE a == At(newBackends, k).IP
<1>1. /\ Len(backends) \in Nat /\ Len(newBackends) \in Nat /\ i \in Nat /\ k \in Nat
      /\ UNCHANGED <<backends, newBackends>> /\ pc = "attach" /\ i' = i + 1
      /\ pc' = Stage(newBackends, i + 1)
      /\ i < Len(newBackends) /\ newBackends \in Lists \cup {<<>>}
  BY ListFacts, MapAssumption DEF IInv, TypeOK, SyncProgress, LoopPosition, AttachVeth, GoTo, Index
<1>2. pc' \in {"clear", "update", "stale", "detach"} /\ (pc' = "update" => i + 1 < Len(newBackends))
  BY <1>1, StageFacts
<1>3. k < i + 1 /\ k < Len(newBackends) /\ Written(k)
  BY <1>1, <1>2 DEF Written
<1>4. pc' = "update" /\ i + 1 < Len(backends) => At(backends, i + 1).IP # a
  <2> SUFFICES ASSUME pc' = "update", i + 1 < Len(backends) PROVE At(backends, i + 1).IP # a
    OBVIOUS
  <2>1. At(backends, i + 1).IP = At(newBackends, i + 1).IP
    BY <1>1, UpdateStage
  <2>2. At(newBackends, i + 1).IP # a
    BY <1>1, <1>2, <1>3, AddressFacts
  <2>3. QED
    BY <2>1, <2>2
<1>5. \A j \in Index : Dropped(j, a)' <=> Dropped(j, a)
  BY <1>1, <1>2, <1>4 DEF Dropped, Index, At
<1>6. backend_ips_map[a] = IF \E j \in Index : k < j /\ Dropped(j, a) THEN NULL ELSE k
  BY <1>1, <1>3, Zenon DEF ReverseMap
<1>7. QED
  BY <1>5, <1>6, Zenon

(* Every step of Sync keeps ReverseMap. *)
LEMMA NextReverseMap == IInv /\ IInv' /\ ReverseMap /\ [Next]_vars => ReverseMap'
<1> SUFFICES ASSUME IInv, IInv', ReverseMap, [Next]_vars PROVE ReverseMap'
  BY Zenon
<1>1. CASE \E list \in Lists : SyncBegin(list)
  <2>1. PICK list \in Lists : SyncBegin(list)
    BY <1>1, Zenon
  <2>2. i' = 0 /\ pc' = Stage(list, 0) /\ Len(backends) \in Nat
    BY <2>1, ListFacts, Zenon DEF SyncBegin, GoTo, IInv, TypeOK
  <2>3. pc' # "attach"
    BY <2>2, StageFacts
  <2>4. QED
    BY <2>2, <2>3, MapAssumption DEF ReverseMap, Written, Index
<1>2. CASE ClearIp
  BY <1>2, ClearIpReverseMap
<1>3. CASE UpdateIp
  BY <1>3, UpdateIpReverseMap
<1>4. CASE AttachVeth
  BY <1>4, AttachReverseMap, Zenon
<1>5. CASE pc' = "idle"
  BY <1>5, Zenon DEF ReverseMap
<1>6. CASE ClearSlot \/ UpdateSlot \/ UpdateConfig \/ (\E v \in Veth : DetachVeth(v)) \/ UNCHANGED vars
  <2>1. UNCHANGED <<backend_ips_map, backends, newBackends, i, pc>>
    BY <1>6 DEF ClearSlot, UpdateSlot, UpdateConfig, DetachVeth, CopyInfo, CopyConfig, vars, poolVars, maps
  <2>2. QED
    BY <2>1, Zenon DEF ReverseMap, Written, Dropped, At
<1>7. QED
  BY <1>1, <1>2, <1>3, <1>4, <1>5, <1>6, Zenon
     DEF Next, SyncStep, SyncFault, UpdateFails, AttachVethFails, DetachVethFails, Commit, Return

ReverseMapAtCommit ==
  pc = "detach" /\ pc' = "idle" /\ ~err' =>
    \A k \in Index : k < Len(newBackends) =>
      LET a == At(newBackends, k).IP
          movedDown == \E j \in Index :
                         k < j /\ j < Len(backends) /\ At(backends, j).IP = a
      IN backend_ips_map[a] = IF movedDown THEN NULL ELSE k

(* What a successful Sync leaves in backend_ips_map, for every old and new *)
(* list: a backend's index, or nothing if the old list had its address at  *)
(* a higher index.                                                         *)
THEOREM CommitReverseMap == Spec => ReverseMapOnCommit
<1>1. Init => ReverseMap
  BY Zenon DEF Init, ReverseMap
<1>2. IInv /\ ReverseMap /\ [Next]_vars => [ReverseMapAtCommit]_vars
  <2> SUFFICES ASSUME IInv, ReverseMap, pc = "detach", NEW k \in Index, k < Len(newBackends)
               PROVE  LET a == At(newBackends, k).IP
                          movedDown == \E j \in Index :
                                         k < j /\ j < Len(backends) /\ At(backends, j).IP = a
                      IN backend_ips_map[a] = IF movedDown THEN NULL ELSE k
    BY Zenon DEF ReverseMapAtCommit
  <2> DEFINE a == At(newBackends, k).IP
  <2>1. /\ Len(backends) \in Nat /\ Len(newBackends) \in Nat /\ i \in Nat /\ k \in Nat
        /\ i >= Len(newBackends) /\ i >= Len(backends)
    BY ListFacts, MapAssumption DEF IInv, TypeOK, SyncProgress, LoopPosition, Index
  <2>2. Written(k)
    BY <2>1 DEF Written
  <2>3. \A j \in Index : Dropped(j, a) <=> j < Len(backends) /\ At(backends, j).IP = a
    BY <2>1, MapAssumption DEF Dropped, Index
  <2>4. backend_ips_map[a] = IF \E j \in Index : k < j /\ Dropped(j, a) THEN NULL ELSE k
    BY <2>2 DEF ReverseMap
  <2>5. QED
    BY <2>3, <2>4, Zenon
<1>3. QED
  BY Invariance, NextReverseMap, <1>1, <1>2, PTL DEF Spec, ReverseMapOnCommit, ReverseMapAtCommit

-----------------------------------------------------------------------------
(* Address a is at a slot of the old list that Sync has not come to yet. *)
Pending(a) ==
  \E j \in Index :
    /\ j < Len(backends) /\ At(backends, j).IP = a
    /\ \/ j > i
       \/ j = i /\ pc \in {"clear", "stale"}
       \/ j = i /\ pc = "update" /\ At(newBackends, i).IP = a

(* During a Sync, what is registered is pending or written, a veth in      *)
(* byVeth is yet to be detached or is that of a backend behind i.          *)
ResidueIps ==
  \A a \in Registered :
    Pending(a) \/ \E k \in Index : Written(k) /\ At(newBackends, k).IP = a

ResidueVeths ==
  \A v \in byVeth :
    \/ v \in oldByVeth
    \/ \E k \in Index : k < i /\ k < Len(newBackends) /\ At(newBackends, k).VethName = v

NoResidue ==
  ~failedOnce =>
    /\ NoResidueWithoutFailure
    /\ pc # "idle" => ResidueIps /\ ResidueVeths /\ ResidueSlots

(* Where the loops are when they reach a slot of the old list. *)
LEMMA StageOfOld ==
  ASSUME NEW list \in Lists \cup {<<>>}, NEW k \in Nat, Len(backends) \in Nat, k < Len(backends)
  PROVE  \/ Stage(list, k) \in {"clear", "stale"}
         \/ Stage(list, k) = "update" /\ At(list, k).IP = At(backends, k).IP
<1>1. Len(list) \in Nat
  BY ListFacts
<1>2. QED
  BY <1>1 DEF Stage, HeldByOther

(* The call of Sync: all of the old list is pending. *)
LEMMA SyncBeginResidue ==
  ASSUME IInv, NoResidueWithoutFailure, ~failedOnce, NEW list \in Lists, SyncBegin(list)
  PROVE  ResidueIps' /\ ResidueVeths' /\ ResidueSlots'
<1>1. /\ Len(backends) \in Nat /\ Len(backends) <= MAX_BACKENDS /\ MAX_BACKENDS \in Nat
      /\ i' = 0 /\ pc' = Stage(list, 0) /\ newBackends' = list
      /\ UNCHANGED <<maps, backends, byVeth, vethLinks>>
      /\ oldByVeth' = VethNames(backends)
  BY ListFacts, MapAssumption, Zenon DEF SyncBegin, GoTo, IInv, TypeOK
<1>2. /\ Registered \subseteq Addrs(backends)
      /\ vethLinks = VethNames(backends)
      /\ \A k \in Index : k >= Len(backends) => backend_map[k] = ZeroInfo
  BY Zenon DEF NoResidueWithoutFailure, SyncBegin
<1>3. ResidueIps'
  <2> SUFFICES ASSUME NEW a \in Registered' PROVE Pending(a)'
    BY DEF ResidueIps
  <2>1. a \in Registered
    BY <1>1 DEF Registered, maps
  <2>2. PICK n \in 1 .. Len(backends) : backends[n].IP = a
    BY <1>2, <2>1 DEF Addrs
  <2>3. n - 1 \in Index /\ n - 1 < Len(backends) /\ At(backends, n - 1).IP = a
    BY <1>1, <2>2 DEF Index, At
  <2>4. n - 1 = 0 => \/ pc' \in {"clear", "stale"}
                     \/ pc' = "update" /\ At(list, 0).IP = a
    BY <1>1, <2>3, StageOfOld
  <2>5. n - 1 > 0 \/ n - 1 = 0
    BY <1>1
  <2>6. QED
    BY <1>1, <2>3, <2>4, <2>5, Zenon DEF Pending, At
<1>4. ResidueVeths' /\ ResidueSlots'
  BY <1>1, <1>2 DEF ResidueVeths, ResidueSlots, IInv, SyncProgress, VethsAttached, maps
<1>5. QED
  BY <1>3, <1>4, Zenon

(* The deletion of an old address takes it out of the pending ones. *)
LEMMA ClearIpResidue ==
  ASSUME IInv, ClearIp, ResidueIps
  PROVE  ResidueIps'
<1> SUFFICES ASSUME NEW a \in Registered'
             PROVE  Pending(a)' \/ \E k \in Index : Written(k)' /\ At(newBackends', k).IP = a
  BY Zenon DEF ResidueIps, At
<1> DEFINE d == At(backends, i).IP
<1>1. /\ Len(backends) \in Nat /\ i \in Nat /\ MAX_BACKENDS \in Nat /\ i < Len(backends)
      /\ UNCHANGED <<backends, newBackends>> /\ pc \in {"clear", "stale"}
      /\ newBackends \in Lists \cup {<<>>}
      /\ backend_ips_map \in [Addr -> Index \cup {NULL}]
      /\ backend_ips_map' = [backend_ips_map EXCEPT ![d] = NULL]
  BY ListFacts, MapAssumption, Zenon DEF IInv, TypeOK, MapsTypeOK, SyncProgress, LoopPosition, ClearIp, DeleteIp
<1>2. \/ i' = i /\ pc' = "update"
      \/ i' = i + 1 /\ pc' = Stage(newBackends, i + 1)
  BY Zenon DEF ClearIp, GoTo
<1>3. a \in Registered /\ a # d
  BY <1>1, Zenon DEF Registered
<1>4. CASE Pending(a)
  <2>1. PICK j \in Index : j < Len(backends) /\ At(backends, j).IP = a /\ j >= i
    BY <1>1, <1>4 DEF Pending, Index
  <2>2. j > i /\ j \in Nat
    BY <1>1, <1>3, <2>1 DEF Index
  <2>3. CASE i' = i
    BY <1>1, <2>1, <2>2, <2>3, Zenon DEF Pending, At
  <2>4. CASE i' = i + 1 /\ pc' = Stage(newBackends, i + 1)
    <3>1. j = i + 1 => \/ pc' \in {"clear", "stale"}
                       \/ pc' = "update" /\ At(newBackends, i + 1).IP = a
      BY <1>1, <2>1, <2>2, <2>4, StageOfOld, Zenon
    <3>2. j > i + 1 \/ j = i + 1
      BY <1>1, <2>2
    <3>3. QED
      BY <1>1, <2>1, <2>4, <3>1, <3>2, Zenon DEF Pending, At
  <2>5. QED
    BY <1>2, <2>3, <2>4, Zenon
<1>5. CASE \E k \in Index : Written(k) /\ At(newBackends, k).IP = a
  <2>1. PICK k \in Index : Written(k) /\ At(newBackends, k).IP = a
    BY <1>5, Zenon
  <2>2. k < i /\ k < Len(newBackends) /\ k \in Nat
    BY <1>1, <2>1 DEF Written, Index
  <2>3. Written(k)'
    BY <1>1, <1>2, <2>2 DEF Written
  <2>4. QED
    BY <1>1, <2>1, <2>3, Zenon
<1>6. QED
  BY <1>3, <1>4, <1>5, Zenon DEF ResidueIps

(* The registration of a new address makes it a written one. *)
LEMMA UpdateIpResidue ==
  ASSUME IInv, UpdateIp, ResidueIps
  PROVE  ResidueIps'
<1> SUFFICES ASSUME NEW a \in Registered'
             PROVE  Pending(a)' \/ \E k \in Index : Written(k)' /\ At(newBackends', k).IP = a
  BY DEF ResidueIps, At
<1> DEFINE e == At(newBackends, i).IP
<1>1. /\ i \in Nat /\ i \in Index /\ i < Len(newBackends)
      /\ UNCHANGED <<backends, newBackends, i>> /\ pc = "update" /\ pc' = "attach"
      /\ backend_ips_map \in [Addr -> Index \cup {NULL}]
      /\ backend_ips_map' = [backend_ips_map EXCEPT ![e] = i]
  BY MapAssumption DEF IInv, TypeOK, MapsTypeOK, SyncProgress, LoopPosition, UpdateIp, PutIp, InArray, Index
<1>2. CASE a = e
  BY <1>1, <1>2, Zenon DEF Written
<1>3. CASE a # e
  <2>1. a \in Registered
    BY <1>1, <1>3, Zenon DEF Registered
  <2>2. CASE Pending(a)
    BY <1>1, <1>3, <2>2, Zenon DEF Pending, At
  <2>3. CASE \E k \in Index : Written(k) /\ At(newBackends, k).IP = a
    BY <1>1, <2>3 DEF Written
  <2>4. QED
    BY <2>1, <2>2, <2>3, Zenon DEF ResidueIps
<1>4. QED
  BY <1>2, <1>3, Zenon

(* The move to the next index after AttachVethXDP. *)
LEMMA AttachResidue ==
  ASSUME IInv, AttachVeth, ResidueIps, ResidueVeths
  PROVE  ResidueIps' /\ ResidueVeths'
<1>1. /\ Len(backends) \in Nat /\ i \in Nat /\ i \in Index /\ i < Len(newBackends) /\ MAX_BACKENDS \in Nat
      /\ UNCHANGED <<maps, backends, newBackends>> /\ pc = "attach"
      /\ newBackends \in Lists \cup {<<>>}
      /\ i' = i + 1 /\ pc' = Stage(newBackends, i + 1)
  BY ListFacts, MapAssumption DEF IInv, TypeOK, SyncProgress, LoopPosition, AttachVeth, GoTo, Index
<1>2. ResidueIps'
  <2> SUFFICES ASSUME NEW a \in Registered'
               PROVE  Pending(a)' \/ \E k \in Index : Written(k)' /\ At(newBackends', k).IP = a
    BY Zenon DEF ResidueIps, At
  <2>1. a \in Registered
    BY <1>1, Zenon DEF Registered, maps
  <2>2. CASE Pending(a)
    <3>1. PICK j \in Index : j < Len(backends) /\ At(backends, j).IP = a /\ j > i
      BY <1>1, <2>2, Zenon DEF Pending
    <3>2. j \in Nat /\ (j > i + 1 \/ j = i + 1)
      BY <1>1, <3>1 DEF Index
    <3>3. j = i + 1 => \/ pc' \in {"clear", "stale"}
                       \/ pc' = "update" /\ At(newBackends, i + 1).IP = a
      BY <1>1, <3>1, <3>2, StageOfOld, Zenon
    <3>4. QED
      BY <1>1, <3>1, <3>2, <3>3, Zenon DEF Pending, At
  <2>3. CASE \E k \in Index : Written(k) /\ At(newBackends, k).IP = a
    <3>1. PICK k \in Index : Written(k) /\ At(newBackends, k).IP = a
      BY <2>3
    <3>2. k < i + 1 /\ k < Len(newBackends)
      BY <1>1, <3>1 DEF Written, Index
    <3>3. Written(k)'
      BY <1>1, <3>2, Zenon DEF Written
    <3>4. QED
      BY <1>1, <3>1, <3>3, Zenon
  <2>4. QED
    BY <2>1, <2>2, <2>3, Zenon DEF ResidueIps
<1>3. ResidueVeths'
  <2> DEFINE u == At(newBackends, i).VethName
  <2> SUFFICES ASSUME NEW v \in byVeth'
               PROVE  \/ v \in oldByVeth'
                      \/ \E k \in Index : k < i' /\ k < Len(newBackends) /\ At(newBackends, k).VethName = v
    BY <1>1 DEF ResidueVeths, At
  <2>1. byVeth' = byVeth \cup {u} /\ oldByVeth' = oldByVeth \ {u}
    BY DEF AttachVeth
  <2>2. CASE v = u
    BY <1>1, <2>2
  <2>3. CASE v # u
    <3>1. v \in byVeth
      BY <2>1, <2>3, Zenon
    <3>2. CASE v \in oldByVeth
      BY <2>1, <2>3, <3>2, Zenon
    <3>3. CASE \E k \in Index : k < i /\ k < Len(newBackends) /\ At(newBackends, k).VethName = v
      BY <1>1, <3>3 DEF Index
    <3>4. QED
      BY <3>1, <3>2, <3>3 DEF ResidueVeths
  <2>4. QED
    BY <2>2, <2>3, Zenon
<1>4. QED
  BY <1>2, <1>3, Zenon

(* The commit: nothing is pending, and what is written is the new list. *)
LEMMA CommitResidue ==
  ASSUME IInv, IInv', Commit, ResidueIps, ResidueVeths, ResidueSlots
  PROVE  NoResidueWithoutFailure'
<1>1. /\ Len(backends) \in Nat /\ Len(newBackends) \in Nat /\ i \in Nat /\ pc = "detach"
      /\ i >= Len(newBackends) /\ i >= Len(backends) /\ oldByVeth = {} /\ pc' = "idle" /\ ~err'
      /\ backends' = newBackends /\ UNCHANGED <<maps, byVeth, vethLinks>>
  BY ListFacts, Zenon DEF IInv, TypeOK, SyncProgress, LoopPosition, Commit, Return
<1>2. Registered \subseteq Addrs(newBackends)
  <2> SUFFICES ASSUME NEW a \in Registered PROVE a \in Addrs(newBackends)
    BY Zenon
  <2>1. ~Pending(a)
    BY <1>1, MapAssumption DEF Pending, Index
  <2>2. PICK k \in Index : Written(k) /\ At(newBackends, k).IP = a
    BY <2>1, Zenon DEF ResidueIps
  <2>3. k + 1 \in 1 .. Len(newBackends)
    BY <1>1, <2>2, MapAssumption DEF Written, Index
  <2>4. QED
    BY <2>2, <2>3, Zenon DEF Addrs, At
<1>3. vethLinks = VethNames(newBackends)
  <2>1. VethNames(newBackends) \subseteq vethLinks
    BY <1>1, Zenon DEF IInv, SyncedExactly
  <2>2. ASSUME NEW v \in vethLinks PROVE v \in VethNames(newBackends)
    <3>1. v \in byVeth
      BY Zenon DEF IInv, SyncProgress, VethsAttached
    <3>2. PICK k \in Index : k < Len(newBackends) /\ At(newBackends, k).VethName = v
      BY <1>1, <3>1, Zenon DEF ResidueVeths
    <3>3. k + 1 \in 1 .. Len(newBackends)
      BY <1>1, <3>2, MapAssumption DEF Index
    <3>4. QED
      BY <3>2, <3>3, Zenon DEF VethNames, At
  <2>3. QED
    BY <2>1, <2>2, Zenon
<1>4. \A k \in Index : k >= Len(newBackends) => backend_map[k] = ZeroInfo
  <2> SUFFICES ASSUME NEW k \in Index, k >= Len(newBackends) PROVE backend_map[k] = ZeroInfo
    OBVIOUS
  <2>1. CASE k >= Len(backends)
    BY <2>1, Zenon DEF ResidueSlots
  <2>2. CASE k < Len(backends)
    <3>1. k < i /\ ~(k < Len(newBackends))
      BY <1>1, <2>2, MapAssumption DEF Index
    <3>2. QED
      BY <1>1, <3>1, Zenon DEF IInv, SyncProgress, SlotsWritten
  <2>3. QED
    BY <1>1, <2>1, <2>2, MapAssumption DEF Index
<1>5. QED
  BY <1>1, <1>2, <1>3, <1>4 DEF NoResidueWithoutFailure, Registered, Addrs, VethNames, ZeroInfo, maps

(* Every step keeps NoResidue; a failing Sync ends its premise. *)
LEMMA NextNoResidue == IInv /\ IInv' /\ NoResidue /\ [Next]_vars => NoResidue'
<1> SUFFICES ASSUME IInv, IInv', NoResidue, [Next]_vars, ~failedOnce'
             PROVE  /\ NoResidueWithoutFailure'
                    /\ pc' # "idle" => ResidueIps' /\ ResidueVeths' /\ ResidueSlots'
  BY Zenon DEF NoResidue
<1>1. CASE UNCHANGED vars
  BY <1>1 DEF NoResidue, NoResidueWithoutFailure, ResidueIps, ResidueVeths, ResidueSlots, Pending, Written,
     Registered, Addrs, VethNames, At, ZeroInfo, vars, maps, poolVars
<1>2. CASE \E list \in Lists : SyncBegin(list)
  <2>1. PICK list \in Lists : SyncBegin(list)
    BY <1>2, Zenon
  <2>2. ~failedOnce /\ Len(backends) \in Nat /\ pc' = Stage(list, 0)
    BY <2>1, ListFacts, Zenon DEF SyncBegin, GoTo, IInv, TypeOK
  <2>3. pc' # "idle"
    BY <2>2, StageFacts, Zenon
  <2>4. QED
    BY <2>1, <2>2, <2>3, SyncBeginResidue, Zenon DEF NoResidue, NoResidueWithoutFailure
<1>3. CASE SyncStep \/ SyncFault
  <2>1. pc # "idle"
    BY <1>3, Zenon DEF SyncStep, SyncFault, ClearSlot, ClearIp, UpdateSlot, UpdateIp, UpdateFails, AttachVeth,
       AttachVethFails, DetachVeth, DetachVethFails, UpdateConfig, Commit
  <2>2. CASE UpdateFails \/ SyncFault
    BY <2>2, Zenon DEF UpdateFails, SyncFault, AttachVethFails, DetachVethFails, Return
  <2>3. CASE Commit
    <3>1. ~failedOnce
      BY <2>3, Zenon DEF Commit, Return
    <3>2. QED
      BY <2>1, <2>3, <3>1, CommitResidue, Zenon DEF NoResidue, Commit, Return
  <2>4. CASE SyncStep /\ ~UpdateFails /\ ~Commit
    <3>1. failedOnce' = failedOnce /\ UNCHANGED <<backends, newBackends>> /\ pc' # "idle"
      <4>1. CASE ClearIp \/ AttachVeth
        <5>1. Len(backends) \in Nat /\ i + 1 \in Nat /\ newBackends \in Lists \cup {<<>>}
          BY ListFacts DEF IInv, TypeOK
        <5>2. QED
          BY <4>1, <5>1, StageFacts, Zenon DEF ClearIp, AttachVeth, GoTo
      <4>2. CASE ~(ClearIp \/ AttachVeth)
        BY <2>1, <2>4, <4>2, Zenon DEF SyncStep, ClearSlot, UpdateSlot, UpdateIp, DetachVeth, UpdateConfig, poolVars
      <4>3. QED
        BY <4>1, <4>2, Zenon
    <3>2. ResidueIps /\ ResidueVeths /\ ResidueSlots
      BY <2>1, <3>1 DEF NoResidue
    <3>3. ResidueIps'
      <4>1. CASE ClearIp
        BY <3>2, <4>1, ClearIpResidue
      <4>2. CASE UpdateIp
        BY <3>2, <4>2, UpdateIpResidue
      <4>3. CASE AttachVeth
        BY <3>2, <4>3, AttachResidue, Zenon
      <4>4. CASE ~(ClearIp \/ UpdateIp \/ AttachVeth)
        <5>1. UNCHANGED <<backend_ips_map, backends, newBackends, i, pc>>
          BY <2>4, <4>4, Zenon DEF SyncStep, ClearSlot, UpdateSlot, DetachVeth, UpdateConfig, CopyInfo, CopyConfig, poolVars, maps
        <5>2. QED
          BY <3>2, <5>1, Zenon DEF ResidueIps, Registered, Pending, Written, At
      <4>5. QED
        BY <4>1, <4>2, <4>3, <4>4, Zenon
    <3>4. ResidueVeths'
      <4>1. CASE AttachVeth
        BY <3>2, <4>1, AttachResidue, Zenon
      <4>2. CASE \E v \in Veth : DetachVeth(v)
        BY <3>2, <4>2, Zenon DEF DetachVeth, ResidueVeths, At
      <4>3. CASE ~AttachVeth /\ ~ \E v \in Veth : DetachVeth(v)
        <5>1. UNCHANGED <<byVeth, oldByVeth, newBackends>> /\ (i' = i \/ i' = i + 1)
          BY <2>4, <4>3, Zenon DEF SyncStep, ClearSlot, ClearIp, UpdateSlot, UpdateIp, UpdateConfig, GoTo, poolVars
        <5>2. i \in Nat /\ MAX_BACKENDS \in Nat
          BY MapAssumption DEF IInv, TypeOK
        <5>3. QED
          BY <3>2, <5>1, <5>2 DEF ResidueVeths, At, Index
      <4>4. QED
        BY <4>1, <4>2, <4>3
    <3>5. ResidueSlots'
      BY <3>1, <3>2, NextSlotsClean DEF SlotsClean
    <3>6. QED
      BY <3>1, <3>3, <3>4, <3>5, Zenon DEF NoResidueWithoutFailure
  <2>5. QED
    BY <1>3, <2>2, <2>3, <2>4, Zenon
<1>4. QED
  BY <1>1, <1>2, <1>3, Zenon DEF Next

(* Nothing of an older list is left once a Sync returns nil. *)
LEMMA ResidueInvariance == Spec => []NoResidue
<1>1. Init => NoResidue
  BY DEF Init, MapsInit, NoResidue, NoResidueWithoutFailure, Registered, VethNames, Addrs
<1>2. QED
  BY Invariance, <1>1, NextNoResidue, PTL DEF Spec

(* As long as no Sync has failed, an idle pool leaves no address, no veth  *)
(* and no slot behind, for every sequence of lists.                        *)
THEOREM CleanWithoutFailure == Spec => []NoResidueWithoutFailure
<1>1. NoResidue => NoResidueWithoutFailure
  BY DEF NoResidue, NoResidueWithoutFailure
<1>2. QED
  BY ResidueInvariance, <1>1, PTL

-----------------------------------------------------------------------------
(* oldByVeth starts as the veths of p.backends and is only taken from. *)
OldVeths == oldByVeth \subseteq VethNames(backends)

LEMMA NextOldVeths == OldVeths /\ [Next]_vars => OldVeths'
  BY Zenon DEF OldVeths, VethNames, Next, vars, poolVars, SyncBegin, SyncStep, SyncFault, ClearSlot, ClearIp, UpdateSlot, UpdateIp,
         UpdateFails, AttachVeth, DetachVeth, UpdateConfig, Commit, AttachVethFails, DetachVethFails, Return

LEMMA OldVethsInvariance == Spec => []OldVeths
<1>1. Init => OldVeths
  BY Zenon DEF Init, OldVeths
<1>2. QED
  BY <1>1, NextOldVeths, PTL DEF Spec

(* A Sync of the list that is in place writes into each slot, and for each *)
(* address, what is there, and meets nothing to clear or to detach.        *)
LEMMA ResyncStep ==
  ASSUME IInv, OldVeths, pc # "idle", newBackends = backends, InPlace, [Next]_vars
  PROVE  UNCHANGED <<maps, vethLinks>> /\ (pc' = "idle" => ~err')
<1>1. /\ i \in Nat /\ Len(backends) \in Nat /\ Len(backends) <= MAX_BACKENDS /\ MAX_BACKENDS \in Nat
      /\ backend_map \in [Index -> backend_info] /\ config_map \in lb_config
      /\ backend_ips_map \in [Addr -> Index \cup {NULL}]
      /\ \A k \in Nat : k < Len(backends) => At(backends, k) \in Backend
  BY ListFacts, MapAssumption, Zenon DEF IInv, TypeOK, MapsTypeOK
<1>2. pc \notin {"clear", "stale"}
  BY <1>1 DEF IInv, SyncProgress, LoopPosition
<1>3. pc \in {"update", "attach"} =>
        /\ i \in Index /\ i < Len(backends)
        /\ backend_map[i] = Info(At(backends, i)) /\ backend_ips_map[At(backends, i).IP] = i
        /\ At(backends, i).VethName \in vethLinks
  <2> SUFFICES ASSUME pc \in {"update", "attach"}
               PROVE  /\ i \in Index /\ i < Len(backends)
                      /\ backend_map[i] = Info(At(backends, i)) /\ backend_ips_map[At(backends, i).IP] = i
                      /\ At(backends, i).VethName \in vethLinks
    BY Zenon
  <2>1. i \in Index /\ i < Len(backends)
    BY <1>1 DEF IInv, SyncProgress, LoopPosition, Index
  <2>2. i + 1 \in 1 .. Len(backends)
    BY <1>1, <2>1
  <2>3. QED
    BY <2>1, <2>2, Zenon DEF InPlace, VethNames, At
<1>4. pc = "detach" => oldByVeth = {}
  <2> SUFFICES ASSUME pc = "detach", NEW v \in oldByVeth PROVE FALSE
    OBVIOUS
  <2>1. PICK n \in 1 .. Len(backends) : v = backends[n].VethName
    BY Zenon DEF OldVeths, VethNames
  <2>2. n - 1 \in Index /\ n - 1 < i /\ n - 1 < Len(backends) /\ At(backends, n - 1) = backends[n]
    BY <1>1 DEF IInv, SyncProgress, LoopPosition, Index, At
  <2>3. QED
    BY <2>1, <2>2 DEF IInv, SyncProgress, VethsAttached
<1>5. vethLinks = byVeth
  BY DEF IInv, SyncProgress, VethsAttached
<1>6. CASE UpdateSlot
  <2>1. backend_map' = backend_map
    BY <1>1, <1>3, <1>6 DEF UpdateSlot, CopyInfo, backend_info, Info
  <2>2. QED
    BY <1>6, <2>1 DEF UpdateSlot, CopyInfo, maps, poolVars
<1>7. CASE UpdateIp
  <2>1. backend_ips_map' = backend_ips_map
    <3>1. At(backends, i).IP \in Addr
      BY <1>1, <1>3, <1>7, Zenon DEF UpdateIp, Backend
    <3>2. QED
      BY <1>1, <1>3, <1>7, <3>1, Zenon DEF UpdateIp, PutIp
  <2>2. QED
    BY <1>7, <2>1, Zenon DEF UpdateIp, PutIp, maps
<1>8. ~UpdateFails
  <2> SUFFICES ASSUME pc = "update" PROVE InArray(i) /\ HasRoom(At(newBackends, i).IP)
    BY Zenon DEF UpdateFails
  <2>1. InArray(i) /\ i # NULL /\ At(backends, i).IP \in Addr
    BY <1>1, <1>3, MapAssumption DEF InArray, Backend
  <2>2. QED
    BY <1>3, <2>1 DEF HasRoom, Registered
<1>9. CASE AttachVeth
  <2>1. pc' \in {"clear", "update", "stale", "detach"}
    BY <1>1, <1>9, StageFacts DEF AttachVeth, GoTo, IInv, TypeOK
  <2>2. QED
    BY <1>3, <1>5, <1>9, <2>1, Zenon DEF AttachVeth
<1>10. CASE UpdateConfig
  <2>1. config_map' = config_map
    BY <1>1, <1>10, Zenon DEF UpdateConfig, CopyConfig, InPlace, lb_config
  <2>2. QED
    BY <1>10, <2>1 DEF UpdateConfig, CopyConfig, maps, poolVars
<1>11. CASE Commit
  BY <1>11 DEF Commit, Return
<1>12. ~(AttachVethFails \/ \E v \in Veth : DetachVeth(v) \/ DetachVethFails(v))
  BY <1>3, <1>4, Zenon DEF AttachVethFails, DetachVeth, DetachVethFails
<1>13. CASE UNCHANGED vars
  BY <1>13 DEF vars, poolVars
<1>14. QED
  BY <1>2, <1>6, <1>7, <1>8, <1>9, <1>10, <1>11, <1>12, <1>13, Zenon
     DEF Next, SyncBegin, SyncStep, SyncFault, ClearSlot, ClearIp

(* Polling an unchanged list is invisible to the data plane: whatever the  *)
(* past, once p.backends is in place every further Sync of that list       *)
(* leaves the maps and the veths alone at each of its steps, and succeeds. *)
THEOREM ResyncInvisible == Spec => ResyncIsInvisible
<1>1. IInv /\ OldVeths /\ [Next]_vars =>
        [pc # "idle" /\ newBackends = backends /\ InPlace =>
           UNCHANGED <<maps, vethLinks>> /\ (pc' = "idle" => ~err')]_vars
  BY ResyncStep
<1>2. QED
  BY <1>1, Invariance, OldVethsInvariance, PTL DEF Spec, ResyncIsInvisible
=============================================================================
