----------------------------- MODULE PoolProofs -----------------------------
(***************************************************************************)
(* Proofs about Pool.Sync for every set of backends, every map size and    *)
(* every choice of failing calls.  The inductive invariant is IInv: the    *)
(* types, SyncProgress (what Sync has established at each pc) and          *)
(* SyncedExactly; MapInv is its part about the maps.  The last part has the facts about the XDP programs      *)
(* running against Sync that the proofs of the whole system share: the     *)
(* programs keep their types, and as long as Syncs only append backends    *)
(* every index a program may hold stays the index of one backend, with its *)
(* slot, its address and its veth in place.                                *)
(***************************************************************************)
EXTENDS Pool, XdpLb, TLAPS

IInv == TypeOK /\ SyncProgress /\ SyncedExactly

(* The lists Sync works on: their lengths and their items. *)
LEMMA ListFacts ==
  ASSUME NEW list \in Lists \cup {<<>>}
  PROVE  /\ Len(list) \in Nat
         /\ \A k \in Nat : k < Len(list) => At(list, k) \in Backend
         /\ VethNames(list) \subseteq Veth
<1>1. list \in Seq(Backend)
  <2>1. CASE list \in Lists
    BY <2>1, PoolAssumption
  <2>2. CASE list = <<>>
    BY <2>2
  <2>3. QED
    BY <2>1, <2>2
<1>2. Len(list) \in Nat /\ \A n \in 1 .. Len(list) : list[n] \in Backend
  BY <1>1
<1>3. \A k \in Nat : k < Len(list) => k + 1 \in 1 .. Len(list)
  BY <1>2
<1>4. \A k \in Nat : k < Len(list) => At(list, k) \in Backend
  BY <1>2, <1>3 DEF At
<1>6. VethNames(list) \subseteq Veth
  BY <1>2 DEF VethNames, Backend
<1>7. QED
  BY <1>2, <1>4, <1>6

(* Stage says where index k lies with respect to the two loops. *)
LEMMA StageFacts ==
  ASSUME NEW list \in Lists \cup {<<>>}, NEW k \in Nat, Len(backends) \in Nat
  PROVE  /\ Stage(list, k) \in {"clear", "update", "stale", "detach"}
         /\ Stage(list, k) = "clear" => /\ k < Len(list) /\ k < Len(backends)
                                       /\ At(backends, k).IP # At(list, k).IP
         /\ Stage(list, k) = "update" => k < Len(list)
         /\ Stage(list, k) = "stale" => k >= Len(list) /\ k < Len(backends)
         /\ Stage(list, k) = "detach" => k >= Len(list) /\ k >= Len(backends)
<1>1. Len(list) \in Nat
  BY ListFacts
<1>2. QED
  BY <1>1 DEF Stage, HeldByOther

(* The part of the invariant that speaks of the maps.  It does not need    *)
(* the veths, so it also holds while Manager.Close takes their links away. *)
MapProgress == LoopPosition /\ SlotsWritten /\ CountUnpublished
MapInv == TypeOK /\ MapProgress

(* NewPool and the freshly loaded maps satisfy it. *)
LEMMA InitMaps == Init => MapInv
<1> SUFFICES ASSUME Init PROVE MapInv
  OBVIOUS
<1> USE DEF Init, MapsInit
<1>1. TypeOK
  <2>1. MapsTypeOK
    BY MapAssumption DEF MapsTypeOK, lb_config, backend_info, ZeroInfo
  <2>2. Len(backends) <= MAX_BACKENDS /\ i \in Nat
    BY MapAssumption
  <2>3. QED
    BY <2>1, <2>2, Zenon DEF TypeOK
<1>2. MapProgress
  BY DEF MapProgress, LoopPosition, SlotsWritten, CountUnpublished
<1>3. QED
  BY <1>1, <1>2 DEF MapInv

(***************************************************************************)
(* One lemma per action of Pool: each preserves MapInv.                    *)
(***************************************************************************)
(* The first half of ClearBackend: a slot is zeroed field by field. *)
LEMMA ClearSlotMaps == MapInv /\ ClearSlot => MapInv'
<1> SUFFICES ASSUME MapInv, ClearSlot PROVE MapInv'
  OBVIOUS
<1> USE DEF MapInv, ClearSlot, CopyInfo, poolVars
<1>1. i \in Index /\ pc \in {"clear", "stale"} /\ Len(backends) \in Nat /\ Len(newBackends) \in Nat
  BY ListFacts, MapAssumption DEF TypeOK, MapProgress, LoopPosition, Index
<1>2. TypeOK'
  <2>1. MapsTypeOK'
    BY <1>1 DEF TypeOK, MapsTypeOK, backend_info, ZeroInfo
  <2>2. QED
    BY <2>1, Zenon DEF TypeOK
<1>3. MapProgress'
  <2>1. LoopPosition'
    BY DEF MapProgress, LoopPosition
  <2>2. SlotsWritten'
    <3>1. \A k \in Index : k # i => backend_map'[k] = backend_map[k]
      BY <1>1 DEF TypeOK, MapsTypeOK
    <3>2. pc = "stale" => Copied(i, ZeroInfo)'
      BY <1>1 DEF MapProgress, SlotsWritten, Copied, TypeOK, MapsTypeOK, backend_info, ZeroInfo
    <3>3. QED
      BY <1>1, <3>1, <3>2 DEF MapProgress, SlotsWritten, Index, Info, At, ZeroInfo
  <2>3. CountUnpublished'
    BY <1>1 DEF MapProgress, CountUnpublished
  <2>4. QED
    BY <2>1, <2>2, <2>3 DEF MapProgress
<1>4. QED
  BY <1>2, <1>3

(* The end of ClearBackend, whether or not it has deleted the address, and *)
(* the move to the next index.                                             *)
LEMMA ClearedMaps ==
  ASSUME MapInv,
         \/ pc = "clear" /\ pc' = "update" /\ todo' = InfoFields /\ i' = i
         \/ pc = "stale" /\ todo = {} /\ GoTo(newBackends, i + 1),
         backend_ips_map' \in [Addr -> Index \cup {NULL}],
         UNCHANGED <<config_map, backend_map, backends, byVeth, vethLinks, newBackends, oldByVeth, err, failedOnce>>
  PROVE  MapInv'
<1> USE DEF MapInv
<1>1. i \in Index /\ Len(backends) \in Nat /\ Len(newBackends) \in Nat /\ MAX_BACKENDS \in Nat
  BY ListFacts, MapAssumption DEF TypeOK, MapProgress, LoopPosition, Index
<1>2. pc \in {"clear", "stale"} /\ pc' \in {"clear", "update", "stale", "detach"} /\ i' \in Nat /\ todo' \in SUBSET (InfoFields \cup ConfigFields)
  BY <1>1, StageFacts DEF GoTo, TypeOK, Fields, InfoFields, ConfigFields, Index
<1>3. TypeOK'
  <2>1. MapsTypeOK'
    BY <1>1, <1>2, Zenon DEF TypeOK, MapsTypeOK
  <2>2. QED
    BY <1>2, <2>1, Zenon DEF TypeOK
<1>4. MapProgress'
  <2>1. CASE pc = "clear"
    BY <1>1, <2>1 DEF MapProgress, LoopPosition, SlotsWritten, CountUnpublished, Copied, InfoFields
  <2>2. CASE pc = "stale"
    <3>1. GoTo(newBackends, i + 1)
      BY <2>2
    <3>2. LoopPosition'
      BY <1>1, <2>2, <3>1, StageFacts DEF MapProgress, LoopPosition, GoTo, Fields, TypeOK, Index
    <3>3. SlotsWritten'
      BY <1>1, <2>2, <3>1, StageFacts DEF MapProgress, LoopPosition, SlotsWritten, Copied, GoTo, Fields, InfoFields, ConfigFields, TypeOK, MapsTypeOK, backend_info, ZeroInfo, Index
    <3>4. CountUnpublished'
      BY <1>1, <2>2, <3>1, StageFacts DEF MapProgress, CountUnpublished, GoTo, Fields, InfoFields, ConfigFields, TypeOK
    <3>5. QED
      BY <3>2, <3>3, <3>4 DEF MapProgress
  <2>3. QED
    BY <1>2, <2>1, <2>2, Zenon
<1>5. QED
  BY <1>3, <1>4

(* The second half of ClearBackend: the address is deleted. *)
LEMMA ClearIpMaps == MapInv /\ ClearIp => MapInv'
<1> SUFFICES ASSUME MapInv, ClearIp PROVE MapInv'
  OBVIOUS
<1>1. i \in Index
  BY MapAssumption, ListFacts DEF ClearIp, MapInv, TypeOK, MapProgress, LoopPosition, Index
<1>2. backend_ips_map' \in [Addr -> Index \cup {NULL}]
  BY <1>1, Zenon DEF ClearIp, DeleteIp, MapInv, TypeOK, MapsTypeOK
<1>3. QED
  BY <1>2, ClearedMaps, Zenon DEF ClearIp, DeleteIp

(* The first half of UpdateBackend: a slot is written field by field. *)
LEMMA UpdateSlotMaps == MapInv /\ UpdateSlot => MapInv'
<1> SUFFICES ASSUME MapInv, UpdateSlot PROVE MapInv'
  OBVIOUS
<1> DEFINE v == Info(At(newBackends, i))
<1> USE DEF MapInv, UpdateSlot, CopyInfo, poolVars
<1>1. i \in Index /\ pc = "update" /\ Len(newBackends) \in Nat /\ At(newBackends, i) \in Backend
  BY ListFacts, MapAssumption DEF TypeOK, MapProgress, LoopPosition, Index, InArray
<1>2. v.ipv4 \in Addr /\ v.mac \in Mac /\ v = [ipv4 |-> v.ipv4, mac |-> v.mac]
  BY <1>1 DEF Info, Backend
<1> HIDE DEF v
<1>3. TypeOK'
  <2>1. MapsTypeOK'
    BY <1>1, <1>2 DEF TypeOK, MapsTypeOK, backend_info, v
  <2>2. QED
    BY <2>1, Zenon DEF TypeOK
<1>4. MapProgress'
  <2>1. LoopPosition'
    BY DEF MapProgress, LoopPosition
  <2>2. SlotsWritten'
    <3>1. \A k \in Index : k # i => backend_map'[k] = backend_map[k]
      BY <1>1 DEF TypeOK, MapsTypeOK
    <3>2. v' = v /\ i' = i
      BY DEF v
    <3>3. Copied(i, v)
      BY <1>1 DEF MapProgress, SlotsWritten, v, Index, InArray
    <3>4. Copied(i, v)'
      BY <1>1, <1>2, <3>2, <3>3 DEF Copied, TypeOK, MapsTypeOK, backend_info, v
    <3>5. QED
      BY <1>1, <3>1, <3>4 DEF MapProgress, SlotsWritten, Index, v
  <2>3. CountUnpublished'
    BY <1>1 DEF MapProgress, CountUnpublished
  <2>4. QED
    BY <2>1, <2>2, <2>3 DEF MapProgress
<1>5. QED
  BY <1>3, <1>4

(* The second half of UpdateBackend: the address is registered. *)
LEMMA UpdateIpMaps == MapInv /\ UpdateIp => MapInv'
<1> SUFFICES ASSUME MapInv, UpdateIp PROVE MapInv'
  OBVIOUS
<1> USE DEF MapInv, UpdateIp, PutIp
<1>1. i \in Index /\ pc = "update" /\ pc' = "attach" /\ i < MAX_BACKENDS
  BY MapAssumption DEF TypeOK, Index, InArray
<1>2. TypeOK'
  <2>1. MapsTypeOK'
    BY <1>1, Zenon DEF TypeOK, MapsTypeOK
  <2>2. QED
    BY <1>1, <2>1, Zenon DEF TypeOK
<1>3. MapProgress'
  BY <1>1 DEF MapProgress, LoopPosition, SlotsWritten, CountUnpublished, Copied
<1>4. QED
  BY <1>2, <1>3

(* An error return, as long as the count has not been published yet. *)
LEMMA FailMaps ==
  /\ MapInv
  /\ config_map.backend_count = Len(backends)
  /\ Return(TRUE)
  /\ UNCHANGED <<maps, backends, byVeth, vethLinks>>
  => MapInv'
<1> SUFFICES ASSUME MapInv, config_map.backend_count = Len(backends), Return(TRUE),
                    UNCHANGED <<maps, backends, byVeth, vethLinks>>
             PROVE  MapInv'
  OBVIOUS
<1> USE DEF MapInv, Return, maps
<1>1. TypeOK'
  <2>1. MapsTypeOK' /\ i' \in Nat
    BY DEF TypeOK, MapsTypeOK
  <2>2. QED
    BY <2>1, Zenon DEF TypeOK
<1>2. MapProgress'
  BY DEF MapProgress, LoopPosition, SlotsWritten, CountUnpublished
<1>3. QED
  BY <1>1, <1>2

(* A link that does not close is met before the config is written. *)
LEMMA DetachFailMaps == ASSUME NEW v \in Veth PROVE MapInv /\ DetachVethFails(v) => MapInv'
<1> SUFFICES ASSUME MapInv, DetachVethFails(v) PROVE MapInv'
  OBVIOUS
<1>1. todo = ConfigFields
  BY DEF DetachVethFails, MapInv, MapProgress, LoopPosition
<1>2. config_map.backend_count = Len(backends)
  BY <1>1, Zenon DEF MapInv, MapProgress, CountUnpublished, ConfigFields
<1>3. QED
  BY <1>2, FailMaps, Zenon DEF DetachVethFails

(* The call of Sync: nothing is written, every loop is at its start. *)
LEMMA SyncBeginMaps == ASSUME NEW list \in Lists PROVE MapInv /\ SyncBegin(list) => MapInv'
<1> SUFFICES ASSUME MapInv, SyncBegin(list) PROVE MapInv'
  OBVIOUS
<1> USE DEF MapInv, SyncBegin, GoTo, maps
<1>1. Len(backends) \in Nat /\ Len(list) \in Nat /\ VethNames(backends) \subseteq Veth /\ MAX_BACKENDS \in Nat
  BY ListFacts, MapAssumption DEF TypeOK
<1>2. /\ i' = 0 /\ newBackends' = list /\ pc' = Stage(list, 0)
      /\ pc' \in {"clear", "update", "stale", "detach"}
      /\ todo' = Fields(pc')
      /\ todo' \in SUBSET (InfoFields \cup ConfigFields)
  BY <1>1, StageFacts DEF Fields
<1>3. TypeOK'
  <2>1. MapsTypeOK' /\ i' \in Nat
    BY <1>2 DEF TypeOK, MapsTypeOK
  <2>2. QED
    BY <1>1, <1>2, <2>1, Zenon DEF TypeOK
<1>4. MapProgress'
  <2>1. LoopPosition'
    BY <1>1, <1>2, StageFacts DEF LoopPosition, Fields
  <2>2. SlotsWritten'
    BY <1>2 DEF SlotsWritten, Copied, Fields, InfoFields, Index
  <2>3. CountUnpublished'
    BY <1>2 DEF MapProgress, CountUnpublished, Fields, ConfigFields
  <2>4. QED
    BY <2>1, <2>2, <2>3, Zenon DEF MapProgress
<1>5. QED
  BY <1>3, <1>4

(* AttachVethXDP, or the veth was attached already; on to the next index. *)
LEMMA AttachVethMaps == MapInv /\ AttachVeth => MapInv'
<1> SUFFICES ASSUME MapInv, AttachVeth PROVE MapInv'
  OBVIOUS
<1> USE DEF MapInv, AttachVeth, GoTo, maps
<1>1. /\ i \in Nat /\ i < MAX_BACKENDS /\ i < Len(newBackends) /\ pc = "attach" /\ todo = {}
      /\ Len(backends) \in Nat /\ Len(newBackends) \in Nat /\ MAX_BACKENDS \in Nat
      /\ At(newBackends, i).VethName \in Veth
  BY ListFacts, MapAssumption DEF TypeOK, MapProgress, LoopPosition, Backend
<1>2. /\ i' = i + 1 /\ newBackends' = newBackends /\ pc' = Stage(newBackends, i')
      /\ i' \in Nat
      /\ pc' \in {"clear", "update", "stale", "detach"}
      /\ todo' = Fields(pc')
      /\ todo' \in SUBSET (InfoFields \cup ConfigFields)
  BY <1>1, StageFacts DEF Fields, TypeOK
<1>3. TypeOK'
  <2>1. MapsTypeOK'
    BY <1>2 DEF TypeOK, MapsTypeOK
  <2>2. byVeth' \in SUBSET Veth /\ vethLinks' \in SUBSET Veth /\ oldByVeth' \in SUBSET Veth
    BY <1>1 DEF TypeOK
  <2>3. QED
    BY <1>2, <2>1, <2>2, Zenon DEF TypeOK
<1>4. MapProgress'
  <2>1. LoopPosition'
    BY <1>1, <1>2, StageFacts DEF LoopPosition, Fields, TypeOK
  <2>2. SlotsWritten'
    <3>1. backend_map[i] = Info(At(newBackends, i))
      BY <1>1 DEF MapProgress, SlotsWritten, Copied, TypeOK, MapsTypeOK, backend_info, Info, Index
    <3>2. QED
      BY <1>1, <1>2, <3>1 DEF MapProgress, SlotsWritten, Copied, Fields, InfoFields, Index
  <2>3. CountUnpublished'
    BY <1>1, <1>2 DEF MapProgress, CountUnpublished, Fields, ConfigFields
  <2>4. QED
    BY <2>1, <2>2, <2>3, Zenon DEF MapProgress
<1>5. QED
  BY <1>3, <1>4

(* DetachVethXDP touches no map. *)
LEMMA DetachVethMaps == ASSUME NEW v \in Veth PROVE MapInv /\ DetachVeth(v) => MapInv'
<1> SUFFICES ASSUME MapInv, DetachVeth(v) PROVE MapInv'
  OBVIOUS
<1> USE DEF MapInv, DetachVeth, maps
<1>1. TypeOK'
  BY Zenon DEF TypeOK, MapsTypeOK
<1>2. MapProgress'
  <2>1. LoopPosition'
    BY DEF MapProgress, LoopPosition
  <2>2. SlotsWritten' /\ CountUnpublished'
    BY DEF MapProgress, SlotsWritten, Copied, CountUnpublished
  <2>3. QED
    BY <2>1, <2>2 DEF MapProgress
<1>3. QED
  BY <1>1, <1>2

(* UpdateConfig: the count is that of the new list. *)
LEMMA UpdateConfigMaps == MapInv /\ UpdateConfig => MapInv'
<1> SUFFICES ASSUME MapInv, UpdateConfig PROVE MapInv'
  OBVIOUS
<1> USE DEF MapInv, UpdateConfig, CopyConfig, poolVars
<1>1. /\ pc = "detach" /\ Len(newBackends) \in Nat /\ i \in Nat /\ MAX_BACKENDS \in Nat
      /\ Len(newBackends) \in 0 .. MAX_BACKENDS
  BY ListFacts, MapAssumption DEF TypeOK, MapProgress, LoopPosition
<1>2. TypeOK'
  <2>1. MapsTypeOK'
    BY <1>1, Zenon DEF TypeOK, MapsTypeOK, lb_config
  <2>2. QED
    BY <2>1, Zenon DEF TypeOK
<1>3. MapProgress'
  <2>1. LoopPosition' /\ SlotsWritten'
    BY <1>1 DEF MapProgress, LoopPosition, SlotsWritten
  <2>2. CountUnpublished'
    BY <1>1 DEF MapProgress, CountUnpublished, TypeOK, MapsTypeOK, lb_config
  <2>3. QED
    BY <2>1, <2>2 DEF MapProgress
<1>4. QED
  BY <1>2, <1>3

(* The assignment of p.backends: what is in the maps is the new list. *)
LEMMA CommitMaps == MapInv /\ Commit => MapInv'
<1> SUFFICES ASSUME MapInv, Commit PROVE MapInv'
  OBVIOUS
<1> USE DEF MapInv, Commit, Return, maps
<1>1. /\ pc = "detach" /\ pc' = "idle" /\ todo = {} /\ i \in Nat
      /\ Len(newBackends) \in Nat /\ MAX_BACKENDS \in Nat
      /\ Len(newBackends) <= i /\ i <= MAX_BACKENDS
  BY ListFacts, MapAssumption DEF TypeOK, MapProgress, LoopPosition
<1>2. TypeOK'
  <2>1. MapsTypeOK' /\ i' \in Nat /\ Len(newBackends) <= MAX_BACKENDS
    BY <1>1 DEF TypeOK, MapsTypeOK
  <2>2. QED
    BY <2>1, Zenon DEF TypeOK
<1>3. config_map.backend_count = Len(newBackends)
  BY <1>1, Zenon DEF MapProgress, CountUnpublished
<1>4. MapProgress'
  BY <1>1, <1>3, Zenon DEF MapProgress, LoopPosition, SlotsWritten, CountUnpublished
<1>5. QED
  BY <1>2, <1>4, Zenon

(* Every step of Pool preserves MapInv. *)
LEMMA NextMaps == MapInv /\ [Next]_vars => MapInv'
<1> SUFFICES ASSUME MapInv, [Next]_vars PROVE MapInv'
  OBVIOUS
<1>1. pc # "detach" => config_map.backend_count = Len(backends)
  BY DEF MapInv, MapProgress, CountUnpublished
<1>2. CASE \E list \in Lists : SyncBegin(list)
  BY <1>2, SyncBeginMaps
<1>3. CASE ClearSlot \/ ClearIp \/ UpdateSlot \/ UpdateIp
  BY <1>3, ClearSlotMaps, ClearIpMaps, UpdateSlotMaps, UpdateIpMaps, Zenon
<1>4. CASE UpdateFails \/ AttachVethFails
  BY <1>1, <1>4, FailMaps, Zenon DEF UpdateFails, AttachVethFails
<1>5. CASE AttachVeth \/ \E v \in Veth : DetachVeth(v)
  BY <1>5, AttachVethMaps, DetachVethMaps, Zenon
<1>6. CASE \E v \in Veth : DetachVethFails(v)
  BY <1>6, DetachFailMaps, Zenon
<1>7. CASE UpdateConfig \/ Commit
  BY <1>7, UpdateConfigMaps, CommitMaps, Zenon
<1>8. CASE UNCHANGED vars
  BY <1>8 DEF vars, maps, poolVars, MapInv, TypeOK, MapsTypeOK, MapProgress, LoopPosition, SlotsWritten, Copied, CountUnpublished
<1>9. QED
  BY <1>2, <1>3, <1>4, <1>5, <1>6, <1>7, <1>8, Zenon DEF Next, SyncStep, SyncFault

-----------------------------------------------------------------------------
(* IInv adds the veths, and what a Sync that returned nil has left. *)
LEMMA IInvParts == IInv <=> MapInv /\ VethsAttached /\ SyncedExactly
  BY Zenon DEF IInv, MapInv, MapProgress, SyncProgress

(* NewPool and the freshly loaded maps satisfy the invariant. *)
LEMMA InitIInv == Init => IInv
<1> SUFFICES ASSUME Init PROVE IInv
  OBVIOUS
<1>1. VethsAttached /\ SyncedExactly
  BY DEF Init, MapsInit, VethsAttached, SyncedExactly, VethNames, Index
<1>2. QED
  BY <1>1, InitMaps, IInvParts

(* The program is on the veths the pool has in byVeth, the new backends'   *)
(* among them: AttachVethXDP adds one, and only veths that no new backend  *)
(* has are left to detach.                                                 *)
LEMMA NextVeths == IInv /\ [Next]_vars => VethsAttached'
<1> SUFFICES ASSUME IInv, [Next]_vars PROVE VethsAttached'
  OBVIOUS
<1> USE DEF IInv, SyncProgress, VethsAttached
<1>1. i \in Nat /\ Len(newBackends) \in Nat /\ Len(backends) \in Nat /\ Index \subseteq Nat
  BY ListFacts, MapAssumption DEF TypeOK, Index
<1>2. CASE \E list \in Lists : SyncBegin(list)
  BY <1>2 DEF SyncBegin, GoTo, Index
<1>3. CASE AttachVeth
  <2>1. /\ i' = i + 1 /\ newBackends' = newBackends
        /\ byVeth' = byVeth \cup {At(newBackends, i).VethName} /\ vethLinks' = byVeth'
        /\ oldByVeth' = oldByVeth \ {At(newBackends, i).VethName}
    BY <1>3 DEF AttachVeth, GoTo
  <2>2. pc # "idle"
    BY <1>3 DEF AttachVeth
  <2>3. QED
    BY <1>1, <2>1, <2>2
<1>4. CASE \E v \in Veth : DetachVeth(v)
  BY <1>4 DEF DetachVeth
<1>5. CASE ClearIp
  BY <1>1, <1>5 DEF ClearIp, GoTo, LoopPosition
<1>6. CASE UpdateFails \/ SyncFault \/ Commit
  BY <1>6, Zenon DEF UpdateFails, SyncFault, AttachVethFails, DetachVethFails, Commit, Return
<1>7. CASE ClearSlot \/ UpdateSlot \/ UpdateIp \/ UpdateConfig \/ UNCHANGED vars
  <2>1. /\ UNCHANGED <<byVeth, vethLinks, newBackends, oldByVeth, i>>
        /\ pc' # "idle" => pc # "idle"
    BY <1>7, Zenon DEF ClearSlot, UpdateSlot, UpdateIp, UpdateConfig, vars, poolVars
  <2>2. QED
    BY <2>1, Zenon
<1>8. QED
  BY <1>2, <1>3, <1>4, <1>5, <1>6, <1>7, Zenon DEF Next, SyncStep

(* The veths of a list, by index. *)
LEMMA VethNamesByIndex ==
  ASSUME NEW list \in Lists \cup {<<>>}, NEW S,
         \A k \in Nat : k < Len(list) => At(list, k).VethName \in S
  PROVE  VethNames(list) \subseteq S
<1>1. Len(list) \in Nat
  BY ListFacts
<1>2. SUFFICES ASSUME NEW n \in 1 .. Len(list) PROVE list[n].VethName \in S
  BY DEF VethNames
<1>3. n - 1 \in Nat /\ n - 1 < Len(list) /\ (n - 1) + 1 = n
  BY <1>1
<1>4. QED
  BY <1>3 DEF At

(* Sync comes to its end only by these steps. *)
LEMMA NextBusy ==
  ASSUME IInv, [Next]_vars
  PROVE  pc' # "idle" \/ Commit \/ UpdateFails \/ SyncFault \/ UNCHANGED vars
<1>1. i \in Nat /\ Len(backends) \in Nat
  BY ListFacts DEF IInv, TypeOK
<1>2. CASE \E list \in Lists : SyncBegin(list)
  BY <1>1, <1>2, StageFacts DEF SyncBegin, GoTo
<1>3. CASE ClearIp \/ AttachVeth
  <2>1. newBackends \in Lists \cup {<<>>} /\ i + 1 \in Nat
    BY <1>1 DEF IInv, TypeOK
  <2>2. Stage(newBackends, i + 1) # "idle"
    BY <1>1, <2>1, StageFacts
  <2>3. QED
    BY <1>3, <2>2, Zenon DEF ClearIp, AttachVeth, GoTo
<1>4. CASE ClearSlot \/ UpdateSlot \/ UpdateIp \/ UpdateConfig \/ \E v \in Veth : DetachVeth(v)
  BY <1>4 DEF ClearSlot, UpdateSlot, UpdateIp, UpdateConfig, DetachVeth, poolVars
<1>5. QED
  BY <1>2, <1>3, <1>4, Zenon DEF Next, SyncStep

(* SyncedExactly is established by the assignment of p.backends; every     *)
(* other return is an error, and at rest nothing changes.                  *)
LEMMA NextSynced == IInv /\ [Next]_vars => SyncedExactly'
<1> SUFFICES ASSUME IInv, [Next]_vars PROVE SyncedExactly'
  OBVIOUS
<1>1. CASE Commit
  <2> USE DEF IInv, SyncProgress
  <2>1. /\ pc = "detach" /\ todo = {} /\ i \in Nat
        /\ Len(newBackends) \in Nat /\ MAX_BACKENDS \in Nat
        /\ Len(newBackends) <= i /\ i <= MAX_BACKENDS
    BY <1>1, ListFacts, MapAssumption DEF Commit, TypeOK, LoopPosition
  <2>2. config_map.backend_count = Len(newBackends)
    BY <2>1, Zenon DEF CountUnpublished
  <2>3. \A k \in Index : k < Len(newBackends) => backend_map[k] = Info(At(newBackends, k))
    BY <2>1 DEF SlotsWritten, Index
  <2>4. \A k \in Nat : k < Len(newBackends) => At(newBackends, k).VethName \in vethLinks
    BY <2>1 DEF VethsAttached, Index
  <2>5. VethNames(newBackends) \subseteq vethLinks
    BY <2>4, VethNamesByIndex, Zenon DEF TypeOK
  <2>6. QED
    BY <1>1, <2>2, <2>3, <2>5 DEF Commit, maps, SyncedExactly, VethNames, At
<1>2. CASE UNCHANGED vars
  BY <1>2 DEF vars, maps, poolVars, IInv, SyncedExactly
<1>3. CASE UpdateFails \/ SyncFault
  BY <1>3, Zenon DEF UpdateFails, SyncFault, AttachVethFails, DetachVethFails, Return, SyncedExactly
<1>4. pc' # "idle" \/ Commit \/ UpdateFails \/ SyncFault \/ UNCHANGED vars
  BY NextBusy
<1>5. QED
  BY <1>1, <1>2, <1>3, <1>4, Zenon DEF SyncedExactly

(* Every step of Pool preserves the invariant. *)
LEMMA NextIInv == IInv /\ [Next]_vars => IInv'
<1> SUFFICES ASSUME IInv, [Next]_vars PROVE IInv'
  OBVIOUS
<1>1. MapInv' /\ VethsAttached' /\ SyncedExactly'
  BY IInvParts, NextMaps, NextVeths, NextSynced, Zenon
<1>2. QED
  BY <1>1, Zenon DEF IInv, MapInv, MapProgress, SyncProgress

(* IInv holds throughout: at each pc, Sync has established SyncProgress. *)
THEOREM Invariance == Spec => []IInv
  BY InitIInv, NextIInv, PTL DEF Spec

-----------------------------------------------------------------------------
(* Every variable of the pool and the maps keeps its type: in particular   *)
(* no Sync, also none given more than MAX_BACKENDS backends, writes past   *)
(* backend_map or publishes a count beyond it.                             *)
THEOREM TypeCorrectness == Spec => []TypeOK
<1>1. IInv => TypeOK
  BY DEF IInv
<1>2. QED
  BY Invariance, <1>1, PTL

(* At each of its calls, and after any earlier failure, Sync has written   *)
(* the slots, attached the veths and kept back the count as it should.     *)
THEOREM ProgressHolds == Spec => []SyncProgress
<1>1. IInv => SyncProgress
  BY DEF IInv
<1>2. QED
  BY Invariance, <1>1, PTL

(* After every Sync that returns nil, whatever failed before it, the count *)
(* and the counted slots are exactly p.backends and each of its veths      *)
(* carries the SNAT program.                                               *)
THEOREM SyncIsExact == Spec => []SyncedExactly
<1>1. IInv => SyncedExactly
  BY DEF IInv
<1>2. QED
  BY Invariance, <1>1, PTL

-----------------------------------------------------------------------------
(* The backends of one list have different addresses. *)
LEMMA AddressFacts ==
  ASSUME NEW list \in Lists \cup {<<>>}, NEW k \in Nat, NEW m \in Nat,
         k < Len(list), m < Len(list), k # m
  PROVE  At(list, k).IP # At(list, m).IP
<1>1. Len(list) \in Nat
  BY ListFacts
<1>2. list \in Lists
  BY <1>1
<1>3. k + 1 \in 1 .. Len(list) /\ m + 1 \in 1 .. Len(list) /\ k + 1 # m + 1
  BY <1>1
<1>4. QED
  BY <1>2, <1>3, AddressAssumption DEF At

(* Until a call fails, the slots past both lists, to which no loop of Sync *)
(* comes, are zero; at rest these are the slots past p.backends.           *)
ResidueSlots ==
  \A k \in Index : k >= Len(backends) /\ k >= Len(newBackends) => backend_map[k] = ZeroInfo

SlotsClean == ~failedOnce => ResidueSlots

LEMMA NextSlotsClean == IInv /\ SlotsClean /\ [Next]_vars => SlotsClean'
<1> SUFFICES ASSUME IInv, SlotsClean, [Next]_vars, ~failedOnce' PROVE ResidueSlots'
  BY DEF SlotsClean
<1>1. i \in Nat /\ Len(backends) \in Nat /\ Len(newBackends) \in Nat /\ MAX_BACKENDS \in Nat
  BY ListFacts, MapAssumption DEF IInv, TypeOK
<1>2. CASE UpdateFails \/ SyncFault
  BY <1>2, Zenon DEF UpdateFails, SyncFault, AttachVethFails, DetachVethFails, Return
<1>3. CASE \E list \in Lists : SyncBegin(list)
  <2>1. newBackends = <<>> /\ backends' = backends /\ backend_map' = backend_map /\ failedOnce' = failedOnce
    BY <1>3, Zenon DEF SyncBegin, maps, IInv, SyncProgress, LoopPosition
  <2>2. QED
    BY <1>1, <2>1 DEF SlotsClean, ResidueSlots, ZeroInfo, Index
<1>4. CASE ClearSlot \/ UpdateSlot
  <2>1. UNCHANGED <<backends, newBackends, failedOnce>>
    BY <1>4 DEF ClearSlot, UpdateSlot, poolVars
  <2>2. \A k \in Index : k # i => backend_map'[k] = backend_map[k]
    BY <1>4, Zenon DEF ClearSlot, UpdateSlot, CopyInfo, IInv, TypeOK, MapsTypeOK
  <2>3. i < Len(backends) \/ i < Len(newBackends)
    BY <1>4 DEF ClearSlot, UpdateSlot, IInv, SyncProgress, LoopPosition
  <2>4. QED
    BY <1>1, <2>1, <2>2, <2>3 DEF SlotsClean, ResidueSlots, ZeroInfo
<1>5. CASE Commit
  <2>1. /\ backends' = newBackends /\ newBackends' = <<>> /\ backend_map' = backend_map
        /\ failedOnce' = failedOnce /\ pc = "detach" /\ i >= Len(newBackends) /\ i >= Len(backends)
    BY <1>5 DEF Commit, Return, maps, IInv, TypeOK, SyncProgress, LoopPosition
  <2>2. ASSUME NEW k \in Index, k >= Len(newBackends) PROVE backend_map[k] = ZeroInfo
    <3>1. CASE k >= Len(backends)
      BY <2>1, <2>2, <3>1 DEF SlotsClean, ResidueSlots
    <3>2. CASE k < Len(backends)
      <4>1. k < i /\ ~(k < Len(newBackends))
        BY <1>1, <2>1, <2>2, <3>2 DEF Index
      <4>2. QED
        BY <2>1, <4>1 DEF IInv, SyncProgress, SlotsWritten
    <3>3. QED
      BY <1>1, <3>1, <3>2 DEF Index
  <2>3. QED
    BY <2>1, <2>2 DEF ResidueSlots, ZeroInfo
<1>6. CASE ClearIp \/ UpdateIp \/ AttachVeth \/ UpdateConfig \/ (\E v \in Veth : DetachVeth(v)) \/ UNCHANGED vars
  <2>1. UNCHANGED <<backends, newBackends, backend_map, failedOnce>>
    BY <1>6, Zenon DEF ClearIp, UpdateIp, AttachVeth, UpdateConfig, DetachVeth, vars, poolVars, maps, PutIp, DeleteIp, CopyConfig
  <2>2. QED
    BY <2>1, Zenon DEF SlotsClean, ResidueSlots, ZeroInfo
<1>7. QED
  BY <1>2, <1>3, <1>4, <1>5, <1>6 DEF Next, SyncStep

-----------------------------------------------------------------------------
Ats == {"idle", "vip", "pick", "lookup", "mac", "addr", "snat", "out"}
Frame == [saddr : Addr \cup {VIP, Client, NULL},
          daddr : Addr \cup {VIP, Other, Client, Zero, NULL},
          h_dest : Mac \cup {Host, Zero, NULL}]
Program == [at : Ats, dst : {VIP, Other, Client, NULL}, idx : Random, frame : Frame]

(* The programs preserve their types. *)
LEMMA IngressStepOK ==
  ASSUME MapsTypeOK, NEW c \in CPU, prog[c] \in Program, prog \in [CPU -> Program],
         prog[c].at \in {"mac", "addr"} => prog[c].idx \in Index,
         IngressStep(c) \/ RewriteSaddr(c)
  PROVE  /\ prog'[c] \in Program
         /\ prog'[c].at \in {"mac", "addr"} => prog'[c].idx \in Index
         /\ prog' = [prog EXCEPT ![c] = prog'[c]]
<1> USE DEF Program, Frame, Ats
<1>1. CASE MatchVip(c)
  BY <1>1 DEF MatchVip
<1>2. CASE Pick(c)
  <2>1. PICK r \in Random : prog' = [prog EXCEPT ![c].at = "lookup", ![c].idx = Modulo(r, config_map.backend_count)]
    BY <1>2, Zenon DEF Pick
  <2>2. config_map.backend_count \in 0 .. MAX_BACKENDS /\ MAX_BACKENDS \in Nat
    BY MapAssumption, Zenon DEF MapsTypeOK, lb_config
  <2>3. Modulo(r, config_map.backend_count) \in Random
    BY <2>2 DEF Modulo, Random
  <2>4. QED
    BY <2>1, <2>3, Zenon
<1>3. CASE Lookup(c)
  <2>1. prog[c].idx \in Random /\ MAX_BACKENDS \in Nat
    BY MapAssumption
  <2>2. InArray(prog[c].idx) => prog[c].idx \in Index
    BY <2>1 DEF InArray, Random, Index
  <2>3. QED
    BY <1>3, <2>2, Zenon DEF Lookup
<1>4. CASE RewriteMac(c)
  <2>1. backend_map[prog[c].idx].mac \in Mac \cup {Zero}
    BY <1>4 DEF RewriteMac, MapsTypeOK, backend_info
  <2>2. QED
    BY <1>4, <2>1, Zenon DEF RewriteMac
<1>5. CASE RewriteDaddr(c)
  <2>1. backend_map[prog[c].idx].ipv4 \in Addr \cup {Zero}
    BY <1>5 DEF RewriteDaddr, MapsTypeOK, backend_info
  <2>2. QED
    BY <1>5, <2>1, Zenon DEF RewriteDaddr
<1>6. CASE RewriteSaddr(c)
  <2>1. config_map.vip \in {VIP, Zero}
    BY DEF MapsTypeOK, lb_config
  <2>2. QED
    BY <1>6, <2>1, Zenon DEF RewriteSaddr
<1>7. QED
  BY <1>1, <1>2, <1>3, <1>4, <1>5, <1>6, Zenon DEF IngressStep

-----------------------------------------------------------------------------
(* The new list keeps every backend of the old one where it is. *)
Grows(old, new) ==
  /\ Len(old) <= Len(new)
  /\ \A k \in Index : k < Len(old) => At(new, k) = At(old, k)

(* The list the data plane picks from: the new one as soon as its count    *)
(* is published.                                                           *)
Served == IF pc = "detach" /\ "backend_count" \notin todo THEN newBackends ELSE backends

(* What holds of the maps and the veths while Syncs only append: no slot   *)
(* in use, no registered address and no veth in use is ever given up.      *)
PoolGrown ==
  /\ pc # "idle" => Grows(backends, newBackends)
  /\ \A k \in Index : k < Len(backends) =>
       /\ backend_map[k] = Info(At(backends, k))
       /\ At(backends, k).IP \in Registered
       /\ At(backends, k).VethName \in vethLinks
  /\ pc # "idle" => \A k \in Index :
       k < Len(newBackends) /\ (k < i \/ (k = i /\ pc = "attach")) =>
         At(newBackends, k).IP \in Registered

(* An appending Sync finds nothing to clear. *)
LEMMA GrowthClearsNothing == ASSUME IInv, PoolGrown PROVE pc \notin {"clear", "stale"}
<1>1. /\ i \in Nat /\ Len(backends) \in Nat /\ Len(newBackends) \in Nat
      /\ Len(backends) <= MAX_BACKENDS /\ MAX_BACKENDS \in Nat
  BY ListFacts, MapAssumption, Zenon DEF IInv, TypeOK
<1>2. pc # "stale"
  BY <1>1 DEF IInv, SyncProgress, LoopPosition, PoolGrown, Grows
<1>3. ASSUME pc = "clear" PROVE FALSE
  <2>1. i \in Index /\ i < Len(backends) /\ At(backends, i).IP # At(newBackends, i).IP
    BY <1>1, <1>3 DEF IInv, SyncProgress, LoopPosition, Index
  <2>2. QED
    BY <1>3, <2>1 DEF PoolGrown, Grows
<1>4. QED
  BY <1>2, <1>3

(* Once the loops are done, the whole new list is in place. *)
LEMMA NewListWritten ==
  ASSUME IInv, PoolGrown, pc = "detach"
  PROVE  /\ Len(newBackends) <= MAX_BACKENDS
         /\ \A k \in Index : k < Len(newBackends) =>
              /\ backend_map[k] = Info(At(newBackends, k))
              /\ At(newBackends, k).IP \in Registered
              /\ At(newBackends, k).VethName \in vethLinks \ oldByVeth
<1>1. i \in Nat /\ Len(newBackends) \in Nat /\ MAX_BACKENDS \in Nat /\ i >= Len(newBackends) /\ i <= MAX_BACKENDS
  BY ListFacts, MapAssumption DEF IInv, TypeOK, SyncProgress, LoopPosition
<1>2. \A k \in Index : k < Len(newBackends) => k < i
  BY <1>1 DEF Index
<1>3. QED
  BY <1>1, <1>2 DEF IInv, SyncProgress, SlotsWritten, VethsAttached, PoolGrown

(* What the data plane finds at every index it may pick. *)
LEMMA ServedFacts ==
  ASSUME IInv, PoolGrown
  PROVE  /\ Len(Served) \in 0 .. MAX_BACKENDS
         /\ config_map.backend_count = Len(Served)
         /\ \A k \in Index : k < Len(Served) =>
              /\ backend_map[k] = Info(At(Served, k))
              /\ At(Served, k).IP \in Registered
              /\ At(Served, k).VethName \in vethLinks
<1>1. /\ Len(backends) \in Nat /\ Len(newBackends) \in Nat
      /\ Len(backends) <= MAX_BACKENDS /\ MAX_BACKENDS \in Nat
  BY ListFacts, MapAssumption DEF IInv, TypeOK
<1>2. config_map.backend_count = Len(Served)
  BY Zenon DEF IInv, SyncProgress, CountUnpublished, Served
<1>3. CASE pc = "detach" /\ "backend_count" \notin todo
  <2>1. Served = newBackends
    BY <1>3, Zenon DEF Served
  <2>2. QED
    BY <1>1, <1>2, <1>3, <2>1, NewListWritten
<1>4. CASE ~(pc = "detach" /\ "backend_count" \notin todo)
  <2>1. Served = backends
    BY <1>4 DEF Served
  <2>2. QED
    BY <1>1, <1>2, <2>1 DEF PoolGrown
<1>5. QED
  BY <1>3, <1>4

(* The steps of an appending Sync that leave p.backends alone. *)
LEMMA StepGrown ==
  ASSUME IInv, PoolGrown, SyncStep, ~Commit
  PROVE  PoolGrown' /\ (Served' = Served \/ (Served = backends /\ Served' = newBackends /\ pc = "detach"))
<1>1. /\ i \in Nat /\ Len(backends) \in Nat /\ Len(newBackends) \in Nat
      /\ Len(backends) <= MAX_BACKENDS /\ MAX_BACKENDS \in Nat
  BY ListFacts, MapAssumption DEF IInv, TypeOK
<1>2. ~(ClearSlot \/ ClearIp)
  BY GrowthClearsNothing, Zenon DEF ClearSlot, ClearIp
<1>3. /\ backend_map \in [Index -> backend_info]
      /\ backend_ips_map \in [Addr -> Index \cup {NULL}]
  BY DEF IInv, TypeOK, MapsTypeOK
<1>4. CASE UpdateSlot
  <2>1. /\ UNCHANGED <<backends, newBackends, vethLinks, i, pc, backend_ips_map>> /\ pc = "update"
    BY <1>4 DEF UpdateSlot, CopyInfo, poolVars
  <2>2. Registered' = Registered
    BY <2>1 DEF Registered
  <2>3. ASSUME NEW k \in Index, k < Len(backends) PROVE backend_map'[k] = backend_map[k]
    <3>1. CASE k # i
      BY <1>3, <1>4, <3>1 DEF UpdateSlot, CopyInfo
    <3>2. CASE k = i
      <4>1. backend_map[i] = Info(At(newBackends, i))
        BY <2>1, <2>3, <3>2, Zenon DEF PoolGrown, Grows
      <4>2. QED
        BY <1>3, <1>4, <3>2, <4>1 DEF UpdateSlot, CopyInfo, Info, backend_info
    <3>3. QED
      BY <3>1, <3>2
  <2>4. PoolGrown'
    BY <2>1, <2>2, <2>3 DEF PoolGrown, Grows, At
  <2>5. QED
    BY <2>1, <2>4 DEF Served
<1>5. CASE UpdateIp
  <2>1. /\ UNCHANGED <<backends, newBackends, vethLinks, i, backend_map>> /\ pc = "update" /\ pc' = "attach"
        /\ backend_ips_map' = [backend_ips_map EXCEPT ![At(newBackends, i).IP] = i]
        /\ i < MAX_BACKENDS /\ i < Len(newBackends)
    BY <1>5 DEF UpdateIp, PutIp, InArray, IInv, SyncProgress, LoopPosition
  <2>2. At(newBackends, i).IP \in Addr
    BY <1>1, <2>1, ListFacts, Zenon DEF IInv, TypeOK, Backend
  <2>3. Registered' = Registered \cup {At(newBackends, i).IP}
    BY <1>1, <1>3, <2>1, <2>2, MapAssumption, Zenon DEF Registered
  <2>4. PoolGrown'
    BY <2>1, <2>3, Zenon DEF PoolGrown, Grows, At
  <2>5. QED
    BY <2>1, <2>4, Zenon DEF Served
<1>6. CASE AttachVeth
  <2>1. /\ UNCHANGED <<backends, newBackends, backend_map, backend_ips_map>> /\ pc = "attach"
        /\ i' = i + 1 /\ pc' = Stage(newBackends, i + 1) /\ todo' = Fields(Stage(newBackends, i + 1))
        /\ vethLinks \subseteq vethLinks'
    BY <1>6, Zenon DEF AttachVeth, GoTo, maps
  <2>2. pc' \in {"clear", "update", "stale", "detach"} /\ (pc' = "detach" => "backend_count" \in todo')
    BY <1>1, <2>1, StageFacts DEF Fields, ConfigFields, IInv, TypeOK
  <2>3. Registered' = Registered
    BY <2>1 DEF Registered
  <2>4. \A k \in Index : k < i + 1 => k < i \/ k = i
    BY <1>1 DEF Index
  <2>5. PoolGrown'
    BY <2>1, <2>2, <2>3, <2>4 DEF PoolGrown, Grows, At
  <2>6. QED
    BY <2>1, <2>2, <2>5, Zenon DEF Served
<1>7. ASSUME NEW v \in Veth, DetachVeth(v)
      PROVE  PoolGrown' /\ Served' = Served
  <2>1. /\ UNCHANGED <<backends, newBackends, backend_map, backend_ips_map, i, pc, todo>>
        /\ pc = "detach" /\ v \in oldByVeth /\ vethLinks' = vethLinks \ {v}
    BY <1>7 DEF DetachVeth, maps
  <2>2. ASSUME NEW k \in Index, k < Len(backends) PROVE At(backends, k).VethName \in vethLinks'
    <3>1. k < Len(newBackends) /\ At(newBackends, k) = At(backends, k)
      BY <1>1, <2>1, <2>2 DEF PoolGrown, Grows, Index
    <3>2. QED
      BY <2>1, <3>1, NewListWritten, Zenon
  <2>3. Registered' = Registered
    BY <2>1, Zenon DEF Registered
  <2>4. PoolGrown'
    BY <2>1, <2>2, <2>3 DEF PoolGrown, Grows, At
  <2>5. QED
    BY <2>1, <2>4, Zenon DEF Served
<1>8. CASE UpdateConfig
  <2>1. /\ UNCHANGED <<backends, newBackends, vethLinks, backend_map, backend_ips_map, i, pc>>
        /\ pc = "detach" /\ todo' \subseteq todo
    BY <1>8 DEF UpdateConfig, CopyConfig, poolVars
  <2>2. Registered' = Registered
    BY <2>1, Zenon DEF Registered
  <2>3. PoolGrown'
    BY <2>1, <2>2, Zenon DEF PoolGrown, Grows, At
  <2>4. QED
    BY <2>1, <2>3 DEF Served
<1>9. CASE UpdateFails
  <2>1. /\ UNCHANGED <<backends, vethLinks, backend_map, backend_ips_map>> /\ pc = "update" /\ pc' = "idle"
    BY <1>9 DEF UpdateFails, Return, maps
  <2>2. Registered' = Registered
    BY <2>1 DEF Registered
  <2>3. QED
    BY <2>1, <2>2, Zenon DEF PoolGrown, Served, At
<1>10. QED
  BY <1>2, <1>4, <1>5, <1>6, <1>7, <1>8, <1>9, Zenon DEF SyncStep

(* As long as every Sync begins with a list that extends p.backends, what  *)
(* is served only grows, also where a Sync fails half way.                 *)
LEMMA NextPoolGrown ==
  ASSUME IInv, PoolGrown, [Next]_vars, \A list \in Lists : SyncBegin(list) => Grows(backends, list)
  PROVE  PoolGrown' /\ Grows(Served, Served')
<1>1. /\ i \in Nat /\ Len(backends) \in Nat /\ Len(newBackends) \in Nat
      /\ Len(backends) <= MAX_BACKENDS /\ MAX_BACKENDS \in Nat /\ Len(Served) \in Nat
  BY ListFacts, MapAssumption DEF IInv, TypeOK, Served
<1>2. Grows(Served, Served)
  BY <1>1 DEF Grows
<1>3. ASSUME NEW list \in Lists, SyncBegin(list) PROVE PoolGrown' /\ Served' = Served
  <2>1. /\ UNCHANGED <<backends, vethLinks, backend_map, backend_ips_map>> /\ pc = "idle"
        /\ newBackends' = list /\ i' = 0 /\ pc' = Stage(list, 0) /\ todo' = Fields(Stage(list, 0))
    BY <1>3, Zenon DEF SyncBegin, GoTo, maps
  <2>2. pc' \in {"clear", "update", "stale", "detach"} /\ (pc' = "detach" => "backend_count" \in todo')
    BY <1>1, <2>1, StageFacts DEF Fields, ConfigFields
  <2>3. Registered' = Registered
    BY <2>1 DEF Registered
  <2>4. Grows(backends, list) /\ \A k \in Index : ~(k < 0)
    BY <1>1, <1>3 DEF Index
  <2>5. QED
    BY <2>1, <2>2, <2>3, <2>4, Zenon DEF PoolGrown, Grows, At, Served
<1>4. CASE SyncStep /\ ~Commit
  <2>1. PoolGrown' /\ (Served' = Served \/ (Served = backends /\ Served' = newBackends /\ pc = "detach"))
    BY <1>4, StepGrown
  <2>2. QED
    BY <1>2, <2>1 DEF PoolGrown
<1>5. CASE Commit
  <2>1. /\ pc = "detach" /\ pc' = "idle" /\ todo = {} /\ backends' = newBackends
        /\ UNCHANGED <<vethLinks, backend_map, backend_ips_map>>
    BY <1>5 DEF Commit, Return, maps
  <2>2. Registered' = Registered
    BY <2>1 DEF Registered
  <2>3. Served' = Served
    BY <2>1, Zenon DEF Served
  <2>4. PoolGrown'
    BY <2>1, <2>2, NewListWritten, Zenon DEF PoolGrown, At
  <2>5. QED
    BY <1>2, <2>3, <2>4, Zenon
<1>6. CASE SyncFault
  <2>1. /\ UNCHANGED <<backends, vethLinks, backend_map, backend_ips_map>> /\ pc' = "idle"
        /\ pc = "attach" \/ (pc = "detach" /\ oldByVeth # {})
    BY <1>6 DEF SyncFault, AttachVethFails, DetachVethFails, Return, maps
  <2>2. Registered' = Registered
    BY <2>1, Zenon DEF Registered
  <2>3. Served = backends /\ Served' = backends
    BY <2>1, Zenon DEF Served, IInv, SyncProgress, LoopPosition, ConfigFields
  <2>4. QED
    BY <1>2, <2>1, <2>2, <2>3, Zenon DEF PoolGrown, At
<1>7. CASE UNCHANGED vars
  <2>1. Registered' = Registered /\ Served' = Served
    BY <1>7 DEF vars, maps, poolVars, Registered, Served
  <2>2. QED
    BY <1>2, <1>7, <2>1, Zenon DEF vars, maps, poolVars, PoolGrown, At
<1>8. QED
  BY <1>2, <1>3, <1>4, <1>5, <1>6, <1>7, Zenon DEF Next

(* A list that begins with p.backends grows it. *)
LEMMA PrefixGrows ==
  ASSUME IInv, NEW list \in Lists, Len(backends) <= Len(list), SubSeq(list, 1, Len(backends)) = backends
  PROVE  Grows(backends, list)
<1>1. list \in Seq(Backend) /\ Len(list) \in Nat /\ Len(backends) \in Nat
  BY ListFacts, PoolAssumption DEF IInv, TypeOK
<1>2. ASSUME NEW k \in Index, k < Len(backends) PROVE list[k + 1] = backends[k + 1]
  <2>1. k \in Nat /\ k + 1 \in 1 .. Len(backends)
    BY <1>1, <1>2, MapAssumption DEF Index
  <2>2. SubSeq(list, 1, Len(backends))[k + 1] = list[k + 1]
    BY <1>1, <2>1
  <2>3. QED
    BY <2>2, Zenon
<1>3. QED
  BY <1>2 DEF Grows, At

-----------------------------------------------------------------------------
(* While Syncs only append, a running ingress program has an index of the  *)
(* list that is served.                                                    *)
ServedPast(c) ==
  /\ prog[c].at \in {"vip", "pick"} => Len(Served) > 0
  /\ prog[c].at \in {"lookup", "mac", "addr"} => prog[c].idx < Len(Served)
  /\ prog[c].at = "addr" => prog[c].frame.h_dest = At(Served, prog[c].idx).MAC

(* A step that leaves the program on a CPU alone, while what is served     *)
(* grows.                                                                  *)
LEMMA ServedPastKept ==
  ASSUME IInv, IInv', NEW c \in CPU, prog[c] \in Program, prog[c].at \in {"mac", "addr"} => prog[c].idx \in Index,
         ServedPast(c), prog'[c] = prog[c], Grows(Served, Served')
  PROVE  ServedPast(c)'
<1>1. Len(Served) \in Nat /\ Len(Served') \in Nat /\ MAX_BACKENDS \in Nat
  <2>1. Len(backends) \in Nat /\ Len(newBackends) \in Nat /\ Len(backends') \in Nat /\ Len(newBackends') \in Nat
    BY ListFacts, Zenon DEF IInv, TypeOK
  <2>2. QED
    BY <2>1, MapAssumption, Zenon DEF Served
<1>2. prog[c].idx \in Nat
  BY <1>1 DEF Program, Random
<1>3. prog'[c].at \in {"vip", "pick"} => Len(Served') > 0
  BY <1>1 DEF ServedPast, Grows
<1>4. prog'[c].at \in {"lookup", "mac", "addr"} => prog'[c].idx < Len(Served')
  BY <1>1, <1>2 DEF ServedPast, Grows
<1>5. prog'[c].at = "addr" => prog'[c].frame.h_dest = At(Served', prog'[c].idx).MAC
  BY Zenon DEF ServedPast, Grows
<1>6. QED
  BY <1>3, <1>4, <1>5, Zenon DEF ServedPast, At

(* A program that starts has found a count above zero. *)
LEMMA IngressServed ==
  ASSUME IInv, PoolGrown, NEW c \in CPU, NEW req \in Requests, prog \in [CPU -> Program],
         Ingress(c, req), UNCHANGED vars
  PROVE  ServedPast(c)'
<1>1. prog'[c].at = IF req.icmp /\ config_map.backend_count > 0 THEN "vip" ELSE "out"
  BY Zenon DEF Ingress
<1>2. Served' = Served /\ config_map.backend_count = Len(Served)
  BY ServedFacts, Zenon DEF vars, poolVars, Served
<1>3. QED
  BY <1>1, <1>2, Zenon DEF ServedPast

(* A step of the ingress program: the index it picks is one of the list,   *)
(* the MAC it copies that backend's, and so is the address it will load.   *)
LEMMA IngressStepServed ==
  ASSUME IInv, PoolGrown, NEW c \in CPU, prog \in [CPU -> Program],
         prog[c].at \in {"mac", "addr"} => prog[c].idx \in Index,
         ServedPast(c), IngressStep(c), UNCHANGED vars
  PROVE  /\ ServedPast(c)'
         /\ prog[c].at = "addr" => backend_map[prog[c].idx] = Info(At(Served, prog[c].idx))
<1>1. /\ Len(Served) \in 0 .. MAX_BACKENDS /\ config_map.backend_count = Len(Served)
      /\ MAX_BACKENDS \in Nat
      /\ \A k \in Index : k < Len(Served) => backend_map[k] = Info(At(Served, k))
  BY ServedFacts, MapAssumption, Zenon
<1>2. Served' = Served
  BY Zenon DEF vars, poolVars, Served
<1>3. prog[c].at = "addr" => backend_map[prog[c].idx] = Info(At(Served, prog[c].idx))
  BY <1>1, Zenon DEF ServedPast
<1>4. prog[c] \in Program
  BY Zenon
<1>5. CASE MatchVip(c)
  <2>1. prog[c].at = "vip" /\ prog'[c].at \in {"pick", "out"}
    BY <1>4, <1>5, Zenon DEF MatchVip, Program
  <2>2. QED
    BY <1>2, <1>3, <2>1 DEF ServedPast
<1>6. CASE Pick(c)
  <2>1. PICK r \in Random : prog' = [prog EXCEPT ![c].at = "lookup", ![c].idx = Modulo(r, config_map.backend_count)]
    BY <1>6, Zenon DEF Pick
  <2>2. prog[c].at = "pick" /\ prog'[c].at = "lookup" /\ prog'[c].idx = Modulo(r, Len(Served))
    BY <1>1, <1>4, <1>6, <2>1, Zenon DEF Pick, Program
  <2>3. Len(Served) > 0
    BY <2>2 DEF ServedPast
  <2>4. Modulo(r, Len(Served)) < Len(Served)
    BY <1>1, <2>3, SMTT(30) DEF Modulo, Random
  <2>5. QED
    BY <1>2, <2>2, <2>4 DEF ServedPast
<1>7. CASE Lookup(c)
  <2>1. prog[c].at = "lookup" /\ prog'[c].at \in {"mac", "out"} /\ prog'[c].idx = prog[c].idx
    BY <1>4, <1>7, ZenonT(30) DEF Lookup, Program
  <2>2. QED
    BY <1>2, <2>1 DEF ServedPast
<1>8. CASE RewriteMac(c)
  <2>1. /\ prog[c].at = "mac" /\ prog'[c].at = "addr" /\ prog'[c].idx = prog[c].idx
        /\ prog'[c].frame.h_dest = backend_map[prog[c].idx].mac
    BY <1>4, <1>8, ZenonT(30) DEF RewriteMac, Program, Frame
  <2>2. prog'[c].frame.h_dest = At(Served, prog[c].idx).MAC
    <3>1. prog[c].idx \in Index /\ prog[c].idx < Len(Served)
      BY <2>1, Zenon DEF ServedPast
    <3>2. backend_map[prog[c].idx] = Info(At(Served, prog[c].idx))
      BY <1>1, <3>1, Zenon
    <3>3. QED
      BY <2>1, <3>2 DEF Info
  <2>3. ServedPast(c)'
    BY <1>2, <2>1, <2>2, ZenonT(30) DEF ServedPast, At
  <2>4. QED
    BY <2>1, <2>3
<1>9. CASE RewriteDaddr(c)
  <2>1. prog'[c].at = "out"
    BY <1>4, <1>9 DEF RewriteDaddr, Program
  <2>2. QED
    BY <1>3, <2>1 DEF ServedPast
<1>10. QED
  BY <1>5, <1>6, <1>7, <1>8, <1>9, Zenon DEF IngressStep
=============================================================================
