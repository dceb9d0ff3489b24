-------------------------------- MODULE Pool --------------------------------
(***************************************************************************)
(* discovery.Pool: the reconciliation of the discovered backends with the  *)
(* BPF maps and with the SNAT programs attached to the backends' veths.    *)
(*                                                                         *)
(* Pool.Sync holds p.mu from start to end, so one Sync runs at a time, but *)
(* the data plane runs all along: every kernel call Sync makes is a step   *)
(* of its own.  pc names the call Sync makes next:                         *)
(*                                                                         *)
(*   idle    no Sync is running                                            *)
(*   clear   ClearBackend(i, p.backends[i].IP) in the write loop           *)
(*   update  UpdateBackend(i, newBackends[i])                              *)
(*   attach  AttachVethXDP(newBackends[i])                                 *)
(*   stale   ClearBackend(i, p.backends[i].IP) for a tail slot             *)
(*   detach  DetachVethXDP for the veths left in oldByVeth, UpdateConfig   *)
(*                                                                         *)
(* Indices are those of the code, from 0.                                  *)
(***************************************************************************)
EXTENDS BpfMaps

CONSTANTS
  Lists,    \* the lists DiscoverBackends can return
  Faults    \* calls that may fail: "attach", "detach" (a link's Close), "close"

(* The item of a sequence at an index counted from 0, as in the code. *)
At(s, k) == s[k + 1]

ASSUME PoolAssumption == Lists \subseteq Seq(Backend)

(* In one list no two backends share an address.  Only what is proved of   *)
(* backend_ips_map, and what names a backend by its address, rests on it.  *)
ASSUME AddressAssumption ==
  \A l \in Lists : \A m, n \in 1 .. Len(l) : m # n => l[m].IP # l[n].IP

VARIABLES
  backends,     \* p.backends: the list of the last Sync that returned nil
  byVeth,       \* p.byVeth: veths the pool takes to be attached
  vethLinks,    \* Manager.vethLinks: veths with a link, and so with the program
  newBackends,  \* Sync's argument
  oldByVeth,    \* Sync's local: veths of p.backends not met in newBackends
  i,            \* Sync's loop index
  pc,
  err,          \* the last Sync returned an error
  failedOnce    \* history: some Sync has returned an error

poolVars == <<backends, byVeth, vethLinks, newBackends, oldByVeth, i, pc, err, failedOnce>>
vars == <<maps, todo, poolVars>>

Addrs(list) == {list[n].IP : n \in 1 .. Len(list)}
VethNames(list) == {list[n].VethName : n \in 1 .. Len(list)}

-----------------------------------------------------------------------------
(* Variants of HeldByOther for the sensitivity runs: no clear at all, and  *)
(* a clear of every slot that was in use.                                  *)
HeldByNobody(list, k) == FALSE
HeldByAnyone(list, k) == k < Len(backends)

(* The write loop clears a slot first when another address held it. *)
HeldByOther(list, k) ==
  /\ k < Len(backends)
  /\ At(backends, k).IP # At(list, k).IP

(* Variant of Stage: the stale loop stops one slot short. *)
StageLeavesLast(list, k) ==
  CASE k < Len(list) /\ HeldByOther(list, k)     -> "clear"
    [] k < Len(list) /\ ~HeldByOther(list, k)    -> "update"
    [] k >= Len(list) /\ k + 1 < Len(backends)   -> "stale"
    [] k >= Len(list) /\ k + 1 >= Len(backends)  -> "detach"

(* Where Sync stands when its loops reach index k: the write loop covers   *)
(* 0 .. Len(list) - 1, the stale loop what p.backends has beyond that.     *)
Stage(list, k) ==
  CASE k < Len(list) /\ HeldByOther(list, k)     -> "clear"
    [] k < Len(list) /\ ~HeldByOther(list, k)    -> "update"
    [] k >= Len(list) /\ k < Len(backends)       -> "stale"
    [] k >= Len(list) /\ k >= Len(backends)      -> "detach"

Fields(stage) == IF stage = "detach" THEN ConfigFields ELSE InfoFields

GoTo(list, k) ==
  /\ i' = k
  /\ pc' = Stage(list, k)
  /\ todo' = Fields(Stage(list, k))

Return(e) ==
  /\ pc' = "idle"
  /\ err' = e
  /\ failedOnce' = (failedOnce \/ e)
  /\ newBackends' = <<>>
  /\ oldByVeth' = {}
  /\ i' = 0
  /\ todo' = {}

Init ==
  /\ MapsInit
  /\ backends = <<>>
  /\ byVeth = {}
  /\ vethLinks = {}
  /\ newBackends = <<>>
  /\ oldByVeth = {}
  /\ i = 0
  /\ pc = "idle"
  /\ err = FALSE
  /\ failedOnce = FALSE

(* Variant of SyncBegin: the new count is published first. *)
SyncBeginPublishes(list) ==
  /\ pc = "idle"
  /\ newBackends' = list
  /\ oldByVeth' = VethNames(backends)
  /\ GoTo(list, 0)
  /\ Len(list) <= MAX_BACKENDS
  /\ config_map' = [vip |-> VIP, backend_count |-> Len(list)]
  /\ UNCHANGED <<backend_map, backend_ips_map, backends, byVeth, vethLinks, err, failedOnce>>

(* Sync is called with a discovered list and takes p.mu. *)
SyncBegin(list) ==
  /\ pc = "idle"
  /\ newBackends' = list
  /\ oldByVeth' = VethNames(backends)
  /\ GoTo(list, 0)
  /\ UNCHANGED <<maps, backends, byVeth, vethLinks, err, failedOnce>>

(***************************************************************************)
(* ClearBackend zeroes the array entry, then deletes the address from the  *)
(* hash map.  The write loop calls it before it overwrites a slot, the     *)
(* stale loop for the slots beyond the new list.                           *)
(***************************************************************************)
ClearSlot ==
  /\ pc \in {"clear", "stale"}
  /\ CopyInfo(i, ZeroInfo)
  /\ UNCHANGED poolVars

ClearIp ==
  /\ pc \in {"clear", "stale"}
  /\ todo = {}
  /\ DeleteIp(At(backends, i).IP)
  /\ \/ /\ pc = "clear"
        /\ pc' = "update"
        /\ todo' = InfoFields
        /\ i' = i
     \/ /\ pc = "stale"
        /\ GoTo(newBackends, i + 1)
  /\ UNCHANGED <<backends, byVeth, vethLinks, newBackends, oldByVeth, err, failedOnce>>

(***************************************************************************)
(* UpdateBackend writes the array entry, then registers the address.  An   *)
(* index past the array, or a new key in a full hash map, is an error that *)
(* ends Sync on the spot: p.backends keeps the previous list.              *)
(***************************************************************************)
UpdateSlot ==
  /\ pc = "update"
  /\ InArray(i)
  /\ CopyInfo(i, Info(At(newBackends, i)))
  /\ UNCHANGED poolVars

UpdateIp ==
  /\ pc = "update"
  /\ InArray(i)
  /\ todo = {}
  /\ HasRoom(At(newBackends, i).IP)
  /\ PutIp(At(newBackends, i).IP, i)
  /\ pc' = "attach"
  /\ UNCHANGED <<todo, backends, byVeth, vethLinks, newBackends, oldByVeth, i, err, failedOnce>>

UpdateFails ==
  /\ pc = "update"
  /\ \/ ~InArray(i)
     \/ todo = {} /\ ~HasRoom(At(newBackends, i).IP)
  /\ Return(TRUE)
  /\ UNCHANGED <<maps, backends, byVeth, vethLinks>>

(* Variant of AttachVeth: a veth already attached is not marked still-active. *)
AttachVethKeepsOld ==
  LET v == At(newBackends, i).VethName IN
  /\ pc = "attach"
  /\ byVeth' = byVeth \cup {v}
  /\ vethLinks' = IF v \in byVeth THEN vethLinks ELSE vethLinks \cup {v}
  /\ oldByVeth' = IF v \in byVeth THEN oldByVeth ELSE oldByVeth \ {v}
  /\ GoTo(newBackends, i + 1)
  /\ UNCHANGED <<maps, backends, newBackends, err, failedOnce>>

(***************************************************************************)
(* AttachVethXDP is called for a veth not in byVeth and succeeds when the  *)
(* driver-mode or the generic-mode attachment does.                        *)
(***************************************************************************)
AttachVeth ==
  LET v == At(newBackends, i).VethName IN
  /\ pc = "attach"
  /\ byVeth' = byVeth \cup {v}
  /\ vethLinks' = IF v \in byVeth THEN vethLinks ELSE vethLinks \cup {v}
  /\ oldByVeth' = oldByVeth \ {v}
  /\ GoTo(newBackends, i + 1)
  /\ UNCHANGED <<maps, backends, newBackends, err, failedOnce>>

AttachVethFails ==
  LET v == At(newBackends, i).VethName IN
  /\ pc = "attach"
  /\ v \notin byVeth \cup vethLinks
  /\ "attach" \in Faults
  /\ Return(TRUE)
  /\ UNCHANGED <<maps, backends, byVeth, vethLinks>>

(* DetachVethXDP for the veths of backends that newBackends dropped, in    *)
(* the arbitrary order of Go's map iteration.                              *)
DetachVeth(v) ==
  /\ pc = "detach"
  /\ v \in oldByVeth
  /\ vethLinks' = vethLinks \ {v}
  /\ byVeth' = byVeth \ {v}
  /\ oldByVeth' = oldByVeth \ {v}
  /\ UNCHANGED <<maps, todo, backends, newBackends, i, pc, err, failedOnce>>

(* The link's Close fails: as the error says, the program has not been     *)
(* detached, and the entries in vethLinks and in byVeth stay.              *)
DetachVethFails(v) ==
  /\ pc = "detach"
  /\ v \in oldByVeth \cap vethLinks
  /\ "detach" \in Faults
  /\ Return(TRUE)
  /\ UNCHANGED <<maps, backends, byVeth, vethLinks>>

(* Variant of UpdateConfig: the count of the old list is written. *)
UpdateConfigOldCount ==
  /\ pc = "detach"
  /\ oldByVeth = {}
  /\ CopyConfig([vip |-> VIP, backend_count |-> Len(backends)])
  /\ UNCHANGED poolVars

(* Variant of UpdateConfig: the config is written before the detaches. *)
UpdateConfigFirst ==
  /\ pc = "detach"
  /\ CopyConfig([vip |-> VIP, backend_count |-> Len(newBackends)])
  /\ UNCHANGED poolVars

(* UpdateConfig, then p.backends = newBackends and return nil. *)
UpdateConfig ==
  /\ pc = "detach"
  /\ oldByVeth = {}
  /\ CopyConfig([vip |-> VIP, backend_count |-> Len(newBackends)])
  /\ UNCHANGED poolVars

Commit ==
  /\ pc = "detach"
  /\ oldByVeth = {}
  /\ todo = {}
  /\ backends' = newBackends
  /\ Return(FALSE)
  /\ UNCHANGED <<maps, byVeth, vethLinks>>

SyncStep ==
  \/ ClearSlot \/ ClearIp
  \/ UpdateSlot \/ UpdateIp \/ UpdateFails
  \/ AttachVeth
  \/ \E v \in Veth : DetachVeth(v)
  \/ UpdateConfig \/ Commit

SyncFault ==
  \/ AttachVethFails
  \/ \E v \in Veth : DetachVethFails(v)

Next ==
  \/ \E list \in Lists : SyncBegin(list)
  \/ SyncStep
  \/ SyncFault

Spec == Init /\ [][Next]_vars

-----------------------------------------------------------------------------
(* The types of the pool's and the maps' state.  A list longer than the    *)
(* maps never gets into p.backends, and no count beyond backend_map is     *)
(* ever published.                                                         *)
TypeOK ==
  /\ MapsTypeOK
  /\ backends \in Lists \cup {<<>>}
  /\ Len(backends) <= MAX_BACKENDS
  /\ byVeth \in SUBSET Veth
  /\ vethLinks \in SUBSET Veth
  /\ newBackends \in Lists \cup {<<>>}
  /\ oldByVeth \in SUBSET Veth
  /\ i \in Nat
  /\ pc \in {"idle", "clear", "update", "attach", "stale", "detach"}
  /\ err \in BOOLEAN
  /\ failedOnce \in BOOLEAN

(* Whenever Sync has returned nil and no other Sync runs, whatever failed  *)
(* before it, config_map counts p.backends, every counted slot of          *)
(* backend_map holds that backend's address and MAC, and m.vethLinks has a *)
(* link to the veth of each, whose program is attached: a link that failed *)
(* to close has not been detached.                                         *)
SyncedExactly ==
  pc = "idle" /\ ~err =>
    /\ config_map.backend_count = Len(backends)
    /\ \A k \in Index : k < Len(backends) => backend_map[k] = Info(At(backends, k))
    /\ VethNames(backends) \subseteq vethLinks

(* Where Sync's loops stand at each pc, and which fields it is copying. *)
LoopPosition ==
  /\ pc = "idle" => todo = {} /\ newBackends = <<>>
  /\ pc # "idle" => i <= MAX_BACKENDS
  /\ pc = "clear" => /\ i < Len(newBackends) /\ i < Len(backends)
                     /\ At(backends, i).IP # At(newBackends, i).IP
  /\ pc = "update" => i < Len(newBackends)
  /\ pc = "attach" => i < Len(newBackends) /\ i < MAX_BACKENDS /\ todo = {}
  /\ pc = "stale" => i >= Len(newBackends) /\ i < Len(backends)
  /\ pc = "detach" => i >= Len(newBackends) /\ i >= Len(backends)
  /\ pc \in {"clear", "update", "stale"} => todo \subseteq InfoFields
  /\ pc = "detach" => todo \subseteq ConfigFields
  /\ pc = "detach" /\ oldByVeth # {} => todo = ConfigFields

(* Slot k holds what the update in flight has copied of v so far. *)
Copied(k, v) ==
  /\ "ipv4" \notin todo => backend_map[k].ipv4 = v.ipv4
  /\ "mac" \notin todo => backend_map[k].mac = v.mac

(* The slots behind i hold the new backends, or zeroes past their end. *)
SlotsWritten ==
  /\ pc # "idle" => \A k \in Index : k < i =>
       backend_map[k] = IF k < Len(newBackends) THEN Info(At(newBackends, k)) ELSE ZeroInfo
  /\ pc \in {"update", "attach"} /\ i < MAX_BACKENDS => Copied(i, Info(At(newBackends, i)))
  /\ pc = "stale" => Copied(i, ZeroInfo)

(* The veths of the new backends behind i are attached, and stay so. *)
VethsAttached ==
  /\ vethLinks = byVeth
  /\ pc # "idle" => \A k \in Index : k < i /\ k < Len(newBackends) =>
       At(newBackends, k).VethName \in byVeth \ oldByVeth

(* config_map counts p.backends until its own update. *)
CountUnpublished ==
  config_map.backend_count =
    IF pc = "detach" /\ "backend_count" \notin todo THEN Len(newBackends) ELSE Len(backends)

(* What Sync has established by the time it reaches pc and i, at every     *)
(* step and after any earlier failure: where its loops stand, which slots  *)
(* of backend_map are written, which veths are attached for good, and that *)
(* config_map still counts the old list.  It is why the state is right     *)
(* when the count is published and p.backends is assigned.                 *)
SyncProgress == LoopPosition /\ SlotsWritten /\ VethsAttached /\ CountUnpublished

(* While a Sync that follows a successful one runs, a slot the data plane  *)
(* may pick holds, field by field, its old backend, its new backend or     *)
(* zeroes: never a backend of another slot or of an earlier list.          *)
ServesOldOrNew ==
  ~err => \A k \in Index : k < config_map.backend_count =>
    LET at == {list \in {backends, newBackends} : k < Len(list)} IN
    /\ backend_map[k].ipv4 \in {Zero} \cup {At(list, k).IP : list \in at}
    /\ backend_map[k].mac \in {Zero} \cup {At(list, k).MAC : list \in at}

(* A step that changes the backend count finds the new state complete. *)
PublishesCompleteState ==
  LET n == config_map'.backend_count IN
  n # config_map.backend_count =>
    /\ n = Len(newBackends)
    /\ \A k \in Index :
         /\ k < n => backend_map[k] = Info(At(newBackends, k))
         /\ n <= k /\ k < config_map.backend_count => backend_map[k] = ZeroInfo
    /\ VethNames(newBackends) \subseteq vethLinks

(* "Update config_map last": the step that changes the backend count finds *)
(* every slot it exposes complete, every slot it retires zeroed, and every *)
(* exposed backend's veth with its SNAT program.                           *)
CountPublishedLast == [][PublishesCompleteState]_vars

(* What a successful Sync leaves in backend_ips_map: a backend is found    *)
(* there, at its own index, unless p.backends had it at a higher index, in *)
(* which case the clearing of its old slot has deleted it again.           *)
ReverseMapOnCommit ==
  [][pc = "detach" /\ pc' = "idle" /\ ~err' =>
       \A k \in Index : k < Len(newBackends) =>
         LET a == At(newBackends, k).IP
             movedDown == \E j \in Index :
                            k < j /\ j < Len(backends) /\ At(backends, j).IP = a
         IN backend_ips_map[a] = IF movedDown THEN NULL ELSE k]_vars

(* A backend that keeps its index keeps its entry in backend_ips_map       *)
(* through every step of Sync: its replies never lose their translation.   *)
UnmovedStaysRegistered ==
  [][\A k \in Index :
       /\ k < Len(newBackends) /\ k < Len(backends)
       /\ At(newBackends, k).IP = At(backends, k).IP
       /\ At(backends, k).IP \in Registered
       => At(backends, k).IP \in Registered']_vars

KeepsListedVeths == VethNames(newBackends) \cap vethLinks \subseteq vethLinks'

(* Sync never detaches the SNAT program of a backend of the new list, also *)
(* where the backend changes its index or replaces another at its address. *)
DetachesOnlyDropped == [][KeepsListedVeths]_vars

(* p.backends is in place: the maps and the veths are as a Sync of that    *)
(* list would leave them.                                                  *)
InPlace ==
  /\ config_map = [vip |-> VIP, backend_count |-> Len(backends)]
  /\ VethNames(backends) \subseteq vethLinks
  /\ \A k \in Index : k < Len(backends) =>
       /\ backend_map[k] = Info(At(backends, k))
       /\ backend_ips_map[At(backends, k).IP] = k

(* Polling an unchanged list is invisible to the data plane: at no step    *)
(* does a Sync of the list that is in place change a map or a veth, though *)
(* it writes every slot, and it cannot fail.                               *)
ResyncIsInvisible ==
  [][pc # "idle" /\ newBackends = backends /\ InPlace =>
       UNCHANGED <<maps, vethLinks>> /\ (pc' = "idle" => ~err')]_vars

(* Until some Sync has failed, an idle pool has left nothing behind:       *)
(* backend_ips_map holds only addresses of p.backends, only their veths    *)
(* carry the SNAT program and the slots past them are zero.                *)
NoResidueWithoutFailure ==
  pc = "idle" /\ ~failedOnce =>
    /\ Registered \subseteq Addrs(backends)
    /\ vethLinks = VethNames(backends)
    /\ \A k \in Index : k >= Len(backends) => backend_map[k] = ZeroInfo

(* Until some Sync has failed, registering an address never meets a full   *)
(* backend_ips_map: the clears of the write loop make room in time.        *)
NeverFullWithoutFailure ==
  ~failedOnce /\ pc = "update" /\ i < MAX_BACKENDS => HasRoom(At(newBackends, i).IP)

-----------------------------------------------------------------------------
(* The comment on the write loop, "clear the old IP from the reverse map   *)
(* (backend_ips_map) so we don't leak entries", as a claim about every     *)
(* successful Sync.                                                        *)
NoLeakedEntries ==
  pc = "idle" /\ ~err => Registered \subseteq Addrs(backends)

(* The first promise of Sync's doc comment, "Writes/updates backend_map +  *)
(* backend_ips_map for new/changed backends", as a claim about its result: *)
(* after a successful Sync every backend the data plane serves is one      *)
(* whose replies it translates.                                            *)
ReverseMapComplete ==
  pc = "idle" /\ ~err => Addrs(backends) \subseteq Registered
=============================================================================
