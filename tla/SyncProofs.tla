------------------------------ MODULE SyncProofs ------------------------------
(***************************************************************************)
(* Proofs about the course of a Sync, for every set of backends and every  *)
(* choice of failing calls: a Sync that Manager.Close runs into, and the   *)
(* room a Sync finds in backend_ips_map.                                   *)
(***************************************************************************)
EXTENDS Lifecycle, PoolMapProofs, FiniteSetTheorems

(* Past the veth links every link is either closed or named by the error;  *)
(* only an objects.Close that fails leaves a program for a later attach.   *)
Detached ==
  /\ stage = "objs" => vethLinks = {}
  /\ stage = "closed" => "objects" \in errs \/ (vethLinks = {} /\ open = <<>>)
  /\ stage \in {"objs", "closed"} /\ ingress => "docker0" \in errs
  /\ left # {} => "veth" \in errs

(* Sync's map calls leave the links alone. *)
LEMMA MapCallKeepsLinks ==
  MapCall \/ ClosedCallFails \/ ClosedClearIgnored => vethLinks' = vethLinks
  BY Zenon DEF MapCall, ClosedCallFails, ClosedClearIgnored, ClearSlot, UpdateSlot, UpdateConfig, ClearIp,
     UpdateIp, UpdateFails, Commit, poolVars

(* A veth call of Sync adds no link while Close closes the objects, since  *)
(* it waits for m.mu, nor afterwards when there is no program to attach.   *)
LEMMA VethCallAddsNothing ==
  VethCall /\ (stage = "objs" \/ open = <<>>) => vethLinks' \subseteq vethLinks
<1> SUFFICES ASSUME VethCall, stage = "objs" \/ open = <<>> PROVE vethLinks' \subseteq vethLinks
  BY Zenon
<1>1. CASE pc = "attach" /\ At(newBackends, i).VethName \in byVeth /\ AttachVeth
  BY <1>1, Zenon DEF AttachVeth
<1>2. CASE \E v \in Veth : DetachVeth(v) \/ DetachVethFails(v)
  BY <1>2 DEF DetachVeth, DetachVethFails
<1>3. InClose \/ ~IsOpen("xdp_veth_snat")
  <2>1. open = <<>> => ~IsOpen("xdp_veth_snat")
    BY DEF IsOpen
  <2>2. QED
    BY <2>1, Zenon DEF InClose
<1>4. QED
  BY <1>1, <1>2, <1>3, Zenon DEF VethCall

(* Every step of the process preserves Detached. *)
LEMMA NextDetached == Detached /\ [LifeNext]_allVars => Detached'
<1> SUFFICES ASSUME Detached, [LifeNext]_allVars PROVE Detached'
  OBVIOUS
<1>1. CASE SyncRuns
  BY <1>1, MapCallKeepsLinks, VethCallAddsNothing, Zenon DEF SyncRuns, Detached, lifeVars, closing
<1>2. CASE \E list \in Lists : DiscoverReturns(list)
  <2>1. UNCHANGED <<vethLinks, stage, ingress, open, left, errs>>
    BY <1>2 DEF DiscoverReturns, SyncBegin, closing
  <2>2. QED
    BY <2>1, Zenon DEF Detached
<1>3. CASE \E v \in Veth : CloseVeth(v)
  BY <1>3, Zenon DEF CloseVeth, Detached
<1>4. CASE CloseIngress
  BY <1>4, Zenon DEF CloseIngress, Detached, vars, poolVars
<1>5. CASE CloseObject
  BY <1>5, Zenon DEF CloseObject, Detached, vars, poolVars
<1>6. CASE CloseReturns
  BY <1>6, Zenon DEF CloseReturns, Detached, vars, poolVars, closing
<1>7. CASE KernelReleases
  BY <1>7, Zenon DEF KernelReleases, Detached
<1>8. CASE AttachIngress \/ StartLoops \/ Discover \/ DiscoverFails \/ Signal \/ CloseBegins \/ Exit
  <2>1. UNCHANGED <<vethLinks, open, left, errs>>
    BY <1>8 DEF AttachIngress, StartLoops, Discover, DiscoverFails, Signal, CloseBegins, Exit, vars, poolVars, closing
  <2>2. stage' \in {"objs", "closed"} => UNCHANGED <<stage, ingress>>
    BY <1>8 DEF AttachIngress, StartLoops, Discover, DiscoverFails, Signal, CloseBegins, Exit
  <2>3. QED
    BY <2>1, <2>2 DEF Detached
<1>9. CASE UNCHANGED allVars
  BY <1>9 DEF allVars, vars, poolVars, lifeVars, closing, Detached
<1>10. QED
  BY <1>1, <1>2, <1>3, <1>4, <1>5, <1>6, <1>7, <1>8, <1>9, ZenonT(30) DEF LifeNext

(* Close leaves nothing attached but what its error names, whichever of    *)
(* its calls fail, and the Sync it interrupted attaches nothing after it.  *)
THEOREM CloseDetachesAll == LifeSpec => []NothingAttachedAfterClose
<1>1. LifeInit => Detached
  BY DEF LifeInit, Detached
<1>2. Detached => NothingAttachedAfterClose
  BY DEF Detached, NothingAttachedAfterClose
<1>3. QED
  BY <1>1, <1>2, NextDetached, PTL DEF LifeSpec

-----------------------------------------------------------------------------
(* What Sync has established in the maps, whatever Close has taken away.   *)
WrittenInv ==
  /\ MapInv
  /\ pc = "detach" /\ "vip" \notin todo => config_map.vip = VIP

(* UpdateConfig is the only call that writes the VIP. *)
LEMMA NextVip ==
  ASSUME WrittenInv, [Next]_vars
  PROVE  (pc = "detach" /\ "vip" \notin todo => config_map.vip = VIP)'
<1>1. CASE UpdateConfig
  BY <1>1 DEF UpdateConfig, CopyConfig, WrittenInv, MapInv, TypeOK, MapsTypeOK, lb_config
<1>2. CASE \E list \in Lists : SyncBegin(list)
  BY <1>2 DEF SyncBegin, GoTo, Fields, ConfigFields
<1>3. CASE ClearIp \/ AttachVeth
  BY <1>3 DEF ClearIp, AttachVeth, GoTo, Fields, ConfigFields
<1>4. CASE UpdateFails \/ SyncFault \/ Commit
  BY <1>4, Zenon DEF UpdateFails, SyncFault, AttachVethFails, DetachVethFails, Commit, Return
<1>5. CASE ClearSlot \/ UpdateSlot \/ UpdateIp
  BY <1>5 DEF ClearSlot, UpdateSlot, UpdateIp, poolVars
<1>6. CASE (\E v \in Veth : DetachVeth(v)) \/ UNCHANGED vars
  BY <1>6 DEF DetachVeth, vars, maps, poolVars, WrittenInv
<1>7. QED
  BY <1>1, <1>2, <1>3, <1>4, <1>5, <1>6, Zenon DEF Next, SyncStep

(* The errors that end Sync come before the config is written. *)
LEMMA ClosedFailWritten == WrittenInv /\ ClosedCallFails => WrittenInv'
<1> SUFFICES ASSUME WrittenInv, ClosedCallFails PROVE WrittenInv'
  OBVIOUS
<1>1. pc = "detach" => todo = ConfigFields
  BY DEF ClosedCallFails, CallOnClosed
<1>2. config_map.backend_count = Len(backends)
  BY <1>1, Zenon DEF WrittenInv, MapInv, MapProgress, CountUnpublished, ConfigFields
<1>3. QED
  BY <1>2, FailMaps, Zenon DEF ClosedCallFails, Return, WrittenInv

(* An ignored error of ClearBackend in the write loop leaves the slot to   *)
(* UpdateBackend; an ignored error of Delete comes after the zeroes.       *)
LEMMA ClearIgnoredWritten == WrittenInv /\ ClosedClearIgnored => WrittenInv'
<1> SUFFICES ASSUME WrittenInv, ClosedClearIgnored PROVE WrittenInv'
  OBVIOUS
<1>1. /\ \/ pc = "clear" /\ pc' = "update" /\ todo' = InfoFields /\ i' = i
         \/ pc = "stale" /\ todo = {} /\ GoTo(newBackends, i + 1)
      /\ UNCHANGED <<maps, backends, byVeth, vethLinks, newBackends, oldByVeth, err, failedOnce>>
  BY Zenon DEF ClosedClearIgnored
<1>2. backend_ips_map' \in [Addr -> Index \cup {NULL}]
  BY <1>1, Zenon DEF maps, WrittenInv, MapInv, TypeOK, MapsTypeOK
<1>3. MapInv'
  BY <1>1, <1>2, ClearedMaps, Zenon DEF maps, WrittenInv
<1>4. pc' = "detach" => "vip" \in todo'
  BY <1>1 DEF GoTo, Fields, ConfigFields
<1>5. QED
  BY <1>3, <1>4, Zenon DEF WrittenInv

(* Every step of the process preserves WrittenInv. *)
LEMMA NextWritten == WrittenInv /\ [LifeNext]_allVars => WrittenInv'
<1> SUFFICES ASSUME WrittenInv, [LifeNext]_allVars PROVE WrittenInv'
  OBVIOUS
<1>1. ASSUME [Next]_vars PROVE WrittenInv'
  BY <1>1, NextMaps, NextVip, Zenon DEF WrittenInv
<1>2. CASE SyncRuns
  <2>1. MapCall \/ VethCall => Next
    BY Zenon DEF MapCall, VethCall, Next, SyncStep, SyncFault
  <2>2. QED
    BY <1>1, <1>2, <2>1, ClosedFailWritten, ClearIgnoredWritten, Zenon DEF SyncRuns
<1>3. CASE \E list \in Lists : DiscoverReturns(list)
  BY <1>1, <1>3, Zenon DEF DiscoverReturns, Next
<1>4. CASE (\E v \in Veth : CloseVeth(v)) \/ KernelReleases
  <2>1. /\ vethLinks' \subseteq vethLinks
        /\ UNCHANGED <<maps, todo, backends, byVeth, newBackends, oldByVeth, i, pc, err, failedOnce>>
    BY <1>4, Zenon DEF CloseVeth, KernelReleases
  <2>2. TypeOK'
    BY <2>1, Zenon DEF WrittenInv, MapInv, TypeOK, MapsTypeOK, maps
  <2>3. MapProgress'
    BY <2>1 DEF WrittenInv, MapInv, MapProgress, LoopPosition, SlotsWritten, Copied, CountUnpublished, maps
  <2>4. QED
    BY <2>1, <2>2, <2>3, Zenon DEF WrittenInv, MapInv, maps
<1>5. CASE UNCHANGED vars
  BY <1>1, <1>5, Zenon
<1>6. QED
  BY <1>2, <1>3, <1>4, <1>5, ZenonT(30) DEF LifeNext, AttachIngress, StartLoops, Discover, DiscoverFails, Signal,
     CloseBegins, CloseIngress, CloseObject, CloseReturns, Exit, allVars

(* A Sync that returns nil has written its whole list, the zeroes past it  *)
(* and the config, whatever errors it has ignored and however far Close    *)
(* has come under it.                                                      *)
THEOREM NilSyncWroteAll == LifeSpec => NilMeansWritten
<1>1. LifeInit => WrittenInv
  BY InitMaps, Zenon DEF LifeInit, Init, WrittenInv
<1>2. ASSUME WrittenInv, [LifeNext]_allVars, pc = "detach", pc' = "idle", ~err'
      PROVE  /\ config_map = [vip |-> VIP, backend_count |-> Len(newBackends)]
             /\ \A k \in Index :
                  /\ k < Len(newBackends) => backend_map[k] = Info(At(newBackends, k))
                  /\ Len(newBackends) <= k /\ k < Len(backends) => backend_map[k] = ZeroInfo
  <2>1. Commit
    <3>1. ~ClosedCallFails /\ ~AttachVethFails /\ ~UpdateFails /\ ~\E v \in Veth : DetachVethFails(v)
      BY <1>2, Zenon DEF ClosedCallFails, AttachVethFails, UpdateFails, DetachVethFails, Return
    <3>2. ~ClosedClearIgnored /\ ~ClearSlot /\ ~ClearIp /\ ~UpdateSlot /\ ~UpdateIp /\ ~AttachVeth
      BY <1>2 DEF ClosedClearIgnored, ClearSlot, ClearIp, UpdateSlot, UpdateIp, AttachVeth
    <3>3. ~UpdateConfig /\ ~\E v \in Veth : DetachVeth(v)
      BY <1>2 DEF UpdateConfig, DetachVeth, poolVars
    <3>4. SyncRuns
      <4>1. pc' # pc
        BY <1>2
      <4>2. ~\E list \in Lists : DiscoverReturns(list)
        BY <1>2 DEF DiscoverReturns, SyncBegin
      <4>3. QED
        BY <1>2, <4>1, <4>2, ZenonT(30) DEF LifeNext, AttachIngress, StartLoops, Discover, DiscoverFails, Signal,
           CloseBegins, CloseVeth, CloseIngress, CloseObject, CloseReturns, Exit, KernelReleases, allVars, vars, poolVars
    <3>5. QED
      BY <3>1, <3>2, <3>3, <3>4, Zenon DEF SyncRuns, MapCall, VethCall
  <2>2. /\ todo = {} /\ i \in Nat /\ Len(newBackends) \in Nat /\ Len(backends) \in Nat
        /\ Len(newBackends) <= i /\ Len(backends) <= i
    BY <1>2, <2>1, ListFacts DEF Commit, WrittenInv, MapInv, TypeOK, MapProgress, LoopPosition
  <2>3. config_map.vip = VIP /\ config_map.backend_count = Len(newBackends)
    BY <1>2, <2>2, Zenon DEF WrittenInv, MapInv, MapProgress, CountUnpublished
  <2>4. config_map = [vip |-> VIP, backend_count |-> Len(newBackends)]
    BY <1>2, <2>3 DEF WrittenInv, MapInv, TypeOK, MapsTypeOK, lb_config
  <2>5. ASSUME NEW k \in Index
        PROVE  /\ k < Len(newBackends) => backend_map[k] = Info(At(newBackends, k))
               /\ Len(newBackends) <= k /\ k < Len(backends) => backend_map[k] = ZeroInfo
    BY <1>2, <2>2 DEF WrittenInv, MapInv, MapProgress, SlotsWritten, Index
  <2>6. QED
    BY <2>4, <2>5, Zenon
<1>3. QED
  BY <1>1, <1>2, NextWritten, PTL DEF LifeSpec, NilMeansWritten

-----------------------------------------------------------------------------
(* The slots other than i are enough for every registered address. *)
LEMMA RoomForNext ==
  ASSUME IInv, ResidueIps, pc = "update", i < MAX_BACKENDS,
         At(newBackends, i).IP \notin Registered
  PROVE  Cardinality(Registered) < MAX_BACKENDS
<1> DEFINE g == [k \in Index |-> IF k < i THEN At(newBackends, k).IP ELSE At(backends, k).IP]
           D == {k \in Index \ {i} : g[k] \in Registered}
           f == [k \in D |-> g[k]]
<1>1. MAX_BACKENDS \in Nat /\ MAX_BACKENDS # 0 /\ i \in Nat /\ i \in Index
  BY MapAssumption DEF IInv, TypeOK, Index
<1>2. \A a \in Registered : \E k \in D : f[k] = a
  <2> SUFFICES ASSUME NEW a \in Registered PROVE \E k \in Index \ {i} : g[k] = a
    BY Zenon
  <2>1. CASE Pending(a)
    <3>1. PICK j \in Index : At(backends, j).IP = a /\ j > i
      BY <2>1, Zenon DEF Pending
    <3>2. ~(j < i) /\ j # i
      BY <1>1, <3>1 DEF Index
    <3>3. QED
      BY <3>1, <3>2
  <2>2. CASE \E k \in Index : Written(k) /\ At(newBackends, k).IP = a
    <3>1. PICK k \in Index : k < i /\ At(newBackends, k).IP = a
      BY <2>2, Zenon DEF Written
    <3>2. k # i
      BY <1>1, <3>1, Zenon
    <3>3. QED
      BY <3>1, <3>2, Zenon
  <2>3. QED
    BY <2>1, <2>2, Zenon DEF ResidueIps
<1>3. f \in Surjection(D, Registered)
  BY <1>2, Zenon DEF Surjection
<1>4. IsFiniteSet(Index) /\ Cardinality(Index) = MAX_BACKENDS
  BY <1>1, FS_Interval DEF Index
<1>5. IsFiniteSet(Index \ {i}) /\ Cardinality(Index \ {i}) = MAX_BACKENDS - 1
  BY <1>1, <1>4, FS_RemoveElement, Zenon
<1>6. D \in SUBSET (Index \ {i})
  BY Zenon
<1> HIDE DEF D, f
<1>7. IsFiniteSet(D) /\ Cardinality(D) <= MAX_BACKENDS - 1
  BY <1>5, <1>6, FS_Subset
<1>8. IsFiniteSet(Registered) /\ Cardinality(Registered) <= Cardinality(D)
  BY <1>3, <1>7, FS_Surjection, Zenon
<1>9. Cardinality(D) \in Nat /\ Cardinality(Registered) \in Nat
  BY <1>7, <1>8, FS_CardinalityType, Zenon
<1>10. QED
  BY <1>1, <1>7, <1>8, <1>9, SMTT(30)

(* As long as no Sync has failed, the clears of the write loop make room   *)
(* in time: a list that fits backend_map also fits backend_ips_map.        *)
THEOREM RoomWithoutFailure == Spec => []NeverFullWithoutFailure
<1>1. IInv /\ NoResidue => NeverFullWithoutFailure
  BY RoomForNext, Zenon DEF NoResidue, NeverFullWithoutFailure, HasRoom
<1>2. QED
  BY Invariance, ResidueInvariance, <1>1, PTL
===============================================================================
