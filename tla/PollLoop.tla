------------------------------ MODULE PollLoop ------------------------------
(***************************************************************************)
(* The discovery loop of cmd/main.go around Pool: at every tick it asks    *)
(* Docker for the list of backends and hands that list to Pool.Sync.  A    *)
(* tick whose discovery fails is skipped, and a Sync that fails is only    *)
(* logged: the next tick starts over from whatever is in the pool.         *)
(*                                                                         *)
(* docker is the list Docker would report now.  It changes freely, and     *)
(* kernel calls may fail, until the environment settles.  The veths in     *)
(* Stuck never take an XDP program, in driver or in generic mode.          *)
(***************************************************************************)
EXTENDS Pool

CONSTANT Stuck

ASSUME StuckAssumption == Stuck \subseteq Veth

VARIABLES docker, settled

pollVars == <<vars, docker, settled>>

PollInit ==
  /\ Init
  /\ docker \in Lists
  /\ settled = FALSE

(* Containers start, stop or change health. *)
DockerChanges(list) ==
  /\ ~settled
  /\ list # docker
  /\ docker' = list
  /\ UNCHANGED <<vars, settled>>

Settle ==
  /\ ~settled
  /\ settled' = TRUE
  /\ UNCHANGED <<vars, docker>>

(* A tick: DiscoverBackends succeeds and Sync is called with its result. *)
Poll ==
  /\ SyncBegin(docker)
  /\ UNCHANGED <<docker, settled>>

AtStuckVeth == pc = "attach" /\ At(newBackends, i).VethName \in Stuck

SyncRuns ==
  /\ \/ ~AtStuckVeth /\ SyncStep
     \/ AtStuckVeth /\ AttachVethFails
  /\ UNCHANGED <<docker, settled>>

SyncMeetsFault ==
  /\ ~settled
  /\ SyncFault
  /\ UNCHANGED <<docker, settled>>

PollNext ==
  \/ \E list \in Lists : DockerChanges(list)
  \/ Settle
  \/ Poll
  \/ SyncRuns
  \/ SyncMeetsFault

(* The ticker fires again and again, and the goroutine that runs Sync is   *)
(* scheduled: both are WF.  Nothing forces the environment to settle.      *)
PollSpec ==
  /\ PollInit
  /\ [][PollNext]_pollVars
  /\ WF_pollVars(Poll)
  /\ WF_pollVars(SyncRuns)

-----------------------------------------------------------------------------
(* The kernel state is what docker asks for: the count and the slots are   *)
(* its backends, each is registered at its own index in backend_ips_map    *)
(* and has the SNAT program on its veth.                                   *)
Consistent ==
  /\ config_map = [vip |-> VIP, backend_count |-> Len(docker)]
  /\ VethNames(docker) \subseteq vethLinks
  /\ \A k \in 0 .. Len(docker) - 1 :
       /\ backend_map[k] = Info(At(docker, k))
       /\ backend_ips_map[At(docker, k).IP] = k

(* "A polling loop keeps the kernel maps in sync with reality": once       *)
(* Docker's list stops changing and kernel calls stop failing, the maps    *)
(* come to match the list and match it at every moment from then on, also  *)
(* while later Syncs rewrite them.  This needs a list without stuck veths, *)
(* but not a past without them.                                            *)
ConvergesOnceSettled == settled /\ VethNames(docker) \cap Stuck = {} ~> []Consistent

(* The slots the data plane may pick hold addresses of docker's list. *)
ServesOnlyListed ==
  \A k \in Index : k < config_map.backend_count =>
    backend_map[k].ipv4 \in {Zero} \cup Addrs(docker)

(* Once Docker reports a backend "unhealthy/stopped ... the control plane  *)
(* removes it": requests stop going to backends that are not listed, even  *)
(* if one of those listed cannot be set up.                                *)
StoppedAreRemoved == settled ~> []ServesOnlyListed
=============================================================================
