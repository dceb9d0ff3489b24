----------------------------- MODULE Lifecycle -----------------------------
(***************************************************************************)
(* The process around the pool: NewManager, main's startup, the discovery  *)
(* goroutine, and the deferred calls at shutdown (cancel, then Close).     *)
(*                                                                         *)
(* main does not wait for the discovery goroutine, so Manager.Close may    *)
(* run in the middle of a Sync.  The two share m.mu, which Close holds     *)
(* from start to end and AttachVethXDP and DetachVethXDP hold for a call;  *)
(* the map calls of Sync take no lock.                                     *)
(*                                                                         *)
(* stage is where main is:                                                 *)
(*   loading    NewManager has loaded the objects                          *)
(*   starting   the ingress program is attached; initial discovery, Sync   *)
(*   running    the goroutines run, main waits for a signal                *)
(*   cancelled  the signal came and the deferred cancel has run            *)
(*   links, objs    Close holds m.mu: its veth links, its objects are next *)
(*   closed     Close has returned                                         *)
(*   exited     the process is gone; the kernel closes its descriptors     *)
(*                                                                         *)
(* A link whose Close fails has not been detached, here as in Pool.        *)
(***************************************************************************)
EXTENDS Pool

VARIABLES
  stage,
  ingress,      \* xdp_lb_ingress is attached
  discovering,  \* a DiscoverBackends is under way
  open,         \* the objects that are still open, in the order of their closing
  left,         \* veths whose link Close dropped but could not close
  errs          \* whose closing has failed in Close: "veth", "docker0", "objects"

closing == <<open, left, errs>>
lifeVars == <<stage, ingress, discovering, closing>>
allVars == <<vars, lifeVars>>

(* lbObjects.Close: the programs, then the maps. *)
Objects ==
  <<"xdp_lb_ingress", "xdp_veth_snat", "backend_ips_map", "backend_map", "config_map", "counters_map">>

InClose == stage \in {"links", "objs"}
IsOpen(o) == \E n \in 1 .. Len(open) : open[n] = o

LifeInit ==
  /\ Init
  /\ stage = "loading"
  /\ ingress = FALSE
  /\ discovering = FALSE
  /\ open = Objects
  /\ left = {}
  /\ errs = {}

-----------------------------------------------------------------------------
(* NewManager attaches the ingress program in driver or generic mode, or   *)
(* fails and main ends.                                                    *)
AttachIngress ==
  /\ stage = "loading"
  /\ stage' = "starting"
  /\ ingress' = TRUE
  /\ UNCHANGED <<vars, discovering, closing>>

(* Startup is over once the initial Sync, if any, has returned. *)
StartLoops ==
  /\ stage = "starting"
  /\ pc = "idle"
  /\ ~discovering
  /\ stage' = "running"
  /\ UNCHANGED <<vars, ingress, discovering, closing>>

(* DiscoverBackends at startup and at every tick.  With a cancelled        *)
(* context the listing fails at once, so none begins after cancel.         *)
Discover ==
  /\ stage \in {"starting", "running"}
  /\ pc = "idle"
  /\ ~discovering
  /\ discovering' = TRUE
  /\ UNCHANGED <<vars, stage, ingress, closing>>

DiscoverFails ==
  /\ discovering
  /\ stage # "exited"
  /\ discovering' = FALSE
  /\ UNCHANGED <<vars, stage, ingress, closing>>

(* One that began before cancel may still return a list, and Sync follows. *)
DiscoverReturns(list) ==
  /\ discovering
  /\ stage # "exited"
  /\ SyncBegin(list)
  /\ discovering' = FALSE
  /\ UNCHANGED <<stage, ingress, closing>>

-----------------------------------------------------------------------------
(* Sync's calls.  A call on a map that is closed fails, except that an     *)
(* array update already in the kernel runs to its end.                     *)
PutUnderWay == todo # Fields(pc)

MapCall ==
  \/ /\ IsOpen("backend_map") \/ PutUnderWay
     /\ ClearSlot \/ UpdateSlot
  \/ IsOpen("backend_ips_map") /\ (ClearIp \/ UpdateIp)
  \/ UpdateFails
  \/ /\ IsOpen("config_map") \/ PutUnderWay
     /\ UpdateConfig
  \/ Commit

(* Variant of VethCall: Close does not hold m.mu throughout. *)
VethCallUnlocked ==
  \/ IsOpen("xdp_veth_snat") /\ (AttachVeth \/ AttachVethFails)
  \/ \E v \in Veth : DetachVeth(v) \/ DetachVethFails(v)

(* AttachVethXDP and DetachVethXDP wait for m.mu.  A veth in byVeth is not *)
(* attached again, and one that has no link is not detached.               *)
VethCall ==
  \/ /\ pc = "attach" /\ At(newBackends, i).VethName \in byVeth
     /\ AttachVeth
  \/ /\ ~InClose
     /\ \/ IsOpen("xdp_veth_snat") /\ (AttachVeth \/ AttachVethFails)
        \/ \E v \in Veth : DetachVeth(v) \/ DetachVethFails(v)

(* UpdateBackend, AttachVethXDP, the ClearBackend of the stale loop or     *)
(* UpdateConfig is called and its object is closed.                        *)
CallOnClosed ==
  \/ pc = "update" /\ todo = InfoFields /\ ~IsOpen("backend_map")
  \/ pc = "update" /\ todo = {} /\ ~IsOpen("backend_ips_map")
  \/ pc = "attach" /\ At(newBackends, i).VethName \notin byVeth /\ ~InClose /\ ~IsOpen("xdp_veth_snat")
  \/ pc = "stale" /\ todo = InfoFields /\ ~IsOpen("backend_map")
  \/ pc = "detach" /\ oldByVeth = {} /\ todo = ConfigFields /\ ~IsOpen("config_map")

(* Variant of ClosedCallFails: the stale loop, like the write loop, does   *)
(* not look at what ClearBackend returns.                                  *)
ClosedCallStaleIgnored ==
  /\ CallOnClosed
  /\ IF pc = "stale"
     THEN /\ GoTo(newBackends, i + 1)
          /\ UNCHANGED <<newBackends, oldByVeth, err, failedOnce>>
     ELSE Return(TRUE)
  /\ UNCHANGED <<maps, backends, byVeth, vethLinks>>

(* These errors end Sync. *)
ClosedCallFails ==
  /\ CallOnClosed
  /\ Return(TRUE)
  /\ UNCHANGED <<maps, backends, byVeth, vethLinks>>

(* The write loop ignores a failed ClearBackend, and ClearBackend ignores  *)
(* a failed Delete.                                                        *)
ClosedClearIgnored ==
  /\ \/ /\ pc = "clear"
        /\ \/ todo = InfoFields /\ ~IsOpen("backend_map")
           \/ todo = {} /\ ~IsOpen("backend_ips_map")
        /\ pc' = "update"
        /\ todo' = InfoFields
        /\ i' = i
     \/ /\ pc = "stale"
        /\ todo = {} /\ ~IsOpen("backend_ips_map")
        /\ GoTo(newBackends, i + 1)
  /\ UNCHANGED <<maps, backends, byVeth, vethLinks, newBackends, oldByVeth, err, failedOnce>>

SyncRuns ==
  /\ stage # "exited"
  /\ MapCall \/ VethCall \/ ClosedCallFails \/ ClosedClearIgnored
  /\ UNCHANGED lifeVars

-----------------------------------------------------------------------------
(* The signal: main returns, and its deferred cancel runs first. *)
Signal ==
  /\ stage = "running"
  /\ stage' = "cancelled"
  /\ UNCHANGED <<vars, ingress, discovering, closing>>

(* Close: m.mu, the veth links in map order, the ingress link, the objects. *)
CloseBegins ==
  /\ stage = "cancelled"
  /\ stage' = "links"
  /\ UNCHANGED <<vars, ingress, discovering, closing>>

(* The entry is deleted also when the link does not close; that error, and *)
(* that of the ingress link, is collected and Close goes on.               *)
CloseVeth(v) ==
  /\ stage = "links"
  /\ v \in vethLinks
  /\ vethLinks' = vethLinks \ {v}
  /\ \/ UNCHANGED <<left, errs>>
     \/ /\ "detach" \in Faults
        /\ left' = left \cup {v}
        /\ errs' = errs \cup {"veth"}
  /\ UNCHANGED <<maps, todo, backends, byVeth, newBackends, oldByVeth, i, pc, err, failedOnce>>
  /\ UNCHANGED <<stage, ingress, discovering, open>>

CloseIngress ==
  /\ stage = "links" /\ vethLinks = {}
  /\ stage' = "objs"
  /\ \/ ingress' = FALSE /\ UNCHANGED errs
     \/ /\ "detach" \in Faults
        /\ errs' = errs \cup {"docker0"}
        /\ UNCHANGED ingress
  /\ UNCHANGED <<vars, discovering, open, left>>

(* The objects are closed one after the other, and no lock keeps Sync's    *)
(* map calls from coming in between.  The first that fails ends it.        *)
CloseObject ==
  /\ stage = "objs" /\ open # <<>>
  /\ \/ open' = Tail(open) /\ UNCHANGED <<stage, errs>>
     \/ /\ "close" \in Faults
        /\ stage' = "closed"
        /\ errs' = errs \cup {"objects"}
        /\ UNCHANGED open
  /\ UNCHANGED <<vars, ingress, discovering, left>>

CloseReturns ==
  /\ stage = "objs" /\ open = <<>>
  /\ stage' = "closed"
  /\ UNCHANGED <<vars, ingress, discovering, closing>>

(* main returns, log.Fatalf ends it, or the process is killed. *)
Exit ==
  /\ stage # "exited"
  /\ stage' = "exited"
  /\ UNCHANGED <<vars, ingress, discovering, closing>>

(* The kernel closes what the process had open, in any order; a link       *)
(* without an owner is detached.                                           *)
KernelReleases ==
  /\ stage = "exited"
  /\ \/ \E v \in vethLinks : vethLinks' = vethLinks \ {v} /\ UNCHANGED <<ingress, left>>
     \/ \E v \in left : left' = left \ {v} /\ UNCHANGED <<ingress, vethLinks>>
     \/ ingress /\ ingress' = FALSE /\ UNCHANGED <<vethLinks, left>>
  /\ UNCHANGED <<maps, todo, backends, byVeth, newBackends, oldByVeth, i, pc, err, failedOnce>>
  /\ UNCHANGED <<stage, discovering, open, errs>>

LifeNext ==
  \/ AttachIngress \/ StartLoops
  \/ Discover \/ DiscoverFails
  \/ \E list \in Lists : DiscoverReturns(list)
  \/ SyncRuns
  \/ Signal \/ CloseBegins
  \/ \E v \in Veth : CloseVeth(v)
  \/ CloseIngress \/ CloseObject \/ CloseReturns
  \/ Exit \/ KernelReleases

LifeSpec == LifeInit /\ [][LifeNext]_allVars

-----------------------------------------------------------------------------
(* "Close detaches all XDP programs (docker0 + all veths)": once Close has *)
(* returned, nothing is attached but what its error names, one link that   *)
(* fails to close does not keep the others attached, and a Sync that Close *)
(* ran into the middle of does not attach another veth afterwards.         *)
NothingAttachedAfterClose ==
  stage = "closed" =>
    /\ left # {} => "veth" \in errs
    /\ ingress => "docker0" \in errs
    /\ vethLinks # {} => "objects" \in errs

(* Sync ignores an error of ClearBackend in its write loop, and            *)
(* ClearBackend one of Delete.  Still, a Sync that returns nil has written *)
(* the whole list: also while Close closes one object after the other      *)
(* under it, p.backends is only assigned when every slot of the list, the  *)
(* zeroes of the slots it gave up and the config are in the maps.          *)
NilMeansWritten ==
  [][pc = "detach" /\ pc' = "idle" /\ ~err' =>
       /\ config_map = [vip |-> VIP, backend_count |-> Len(newBackends)]
       /\ \A k \in Index :
            /\ k < Len(newBackends) => backend_map[k] = Info(At(newBackends, k))
            /\ Len(newBackends) <= k /\ k < Len(backends) => backend_map[k] = ZeroInfo]_allVars

(* "A second XDP program is attached to every backend's host-side veth":   *)
(* whenever requests are translated and no Sync is running or has failed,  *)
(* so are the replies of every backend of the pool.                        *)
TranslationPaired ==
  ingress /\ pc = "idle" /\ ~err => VethNames(backends) \subseteq vethLinks \cup left
=============================================================================
