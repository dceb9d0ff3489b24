----------------------------- MODULE Discovery -----------------------------
(***************************************************************************)
(* DockerWatcher.DiscoverBackends: containers are listed, inspected one by *)
(* one, and the host-side veth of each is resolved through its network     *)
(* namespace, while containers start, stop and change their health.        *)
(*                                                                         *)
(* A run of a container has a pid, an address on each of its networks and  *)
(* a network whose interface comes first in its namespace.  Each network   *)
(* gives it a veth of its own, here named by pid and network; an address   *)
(* goes back to its network when the container stops.  The MAC is read     *)
(* with the address and stands for it.  Health "none" is a container       *)
(* without a health check; "starting" is handled as "unhealthy" is.        *)
(***************************************************************************)
EXTENDS Naturals, Sequences, FiniteSets

CONSTANTS
  Container,
  NetsOf,       \* container -> the networks it is connected to
  Pool,         \* network -> the addresses it can give out; NULL is no IPv4
  MaxStarts,    \* bound: how often containers start
  ApiFaults,    \* calls to Docker or to the namespace may fail
  NULL

(* Docker refuses a network whose subnet overlaps that of another one. *)
ASSUME DiscoveryAssumption ==
  /\ MaxStarts \in Nat
  /\ ApiFaults \in BOOLEAN
  /\ \A c \in Container : NetsOf[c] # {} /\ NetsOf[c] \subseteq DOMAIN Pool
  /\ \A m, n \in DOMAIN Pool : m # n => Pool[m] \cap Pool[n] \subseteq {NULL}

VARIABLES
  live,         \* container -> pid of its current run, NULL when it is stopped
  health,       \* container -> none, healthy, unhealthy
  runs,         \* the runs so far, by pid: addresses and first interface
  step,         \* idle, inspect, links, host: what DiscoverBackends does next
  ids,          \* listed containers not inspected yet
  cand,         \* the container at hand: id, pid, address, first veth
  backends,     \* the result so far
  faulted,      \* history: containers for which a call of this discovery failed
  restarted,    \* history: a container has started since the listing
  steady        \* history: containers with an address, up and healthy since

docker == <<live, health, runs>>
watcher == <<step, ids, cand, backends>>
history == <<faulted, restarted, steady>>
discoveryVars == <<docker, watcher, history>>

NoCand == [id |-> NULL, pid |-> 0, IP |-> NULL, veth |-> NULL]
VethOf(pid, n) == [pid |-> pid, net |-> n]
Up == {c \in Container : live[c] # NULL}
Alive(pid) == \E c \in Up : live[c] = pid
Taken(n) == {runs[live[c]].ip[n] : c \in {c \in Up : n \in NetsOf[c]}}

Init ==
  /\ live = [c \in Container |-> NULL]
  /\ health = [c \in Container |-> "none"]
  /\ runs = <<>>
  /\ step = "idle"
  /\ ids = {}
  /\ cand = NoCand
  /\ backends = <<>>
  /\ faulted = {}
  /\ restarted = FALSE
  /\ steady = {}

-----------------------------------------------------------------------------
(* Docker. *)
Start(c) ==
  /\ live[c] = NULL
  /\ Len(runs) < MaxStarts
  /\ \E ip \in [NetsOf[c] -> UNION {Pool[n] : n \in NetsOf[c]}], first \in NetsOf[c] :
       /\ \A n \in NetsOf[c] : ip[n] \in Pool[n] \ (Taken(n) \ {NULL})
       /\ runs' = Append(runs, [ip |-> ip, first |-> first])
  /\ live' = [live EXCEPT ![c] = Len(runs) + 1]
  /\ \E h \in {"none", "unhealthy"} : health' = [health EXCEPT ![c] = h]
  /\ restarted' = (step # "idle")
  /\ UNCHANGED <<watcher, faulted, steady>>

Stop(c) ==
  /\ live[c] # NULL
  /\ live' = [live EXCEPT ![c] = NULL]
  /\ health' = [health EXCEPT ![c] = "none"]
  /\ steady' = steady \ {c}
  /\ UNCHANGED <<runs, watcher, faulted, restarted>>

HealthChanges(c) ==
  /\ live[c] # NULL
  /\ health[c] # "none"
  /\ health' = [health EXCEPT ![c] = IF @ = "healthy" THEN "unhealthy" ELSE "healthy"]
  /\ steady' = steady \ {c}
  /\ UNCHANGED <<live, runs, watcher, faulted, restarted>>

-----------------------------------------------------------------------------
(* The networks that give the container an IPv4 address. *)
WithIPv4(c) == {n \in NetsOf[c] : runs[live[c]].ip[n] # NULL}

(* No health check, or a passing one. *)
HealthOK(c) == health[c] \in {"none", "healthy"}

(* ContainerList returns the running containers; if it fails the poll is   *)
(* skipped.                                                                *)
List ==
  /\ step = "idle"
  /\ step' = "inspect"
  /\ ids' = Up
  /\ steady' = {c \in Up : health[c] # "unhealthy" /\ WithIPv4(c) # {}}
  /\ UNCHANGED <<docker, cand, backends, faulted, restarted>>

(* Variant of Inspect: one backend for each network of the container. *)
InspectEachNetwork(c) ==
  /\ step = "inspect"
  /\ c \in ids
  /\ ids' = IF live[c] # NULL /\ Cardinality(NetsOf[c]) > 1 THEN ids ELSE ids \ {c}
  /\ IF live[c] # NULL /\ HealthOK(c) /\ WithIPv4(c) # {}
     THEN /\ \E n \in WithIPv4(c) :
               cand' = [id |-> c, pid |-> live[c], IP |-> runs[live[c]].ip[n], veth |-> NULL]
          /\ step' = "links"
     ELSE UNCHANGED <<cand, step>>
  /\ UNCHANGED <<docker, backends, history>>

(* ContainerInspect: a container that is not running, not healthy or has   *)
(* no IPv4 address is passed over.  The address is that of the first       *)
(* network, in the arbitrary order of Go's map iteration, that has one.    *)
Inspect(c) ==
  /\ step = "inspect"
  /\ c \in ids
  /\ ids' = ids \ {c}
  /\ IF live[c] # NULL /\ HealthOK(c) /\ WithIPv4(c) # {}
     THEN /\ \E n \in WithIPv4(c) :
               cand' = [id |-> c, pid |-> live[c], IP |-> runs[live[c]].ip[n], veth |-> NULL]
          /\ step' = "links"
     ELSE UNCHANGED <<cand, step>>
  /\ UNCHANGED <<docker, backends, history>>

(* The container is left out and the loop goes on. *)
Skip ==
  /\ cand' = NoCand
  /\ step' = "inspect"
  /\ UNCHANGED <<docker, backends>>

(* Variant of ContainerLinks: the namespace is found by container, not by  *)
(* the pid that was inspected.                                             *)
ContainerLinksById ==
  /\ step = "links"
  /\ \/ /\ live[cand.id] # NULL
        /\ cand' = [cand EXCEPT !.veth = VethOf(live[cand.id], runs[live[cand.id]].first)]
        /\ step' = "host"
        /\ UNCHANGED <<docker, backends>>
     \/ /\ live[cand.id] = NULL
        /\ Skip
  /\ UNCHANGED <<ids, history>>

(* FindHostVeth, inside the namespace of the inspected pid: the first veth. *)
ContainerLinks ==
  /\ step = "links"
  /\ \/ /\ Alive(cand.pid)
        /\ cand' = [cand EXCEPT !.veth = VethOf(cand.pid, runs[cand.pid].first)]
        /\ step' = "host"
        /\ UNCHANGED <<docker, backends>>
     \/ /\ ~Alive(cand.pid)
        /\ Skip
  /\ UNCHANGED <<ids, history>>

(* FindHostVeth, in the host's namespace: its peer, by index. *)
HostLink ==
  /\ step = "host"
  /\ \/ /\ Alive(cand.veth.pid)
        /\ backends' = Append(backends, [ID |-> cand.id, IP |-> cand.IP, VethName |-> cand.veth])
        /\ cand' = NoCand
        /\ step' = "inspect"
        /\ UNCHANGED docker
     \/ /\ ~Alive(cand.veth.pid)
        /\ Skip
  /\ UNCHANGED <<ids, history>>

(* Variant of CallFails: the error breaks out of the loop. *)
CallFailsBreaks ==
  /\ ApiFaults
  /\ \/ /\ step = "inspect"
        /\ \E c \in ids : faulted' = faulted \cup {c}
        /\ UNCHANGED <<docker, step, cand, backends>>
     \/ /\ step \in {"links", "host"}
        /\ Skip
        /\ faulted' = faulted \cup {cand.id}
  /\ ids' = {}
  /\ UNCHANGED <<restarted, steady>>

(* A failed ContainerInspect or FindHostVeth leaves the container out; it  *)
(* is no error of DiscoverBackends, and the loop goes on.                  *)
CallFails ==
  /\ ApiFaults
  /\ \/ /\ step = "inspect"
        /\ \E c \in ids : ids' = ids \ {c} /\ faulted' = faulted \cup {c}
        /\ UNCHANGED <<docker, step, cand, backends>>
     \/ /\ step \in {"links", "host"}
        /\ Skip
        /\ faulted' = faulted \cup {cand.id}
        /\ UNCHANGED ids
  /\ UNCHANGED <<restarted, steady>>

(* The list is returned to the discovery loop. *)
Complete == step = "inspect" /\ ids = {}

Return ==
  /\ Complete
  /\ step' = "idle"
  /\ backends' = <<>>
  /\ faulted' = {}
  /\ restarted' = FALSE
  /\ steady' = {}
  /\ UNCHANGED <<docker, ids, cand>>

Next ==
  \/ \E c \in Container : Start(c) \/ Stop(c) \/ HealthChanges(c) \/ Inspect(c)
  \/ List \/ ContainerLinks \/ HostLink \/ CallFails \/ Return

Spec == Init /\ [][Next]_discoveryVars

-----------------------------------------------------------------------------
Found == {backends[n] : n \in 1 .. Len(backends)}

(* A backend's address and its veth are of one run of its container, even  *)
(* if the container restarts between the inspection and the search for the *)
(* veth: the search goes by the pid that was inspected.                    *)
OfOneRun ==
  \A b \in Found : \E n \in NetsOf[b.ID] : b.IP = runs[b.VethName.pid].ip[n]

(* The run that backend b was read from is still going. *)
Current(b) == b.ID \in Up /\ live[b.ID] = b.VethName.pid

(* No two backends of a list share a veth, and none share an address       *)
(* unless a container has started since the listing.  If one did, and was  *)
(* given the address of a stopped container that is in the list already,   *)
(* at most one of the two is still running.                                *)
NoDuplicates ==
  \A m, n \in 1 .. Len(backends) : m # n =>
    /\ backends[m].VethName # backends[n].VethName
    /\ backends[m].IP = backends[n].IP => restarted /\ ~(Current(backends[m]) /\ Current(backends[n]))

(* A container that was up and healthy throughout is in the list, whatever *)
(* happens to the others, unless a call for this very container failed: a  *)
(* call that fails for one container costs no other its place.             *)
SteadyIsFound ==
  Complete => \A c \in steady \ faulted : \E b \in Found : b.ID = c

(* "A backend ... stays in the pool until Docker reports it unhealthy or   *)
(* stopped": a list that is handed to Sync has every container that was up *)
(* and healthy throughout.                                                 *)
HealthyStays == Complete => \A c \in steady : \E b \in Found : b.ID = c

(* The host-side veth found for a backend is the peer of the interface     *)
(* that has the backend's address.                                         *)
AddressBehindVeth == \A b \in Found : b.IP = runs[b.VethName.pid].ip[b.VethName.net]
=============================================================================
