-------------------------- MODULE DiscoveryProofs --------------------------
(***************************************************************************)
(* Proofs that a discovered address and veth belong to one run of the      *)
(* container, that no steady container is lost and that no two backends    *)
(* share a veth or an address, for every set of containers and networks    *)
(* and every order of restarts, health changes and failing calls.          *)
(***************************************************************************)
EXTENDS Discovery, TLAPS

Address == UNION {Pool[n] : n \in DOMAIN Pool}
RunOf(c) == [ip : [NetsOf[c] -> Address], first : NetsOf[c]]
Result == [ID : Container, IP : Address, VethName : [pid : Nat, net : DOMAIN Pool]]

(* A pid is that of a run of container c. *)
IsRun(pid, c) == pid \in 1 .. Len(runs) /\ runs[pid] \in RunOf(c)

(* Address a is one of the run with this pid. *)
HasAddress(pid, c, a) == \E n \in NetsOf[c] : a = runs[pid].ip[n]

RunsOK ==
  /\ runs \in Seq(UNION {RunOf(c) : c \in Container})
  /\ live \in [Container -> Nat \cup {NULL}]
  /\ \A c \in Container : live[c] # NULL => IsRun(live[c], c)

(* The address at hand and, once it is found, the veth are of the pid that *)
(* was inspected.                                                          *)
CandOK ==
  /\ step \in {"links", "host"} =>
       /\ cand \in [id : Container, pid : Nat, IP : Address, veth : {NULL} \cup [pid : Nat, net : DOMAIN Pool]]
       /\ IsRun(cand.pid, cand.id)
       /\ HasAddress(cand.pid, cand.id, cand.IP) /\ cand.IP # NULL
  /\ step = "host" => cand.veth = VethOf(cand.pid, runs[cand.pid].first)

ResultsOK ==
  /\ backends \in Seq(Result)
  /\ \A m \in 1 .. Len(backends) :
       /\ backends[m].VethName.pid \in 1 .. Len(runs)
       /\ HasAddress(backends[m].VethName.pid, backends[m].ID, backends[m].IP) /\ backends[m].IP # NULL

DInv == step \in {"idle", "inspect", "links", "host"} /\ RunsOK /\ CandOK /\ ResultsOK

(* A start adds a run and leaves the earlier ones as they are. *)
LEMMA StartKeeps == ASSUME NEW c \in Container, DInv, Start(c) PROVE DInv'
<1> DEFINE S == UNION {RunOf(x) : x \in Container}
<1>1. PICK ip \in [NetsOf[c] -> UNION {Pool[n] : n \in NetsOf[c]}], first \in NetsOf[c] :
        runs' = Append(runs, [ip |-> ip, first |-> first])
  BY DEF Start
<1> DEFINE r == [ip |-> ip, first |-> first]
<1>2. r \in RunOf(c)
  BY DiscoveryAssumption DEF RunOf, Address
<1>3. r \in S /\ runs \in Seq(S)
  BY <1>2 DEF DInv, RunsOK
<1> HIDE DEF r, S
<1>4. /\ runs' = Append(runs, r) /\ runs' \in Seq(S)
      /\ Len(runs) \in Nat /\ Len(runs') = Len(runs) + 1
      /\ runs'[Len(runs) + 1] = r
      /\ \A p \in 1 .. Len(runs) : runs'[p] = runs[p]
  BY <1>1, <1>3 DEF r
<1>5. live' = [live EXCEPT ![c] = Len(runs) + 1] /\ UNCHANGED watcher
  BY DEF Start
<1>6. RunsOK'
  <2>1. live' \in [Container -> Nat \cup {NULL}]
    BY <1>4, <1>5 DEF DInv, RunsOK
  <2>2. ASSUME NEW x \in Container, live'[x] # NULL PROVE live'[x] \in 1 .. Len(runs') /\ runs'[live'[x]] \in RunOf(x)
    <3>1. CASE x = c
      BY <1>2, <1>4, <1>5, <3>1 DEF DInv, RunsOK
    <3>2. CASE x # c
      <4>1. live'[x] = live[x] /\ live[x] \in 1 .. Len(runs) /\ runs[live[x]] \in RunOf(x)
        BY <1>5, <2>2, <3>2, Zenon DEF IsRun, DInv, RunsOK
      <4>2. QED
        BY <1>4, <4>1
    <3>3. QED
      BY <3>1, <3>2
  <2>3. QED
    BY <1>4, <2>1, <2>2 DEF RunsOK, S, IsRun
<1>7. CandOK'
  BY <1>4, <1>5 DEF DInv, CandOK, IsRun, HasAddress, RunOf, VethOf, watcher
<1>8. ResultsOK'
  BY <1>4, <1>5 DEF DInv, ResultsOK, HasAddress, watcher
<1>9. QED
  BY <1>5, <1>6, <1>7, <1>8 DEF DInv, watcher

(* The steps of Docker other than a start. *)
LEMMA StopKeeps == ASSUME NEW c \in Container, DInv, Stop(c) \/ HealthChanges(c) PROVE DInv'
<1>1. runs' = runs /\ UNCHANGED watcher /\ (live' = live \/ live' = [live EXCEPT ![c] = NULL])
  BY DEF Stop, HealthChanges
<1>2. RunsOK'
  BY <1>1, Zenon DEF DInv, RunsOK, IsRun, RunOf
<1>3. CandOK' /\ ResultsOK'
  BY <1>1 DEF DInv, CandOK, ResultsOK, IsRun, HasAddress, VethOf, watcher
<1>4. QED
  BY <1>1, <1>2, <1>3 DEF DInv, watcher

(* The inspection takes pid and address from one run. *)
LEMMA InspectKeeps == ASSUME NEW c \in Container, DInv, Inspect(c) PROVE DInv'
<1>1. runs' = runs /\ live' = live /\ backends' = backends
  BY DEF Inspect, docker
<1>2. RunsOK' /\ ResultsOK'
  BY <1>1, Zenon DEF DInv, RunsOK, ResultsOK, IsRun, HasAddress
<1>3. CASE UNCHANGED <<cand, step>>
  BY <1>1, <1>2, <1>3 DEF DInv, CandOK, IsRun, HasAddress, VethOf
<1>4. CASE ~UNCHANGED <<cand, step>>
  <2>1. PICK n \in WithIPv4(c) :
          /\ cand' = [id |-> c, pid |-> live[c], IP |-> runs[live[c]].ip[n], veth |-> NULL]
          /\ step' = "links" /\ live[c] # NULL
    BY <1>4 DEF Inspect
  <2>2. n \in NetsOf[c] /\ runs[live[c]].ip[n] # NULL
    BY DEF WithIPv4
  <2>3. live[c] \in 1 .. Len(runs) /\ runs[live[c]] \in RunOf(c) /\ live[c] \in Nat
    BY <2>1 DEF DInv, RunsOK, IsRun
  <2>4. runs[live[c]].ip[n] \in Address
    BY <2>2, <2>3 DEF RunOf
  <2>5. CandOK'
    BY <1>1, <2>1, <2>2, <2>3, <2>4 DEF CandOK, IsRun, HasAddress
  <2>6. QED
    BY <1>2, <2>1, <2>5 DEF DInv
<1>5. QED
  BY <1>3, <1>4

(* The first veth in the namespace of the inspected pid. *)
LEMMA LinksKeeps == ASSUME DInv, ContainerLinks PROVE DInv'
<1>1. runs' = runs /\ live' = live /\ backends' = backends
  BY Zenon DEF ContainerLinks, Skip, docker
<1>2. RunsOK' /\ ResultsOK'
  BY <1>1 DEF DInv, RunsOK, ResultsOK, IsRun, HasAddress
<1>3. CASE step' = "host" /\ cand' = [cand EXCEPT !.veth = VethOf(cand.pid, runs[cand.pid].first)]
  <2>1. /\ cand \in [id : Container, pid : Nat, IP : Address, veth : {NULL} \cup [pid : Nat, net : DOMAIN Pool]]
        /\ IsRun(cand.pid, cand.id) /\ HasAddress(cand.pid, cand.id, cand.IP) /\ cand.IP # NULL
    BY DEF DInv, CandOK, ContainerLinks
  <2>2. runs[cand.pid].first \in DOMAIN Pool
    BY <2>1, DiscoveryAssumption DEF IsRun, RunOf
  <2>3. VethOf(cand.pid, runs[cand.pid].first) \in [pid : Nat, net : DOMAIN Pool]
    BY <2>1, <2>2 DEF VethOf
  <2>4. CandOK'
    BY <1>1, <1>3, <2>1, <2>3 DEF CandOK, IsRun, HasAddress, VethOf
  <2>5. QED
    BY <1>2, <1>3, <2>4 DEF DInv
<1>4. CASE Skip
  BY <1>2, <1>4 DEF DInv, CandOK, Skip
<1>5. QED
  BY <1>3, <1>4 DEF ContainerLinks

(* The append of a backend. *)
LEMMA HostLinkKeeps == ASSUME DInv, HostLink PROVE DInv'
<1>1. runs' = runs /\ live' = live /\ step' = "inspect"
  BY DEF HostLink, Skip, docker
<1>2. RunsOK' /\ CandOK'
  BY <1>1 DEF DInv, RunsOK, CandOK, IsRun
<1>3. CASE Skip
  BY <1>1, <1>2, <1>3 DEF DInv, ResultsOK, HasAddress, Skip
<1>4. CASE backends' = Append(backends, [ID |-> cand.id, IP |-> cand.IP, VethName |-> cand.veth])
  <2> DEFINE b == [ID |-> cand.id, IP |-> cand.IP, VethName |-> cand.veth]
  <2>1. /\ cand \in [id : Container, pid : Nat, IP : Address, veth : {NULL} \cup [pid : Nat, net : DOMAIN Pool]]
        /\ cand.pid \in 1 .. Len(runs) /\ runs[cand.pid] \in RunOf(cand.id)
        /\ HasAddress(cand.pid, cand.id, cand.IP) /\ cand.IP # NULL
        /\ cand.veth = VethOf(cand.pid, runs[cand.pid].first)
    BY DEF DInv, CandOK, HostLink, IsRun
  <2>2. cand.veth \in [pid : Nat, net : DOMAIN Pool] /\ cand.veth.pid = cand.pid
    BY <2>1, DiscoveryAssumption DEF VethOf, RunOf
  <2>3. b \in Result /\ b.VethName.pid = cand.pid /\ b.ID = cand.id /\ b.IP = cand.IP
    BY <2>1, <2>2 DEF Result
  <2> HIDE DEF b
  <2>4. /\ backends' = Append(backends, b) /\ backends \in Seq(Result)
    BY <1>4 DEF b, DInv, ResultsOK
  <2>5. /\ backends' \in Seq(Result) /\ Len(backends) \in Nat /\ Len(backends') = Len(backends) + 1
        /\ backends'[Len(backends) + 1] = b
        /\ \A m \in 1 .. Len(backends) : backends'[m] = backends[m]
    BY <2>3, <2>4
  <2>6. ASSUME NEW m \in 1 .. Len(backends')
        PROVE  /\ backends'[m].VethName.pid \in 1 .. Len(runs)
               /\ HasAddress(backends'[m].VethName.pid, backends'[m].ID, backends'[m].IP)
               /\ backends'[m].IP # NULL
    <3>1. CASE m = Len(backends) + 1
      BY <2>1, <2>3, <2>5, <3>1
    <3>2. CASE m \in 1 .. Len(backends)
      BY <2>5, <3>2, Zenon DEF DInv, ResultsOK
    <3>3. QED
      BY <2>5, <3>1, <3>2
  <2>7. ResultsOK'
    BY <1>1, <2>5, <2>6 DEF ResultsOK, HasAddress
  <2>8. QED
    BY <1>1, <1>2, <2>7 DEF DInv
<1>5. QED
  BY <1>3, <1>4 DEF HostLink

(* Every step preserves the invariant. *)
LEMMA NextDInv == DInv /\ [Next]_discoveryVars => DInv'
<1> SUFFICES ASSUME DInv, [Next]_discoveryVars PROVE DInv'
  OBVIOUS
<1>1. ASSUME NEW c \in Container, Start(c) \/ Stop(c) \/ HealthChanges(c) \/ Inspect(c) PROVE DInv'
  BY <1>1, StartKeeps, StopKeeps, InspectKeeps
<1>2. CASE ContainerLinks
  BY <1>2, LinksKeeps
<1>3. CASE HostLink
  BY <1>3, HostLinkKeeps
<1>4. CASE List \/ Return \/ CallFails
  <2>1. /\ runs' = runs /\ live' = live /\ (backends' = backends \/ backends' = <<>>)
        /\ step' \in {"idle", "inspect"}
    BY <1>4 DEF List, Return, CallFails, Skip, docker
  <2>2. RunsOK' /\ CandOK'
    BY <2>1 DEF DInv, RunsOK, CandOK, IsRun
  <2>3. ResultsOK'
    <3>1. CASE backends' = backends
      BY <2>1, <3>1, Zenon DEF DInv, ResultsOK, HasAddress
    <3>2. CASE backends' = <<>>
      BY <3>2 DEF ResultsOK
    <3>3. QED
      BY <2>1, <3>1, <3>2, Zenon
  <2>4. QED
    BY <2>1, <2>2, <2>3 DEF DInv
<1>5. CASE UNCHANGED discoveryVars
  BY <1>5 DEF discoveryVars, docker, watcher, history, DInv, RunsOK, CandOK, ResultsOK, IsRun, HasAddress, VethOf
<1>6. QED
  BY <1>1, <1>2, <1>3, <1>4, <1>5 DEF Next

-----------------------------------------------------------------------------
(* What a start does to the runs: one more, with addresses its networks    *)
(* had to give; those before it stay.                                      *)
LEMMA StartRuns ==
  ASSUME NEW c \in Container, DInv, Start(c)
  PROVE  /\ Len(runs) \in Nat /\ Len(runs') = Len(runs) + 1
         /\ \A p \in 1 .. Len(runs) : runs'[p] = runs[p]
         /\ \A n \in NetsOf[c] : runs'[Len(runs) + 1].ip[n] \in Pool[n] \ (Taken(n) \ {NULL})
<1> DEFINE S == UNION {RunOf(x) : x \in Container}
<1>1. PICK ip \in [NetsOf[c] -> UNION {Pool[n] : n \in NetsOf[c]}], first \in NetsOf[c] :
        /\ \A n \in NetsOf[c] : ip[n] \in Pool[n] \ (Taken(n) \ {NULL})
        /\ runs' = Append(runs, [ip |-> ip, first |-> first])
  BY Zenon DEF Start
<1> DEFINE r == [ip |-> ip, first |-> first]
<1>2. r.ip = ip /\ r \in S /\ runs \in Seq(S)
  BY DiscoveryAssumption DEF RunOf, Address, DInv, RunsOK
<1> HIDE DEF r, S
<1>3. runs' = Append(runs, r)
  BY <1>1 DEF r
<1>4. /\ Len(runs) \in Nat /\ Len(runs') = Len(runs) + 1
      /\ runs'[Len(runs) + 1] = r
      /\ \A p \in 1 .. Len(runs) : runs'[p] = runs[p]
  BY <1>2, <1>3
<1>5. QED
  BY <1>1, <1>2, <1>4

(* A container that is up has its run among the runs. *)
LEMMA UpRuns == ASSUME DInv, NEW c \in Up PROVE c \in Container /\ live[c] \in 1 .. Len(runs)
BY DEF Up, DInv, RunsOK, IsRun

(* What the append of a backend does to the result. *)
LEMMA HostLinkAppends ==
  ASSUME DInv, HostLink, ~Skip
  PROVE  /\ Len(backends) \in Nat /\ Len(backends') = Len(backends) + 1
         /\ \A m \in 1 .. Len(backends) : backends'[m] = backends[m]
         /\ backends'[Len(backends) + 1].ID = cand.id
         /\ backends'[Len(backends) + 1].IP = cand.IP
         /\ backends'[Len(backends) + 1].VethName.pid = cand.pid
<1> DEFINE b == [ID |-> cand.id, IP |-> cand.IP, VethName |-> cand.veth]
<1>1. /\ cand \in [id : Container, pid : Nat, IP : Address, veth : {NULL} \cup [pid : Nat, net : DOMAIN Pool]]
      /\ IsRun(cand.pid, cand.id)
      /\ cand.veth = VethOf(cand.pid, runs[cand.pid].first)
  BY Zenon DEF DInv, CandOK, HostLink
<1>2. cand.veth \in [pid : Nat, net : DOMAIN Pool] /\ cand.veth.pid = cand.pid
  BY <1>1, DiscoveryAssumption DEF VethOf, RunOf, IsRun
<1>3. b \in Result /\ b.ID = cand.id /\ b.IP = cand.IP /\ b.VethName.pid = cand.pid
  BY <1>1, <1>2 DEF Result
<1>4. backends' = Append(backends, b) /\ backends \in Seq(Result)
  BY DEF HostLink, DInv, ResultsOK
<1> HIDE DEF b
<1>5. /\ Len(backends) \in Nat /\ Len(backends') = Len(backends) + 1
      /\ \A m \in 1 .. Len(backends) : backends'[m] = backends[m]
      /\ backends'[Len(backends) + 1] = b
  BY <1>3, <1>4
<1>6. QED
  BY <1>3, <1>5

-----------------------------------------------------------------------------
(* What the watcher knows of a container that was steady since the listing *)
(* still holds, and the container has not been lost on the way: it waits   *)
(* for its inspection, is at hand under its current pid or has been found. *)
SteadyInv ==
  /\ health \in [Container -> {"none", "healthy", "unhealthy"}]
  /\ ids \subseteq Container
  /\ steady \subseteq Container
  /\ \A c \in steady : live[c] # NULL /\ HealthOK(c) /\ WithIPv4(c) # {}
  /\ step # "idle" => \A c \in steady \ faulted :
       \/ c \in ids
       \/ step \in {"links", "host"} /\ cand.id = c /\ cand.pid = live[c]
       \/ \E m \in 1 .. Len(backends) : backends[m].ID = c

(* Containers that start, stop or change their health. *)
LEMMA DockerSteady ==
  ASSUME NEW x \in Container, DInv, SteadyInv, Start(x) \/ Stop(x) \/ HealthChanges(x)
  PROVE  SteadyInv'
<1>1. ids' = ids /\ step' = step /\ cand' = cand /\ backends' = backends /\ faulted' = faulted
  BY DEF Start, Stop, HealthChanges, watcher
<1>2. steady' \subseteq steady /\ steady' \subseteq Container
  BY DEF Start, Stop, HealthChanges, SteadyInv
<1>3. ASSUME NEW c \in steady'
      PROVE  /\ live'[c] = live[c] /\ health'[c] = health[c]
             /\ runs'[live[c]] = runs[live[c]]
  <2>1. c \in Container /\ live[c] # NULL /\ live[c] \in 1 .. Len(runs)
    BY <1>2, Zenon DEF SteadyInv, DInv, RunsOK, IsRun
  <2>2. CASE Start(x)
    <3>1. c # x
      BY <2>1, <2>2 DEF Start
    <3>2. runs'[live[c]] = runs[live[c]]
      BY <2>1, <2>2, StartRuns, Zenon
    <3>3. QED
      BY <2>1, <2>2, <3>1, <3>2, Zenon DEF Start, SteadyInv, DInv, RunsOK
  <2>3. CASE Stop(x) \/ HealthChanges(x)
    BY <2>1, <2>3, Zenon DEF Stop, HealthChanges, SteadyInv, DInv, RunsOK
  <2>4. QED
    BY <2>2, <2>3, Zenon
<1>4. ASSUME NEW c \in steady'
      PROVE  live'[c] # NULL /\ HealthOK(c)' /\ WithIPv4(c)' # {}
  BY <1>2, <1>3 DEF SteadyInv, HealthOK, WithIPv4
<1>4a. health' \in [Container -> {"none", "healthy", "unhealthy"}]
  BY Zenon DEF Start, Stop, HealthChanges, SteadyInv
<1>5. ASSUME step' # "idle", NEW c \in steady' \ faulted'
      PROVE  \/ c \in ids'
             \/ step' \in {"links", "host"} /\ cand'.id = c /\ cand'.pid = live'[c]
             \/ \E m \in 1 .. Len(backends') : backends'[m].ID = c
  BY <1>1, <1>2, <1>3, <1>5, Zenon DEF SteadyInv
<1>6. QED
  BY <1>1, <1>2, <1>4, <1>5, <1>4a, Zenon DEF SteadyInv

(* The steps of the watcher leave Docker as it is. *)
LEMMA WatcherSteady ==
  ASSUME DInv, SteadyInv, UNCHANGED docker, steady' = steady, ids' \subseteq Container,
         step' # "idle" => \A c \in steady \ faulted' :
           \/ c \in ids'
           \/ step' \in {"links", "host"} /\ cand'.id = c /\ cand'.pid = live[c]
           \/ \E m \in 1 .. Len(backends') : backends'[m].ID = c
  PROVE  SteadyInv'
<1>1. live' = live /\ health' = health /\ runs' = runs
  BY DEF docker
<1>2. \A c \in steady' : live'[c] # NULL /\ HealthOK(c)' /\ WithIPv4(c)' # {}
  BY <1>1 DEF SteadyInv, HealthOK, WithIPv4
<1>3. QED
  BY <1>1, <1>2, Zenon DEF SteadyInv

(* A steady container passes the inspection, and its links are there. *)
LEMMA LookupsSteady ==
  ASSUME DInv, SteadyInv,
         ContainerLinks \/ HostLink \/ \E x \in Container : Inspect(x)
  PROVE  SteadyInv'
<1>1. UNCHANGED docker /\ steady' = steady /\ faulted' = faulted /\ ids' \subseteq ids /\ step # "idle"
  BY DEF Inspect, ContainerLinks, HostLink, Skip, history
<1>2. ids' \subseteq Container
  BY <1>1 DEF SteadyInv
<1>3. ASSUME NEW c \in steady \ faulted
      PROVE  \/ c \in ids'
             \/ step' \in {"links", "host"} /\ cand'.id = c /\ cand'.pid = live[c]
             \/ \E m \in 1 .. Len(backends') : backends'[m].ID = c
  <2>1. /\ c \in Container /\ live[c] # NULL /\ HealthOK(c) /\ WithIPv4(c) # {}
        /\ \/ c \in ids
           \/ step \in {"links", "host"} /\ cand.id = c /\ cand.pid = live[c]
           \/ \E m \in 1 .. Len(backends) : backends[m].ID = c
    BY <1>1, <1>3, Zenon DEF SteadyInv
  <2>2. ASSUME NEW x \in Container, Inspect(x)
        PROVE  \/ c \in ids'
               \/ step' \in {"links", "host"} /\ cand'.id = c /\ cand'.pid = live[c]
               \/ \E m \in 1 .. Len(backends') : backends'[m].ID = c
    BY <2>1, <2>2 DEF Inspect
  <2>3. step \in {"links", "host"} /\ cand.id = c /\ cand.pid = live[c] => Alive(cand.pid)
    BY <2>1 DEF Alive, Up
  <2>4. CASE ContainerLinks
    <3>1. cand \in [id : Container, pid : Nat, IP : Address, veth : {NULL} \cup [pid : Nat, net : DOMAIN Pool]]
      BY <2>4, Zenon DEF ContainerLinks, DInv, CandOK
    <3>2. QED
      BY <2>1, <2>3, <2>4, <3>1 DEF ContainerLinks, Skip
  <2>5. CASE HostLink /\ Skip
    <3>1. cand.veth.pid = cand.pid
      BY <2>5 DEF HostLink, DInv, CandOK, VethOf
    <3>2. ~Alive(cand.pid) \/ backends' # backends
      BY <2>5, <3>1 DEF HostLink
    <3>3. QED
      BY <2>1, <2>3, <2>5, <3>1 DEF HostLink, Skip
  <2>6. CASE HostLink /\ ~Skip
    <3>1. /\ Len(backends) \in Nat /\ Len(backends') = Len(backends) + 1
          /\ \A m \in 1 .. Len(backends) : backends'[m] = backends[m]
          /\ backends'[Len(backends) + 1].ID = cand.id
      BY <2>6, HostLinkAppends
    <3>2. ids' = ids
      BY <2>6 DEF HostLink
    <3>3. QED
      BY <2>1, <3>1, <3>2
  <2>7. QED
    BY <2>2, <2>4, <2>5, <2>6
<1>4. QED
  BY <1>1, <1>2, <1>3, WatcherSteady

(* Every step preserves it. *)
LEMMA NextSteady == DInv /\ SteadyInv /\ [Next]_discoveryVars => SteadyInv'
<1> SUFFICES ASSUME DInv, SteadyInv, [Next]_discoveryVars PROVE SteadyInv'
  OBVIOUS
<1>1. ASSUME NEW c \in Container, Start(c) \/ Stop(c) \/ HealthChanges(c) PROVE SteadyInv'
  BY <1>1, DockerSteady
<1>2. CASE ContainerLinks \/ HostLink \/ \E c \in Container : Inspect(c)
  BY <1>2, LookupsSteady, Zenon
<1>3. CASE List
  <2>1. live' = live /\ health' = health /\ runs' = runs /\ ids' = Up /\ Up \subseteq Container
    BY <1>3 DEF List, docker, Up
  <2>2. steady' = {c \in Up : health[c] # "unhealthy" /\ WithIPv4(c) # {}}
    BY <1>3, Zenon DEF List
  <2>3. \A c \in steady' : live'[c] # NULL /\ HealthOK(c)' /\ WithIPv4(c)' # {}
    BY <2>1, <2>2 DEF SteadyInv, HealthOK, WithIPv4, Up
  <2>4. QED
    BY <2>1, <2>2, <2>3 DEF SteadyInv
<1>4. CASE CallFails
  <2>1. UNCHANGED docker /\ steady' = steady /\ ids' \subseteq Container /\ step # "idle" /\ backends' = backends
    BY <1>4 DEF CallFails, Skip, SteadyInv
  <2>2. CASE step = "inspect"
    <3>1. PICK x \in ids : ids' = ids \ {x} /\ faulted' = faulted \cup {x} /\ step' = step
      BY <1>4, <2>2 DEF CallFails
    <3>2. \A c \in steady \ faulted' : c \in ids' \/ \E m \in 1 .. Len(backends') : backends'[m].ID = c
      BY <2>1, <2>2, <3>1 DEF SteadyInv
    <3>3. QED
      BY <2>1, <3>2, WatcherSteady, Zenon
  <2>3. CASE step # "inspect"
    <3>1. ids' = ids /\ faulted' = faulted \cup {cand.id}
      BY <1>4, <2>3 DEF CallFails
    <3>2. \A c \in steady \ faulted' : c \in ids' \/ \E m \in 1 .. Len(backends') : backends'[m].ID = c
      BY <2>1, <3>1 DEF SteadyInv
    <3>3. QED
      BY <2>1, <3>2, WatcherSteady, Zenon
  <2>4. QED
    BY <2>2, <2>3
<1>5. CASE Return
  BY <1>5, Zenon DEF Return, SteadyInv, docker
<1>6. CASE UNCHANGED discoveryVars
  BY <1>6 DEF discoveryVars, docker, watcher, history, SteadyInv, HealthOK, WithIPv4
<1>7. QED
  BY <1>1, <1>2, <1>3, <1>4, <1>5, <1>6 DEF Next

(* The live runs: pids differ, and an address is of at most one of them.   *)
LiveApart ==
  /\ \A c \in Up : \A n \in NetsOf[c] : runs[live[c]].ip[n] \in Pool[n]
  /\ \A c, d \in Up : c # d =>
       /\ live[c] # live[d]
       /\ \A m \in NetsOf[c], n \in NetsOf[d] :
            runs[live[c]].ip[m] = runs[live[d]].ip[n] => runs[live[c]].ip[m] = NULL

(* What was read of container c, under this pid and with this address, is  *)
(* not true of any other container, now or when it is inspected later.     *)
OwnEntry(c, pid, a) ==
  /\ c \notin ids
  /\ \A d \in Up \ {c} : live[d] # pid
  /\ ~restarted => \A d \in Up \ {c} : \A n \in NetsOf[d] : runs[live[d]].ip[n] # a

(* Two entries of containers c and d share nothing. *)
EntriesApart(c, d, p, q, a, b) == c # d /\ p # q /\ (~restarted => a # b)

DistinctInv ==
  /\ step = "idle" => backends = <<>>
  /\ LiveApart
  /\ step \in {"links", "host"} =>
       /\ OwnEntry(cand.id, cand.pid, cand.IP)
       /\ \A m \in 1 .. Len(backends) :
            EntriesApart(backends[m].ID, cand.id, backends[m].VethName.pid, cand.pid,
                         backends[m].IP, cand.IP)
  /\ \A m \in 1 .. Len(backends) :
       OwnEntry(backends[m].ID, backends[m].VethName.pid, backends[m].IP)
  /\ \A m, n \in 1 .. Len(backends) : m # n =>
       EntriesApart(backends[m].ID, backends[n].ID, backends[m].VethName.pid,
                    backends[n].VethName.pid, backends[m].IP, backends[n].IP)

(* A start takes no address that is taken, and a pid of its own. *)
LEMMA StartDistinct ==
  ASSUME NEW x \in Container, DInv, DistinctInv, Start(x) PROVE DistinctInv'
<1>1. ids' = ids /\ step' = step /\ cand' = cand /\ backends' = backends
  BY DEF Start, watcher
<1>2. /\ live' = [live EXCEPT ![x] = Len(runs) + 1] /\ live \in [Container -> Nat \cup {NULL}]
      /\ x \notin Up /\ (~restarted' => step = "idle")
  BY Zenon DEF Start, DInv, RunsOK, Up
<1>3. /\ Len(runs) \in Nat
      /\ \A p \in 1 .. Len(runs) : runs'[p] = runs[p]
      /\ \A n \in NetsOf[x] : runs'[Len(runs) + 1].ip[n] \in Pool[n] \ (Taken(n) \ {NULL})
  BY StartRuns
<1>4. ASSUME NEW c \in Up'
      PROVE  \/ c = x /\ live'[c] = Len(runs) + 1
             \/ /\ c \in Up /\ c # x /\ live'[c] = live[c] /\ live[c] \in 1 .. Len(runs)
                /\ runs'[live'[c]] = runs[live[c]]
  <2>1. CASE c = x
    BY <1>2, <2>1
  <2>2. CASE c # x
    <3>1. c \in Up /\ live'[c] = live[c]
      BY <1>2, <2>2 DEF Up
    <3>2. QED
      BY <1>3, <2>2, <3>1, UpRuns
  <2>3. QED
    BY <2>1, <2>2
<1>5. ASSUME NEW d \in Up, NEW m \in NetsOf[x], NEW n \in NetsOf[d],
             runs'[Len(runs) + 1].ip[m] = runs[live[d]].ip[n]
      PROVE  runs'[Len(runs) + 1].ip[m] = NULL
  <2>1. d \in Container /\ runs[live[d]].ip[n] \in Pool[n]
    BY Zenon DEF DistinctInv, LiveApart, Up
  <2>2. m \in DOMAIN Pool /\ n \in DOMAIN Pool
    BY <2>1, DiscoveryAssumption, Zenon
  <2>3. CASE m = n
    BY <1>3, <1>5, <2>3, Zenon DEF Taken
  <2>4. CASE m # n
    BY <1>3, <1>5, <2>1, <2>2, <2>4, DiscoveryAssumption
  <2>5. QED
    BY <2>3, <2>4, Zenon
<1>6. LiveApart'
  <2>1. ASSUME NEW c \in Up', NEW n \in NetsOf[c] PROVE runs'[live'[c]].ip[n] \in Pool[n]
    BY <1>3, <1>4, Zenon DEF DistinctInv, LiveApart
  <2>2. ASSUME NEW c \in Up', NEW d \in Up', c # d
        PROVE  /\ live'[c] # live'[d]
               /\ \A m \in NetsOf[c], n \in NetsOf[d] :
                    runs'[live'[c]].ip[m] = runs'[live'[d]].ip[n] => runs'[live'[c]].ip[m] = NULL
    <3>1. CASE c = x
      BY <1>3, <1>4, <1>5, <2>2, <3>1
    <3>2. CASE d = x
      BY <1>3, <1>4, <1>5, <2>2, <3>2
    <3>3. CASE c # x /\ d # x
      BY <1>4, <2>2, <3>3 DEF DistinctInv, LiveApart
    <3>4. QED
      BY <3>1, <3>2, <3>3, Zenon
  <2>3. QED
    BY <2>1, <2>2, Zenon DEF LiveApart
<1>7. ASSUME NEW c, NEW p \in 1 .. Len(runs), NEW a, OwnEntry(c, p, a), step # "idle"
      PROVE  OwnEntry(c, p, a)'
  BY <1>1, <1>2, <1>3, <1>4, <1>7 DEF OwnEntry
<1>8. step \in {"links", "host"} => cand.pid \in 1 .. Len(runs)
  BY DEF DInv, CandOK, IsRun
<1>9. \A m \in 1 .. Len(backends) : backends[m].VethName.pid \in 1 .. Len(runs)
  BY Zenon DEF DInv, ResultsOK
<1>10. CASE step = "idle"
  BY <1>1, <1>6, <1>10 DEF DistinctInv
<1>11. CASE step # "idle"
  BY <1>1, <1>2, <1>6, <1>7, <1>8, <1>9, <1>11 DEF DistinctInv, EntriesApart
<1>12. QED
  BY <1>10, <1>11

(* Nothing new goes up, and the watcher's record stays. *)
LEMMA StopDistinct ==
  ASSUME NEW x \in Container, DInv, DistinctInv, Stop(x) \/ HealthChanges(x) PROVE DistinctInv'
<1>1. ids' = ids /\ step' = step /\ cand' = cand /\ backends' = backends /\ restarted' = restarted /\ runs' = runs
  BY DEF Stop, HealthChanges, watcher
<1>2. \A c \in Up' : c \in Up /\ live'[c] = live[c]
  BY Zenon DEF Stop, HealthChanges, Up, DInv, RunsOK
<1>3. LiveApart'
  BY <1>1, <1>2 DEF DistinctInv, LiveApart
<1>4. ASSUME NEW c, NEW p, NEW a, OwnEntry(c, p, a) PROVE OwnEntry(c, p, a)'
  BY <1>1, <1>2, <1>4 DEF OwnEntry
<1>5. QED
  BY <1>1, <1>3, <1>4 DEF DistinctInv, EntriesApart

(* The inspected run shares nothing with the other live ones. *)
LEMMA InspectDistinct ==
  ASSUME NEW x \in Container, DInv, DistinctInv, Inspect(x) PROVE DistinctInv'
<1>1. /\ live' = live /\ runs' = runs /\ backends' = backends /\ restarted' = restarted
      /\ ids' = ids \ {x} /\ x \in ids /\ step = "inspect"
  BY Zenon DEF Inspect, docker, history
<1>2. Up' = Up /\ LiveApart'
  BY <1>1 DEF DistinctInv, LiveApart, Up
<1>3. ASSUME NEW c, NEW p, NEW a, OwnEntry(c, p, a) PROVE OwnEntry(c, p, a)'
  BY <1>1, <1>2, <1>3, Zenon DEF OwnEntry
<1>4. CASE step' = "inspect"
  BY <1>1, <1>2, <1>3, <1>4, SMTT(30) DEF DistinctInv, EntriesApart
<1>5. CASE step' # "inspect"
  <2>1. PICK n \in WithIPv4(x) :
          /\ cand' = [id |-> x, pid |-> live[x], IP |-> runs[live[x]].ip[n], veth |-> NULL]
          /\ step' = "links" /\ live[x] # NULL
    BY <1>1, <1>5, Zenon DEF Inspect
  <2>2. x \in Up /\ n \in NetsOf[x] /\ runs[live[x]].ip[n] # NULL
    BY <2>1 DEF Up, WithIPv4
  <2>3. OwnEntry(x, live[x], runs[live[x]].ip[n])'
    BY <1>1, <1>2, <2>2 DEF OwnEntry, DistinctInv, LiveApart
  <2>4. ASSUME NEW m \in 1 .. Len(backends)
        PROVE  EntriesApart(backends[m].ID, x, backends[m].VethName.pid, live[x],
                            backends[m].IP, runs[live[x]].ip[n])
    BY <1>1, <2>2, Zenon DEF DistinctInv, OwnEntry, EntriesApart
  <2>5. cand'.id = x /\ cand'.pid = live[x] /\ cand'.IP = runs[live[x]].ip[n]
    BY <2>1, Zenon
  <2>6. QED
    BY <1>1, <1>2, <1>3, <2>1, <2>3, <2>4, <2>5 DEF DistinctInv, EntriesApart, OwnEntry
<1>6. QED
  BY <1>4, <1>5, Zenon

(* The entry at hand joins the result. *)
LEMMA HostLinkDistinct == ASSUME DInv, DistinctInv, HostLink, ~Skip PROVE DistinctInv'
<1>1. /\ live' = live /\ runs' = runs /\ restarted' = restarted /\ ids' = ids
      /\ step = "host" /\ step' = "inspect"
  BY Zenon DEF HostLink, docker, history
<1>2. Up' = Up /\ LiveApart'
  BY <1>1 DEF DistinctInv, LiveApart, Up
<1>3. ASSUME NEW c, NEW p, NEW a, OwnEntry(c, p, a) PROVE OwnEntry(c, p, a)'
  BY <1>1, <1>2, <1>3 DEF OwnEntry
<1>4. /\ Len(backends) \in Nat /\ Len(backends') = Len(backends) + 1
      /\ \A m \in 1 .. Len(backends) : backends'[m] = backends[m]
      /\ backends'[Len(backends) + 1].ID = cand.id
      /\ backends'[Len(backends) + 1].IP = cand.IP
      /\ backends'[Len(backends) + 1].VethName.pid = cand.pid
  BY HostLinkAppends
<1>5. ASSUME NEW m \in 1 .. Len(backends')
      PROVE  OwnEntry(backends'[m].ID, backends'[m].VethName.pid, backends'[m].IP)
  <2>1. CASE m = Len(backends) + 1
    BY <1>1, <1>4, <2>1, Zenon DEF DistinctInv
  <2>2. CASE m \in 1 .. Len(backends)
    BY <1>4, <2>2, Zenon DEF DistinctInv
  <2>3. QED
    BY <1>4, <2>1, <2>2
<1>6. ASSUME NEW m \in 1 .. Len(backends'), NEW n \in 1 .. Len(backends'), m # n
      PROVE  EntriesApart(backends'[m].ID, backends'[n].ID, backends'[m].VethName.pid,
                          backends'[n].VethName.pid, backends'[m].IP, backends'[n].IP)
  <2>1. CASE m \in 1 .. Len(backends) /\ n \in 1 .. Len(backends)
    BY <1>4, <1>6, <2>1, Zenon DEF DistinctInv
  <2>2. CASE m \in 1 .. Len(backends) /\ n = Len(backends) + 1
    BY <1>1, <1>4, <2>2, Zenon DEF DistinctInv
  <2>3. CASE n \in 1 .. Len(backends) /\ m = Len(backends) + 1
    BY <1>1, <1>4, <2>3 DEF DistinctInv, EntriesApart
  <2>4. QED
    BY <1>4, <1>6, <2>1, <2>2, <2>3
<1>7. QED
  BY <1>1, <1>2, <1>3, <1>5, <1>6 DEF DistinctInv, EntriesApart

(* Every step preserves it. *)
LEMMA NextDistinct == DInv /\ DistinctInv /\ [Next]_discoveryVars => DistinctInv'
<1> SUFFICES ASSUME DInv, DistinctInv, [Next]_discoveryVars PROVE DistinctInv'
  OBVIOUS
<1>1. ASSUME NEW c \in Container, Start(c) \/ Stop(c) \/ HealthChanges(c) \/ Inspect(c) PROVE DistinctInv'
  BY <1>1, StartDistinct, StopDistinct, InspectDistinct
<1>2. CASE HostLink /\ ~Skip
  BY <1>2, HostLinkDistinct, Zenon
<1>3. CASE List
  BY <1>3, SMTT(30) DEF List, docker, DistinctInv, LiveApart, Up
<1>4. CASE Return
  BY <1>4 DEF Return, Complete, docker, DistinctInv, LiveApart, Up
<1>5. CASE CallFails \/ ContainerLinks \/ (HostLink /\ Skip)
  <2>1. /\ live' = live /\ runs' = runs /\ backends' = backends /\ restarted' = restarted
        /\ ids' \subseteq ids /\ step # "idle" /\ step' # "idle"
    BY <1>5 DEF CallFails, ContainerLinks, HostLink, Skip, docker, history
  <2>2. /\ step' \in {"links", "host"} => step \in {"links", "host"}
        /\ step' \in {"links", "host"} => cand'.id = cand.id /\ cand'.pid = cand.pid /\ cand'.IP = cand.IP
    BY <1>5, ZenonT(30) DEF CallFails, ContainerLinks, HostLink, Skip, DInv, CandOK
  <2>3. Up' = Up /\ LiveApart'
    BY <2>1 DEF DistinctInv, LiveApart, Up
  <2>4. ASSUME NEW c, NEW p, NEW a, OwnEntry(c, p, a) PROVE OwnEntry(c, p, a)'
    BY <2>1, <2>3, <2>4, Zenon DEF OwnEntry
  <2>5. QED
    BY <2>1, <2>2, <2>3, <2>4 DEF DistinctInv, EntriesApart, OwnEntry
<1>6. CASE UNCHANGED discoveryVars
  BY <1>6 DEF discoveryVars, docker, watcher, history, DistinctInv, LiveApart, Up, OwnEntry, EntriesApart
<1>7. QED
  BY <1>1, <1>2, <1>3, <1>4, <1>5, <1>6 DEF Next

-----------------------------------------------------------------------------
(* A backend's address and veth are of one run of its container: the veth  *)
(* is searched by the pid that came with the address.                      *)
THEOREM AddressAndVethOfOneRun == Spec => []OfOneRun
<1>1. Init => DInv
  BY DEF Init, DInv, RunsOK, CandOK, ResultsOK
<1>2. DInv => OfOneRun
  BY Zenon DEF DInv, ResultsOK, HasAddress, OfOneRun, Found
<1>3. QED
  BY NextDInv, <1>1, <1>2, PTL DEF Spec

(* A container that was up, healthy and addressed from the listing to the  *)
(* end is in the list DiscoverBackends returns unless a call for it        *)
(* failed: the other containers may start, stop and restart under the      *)
(* watcher's eyes, and calls for them may fail.                            *)
THEOREM NoSteadyBackendLost == Spec => []SteadyIsFound
<1>1. Init => DInv /\ SteadyInv
  BY DEF Init, DInv, RunsOK, CandOK, ResultsOK, SteadyInv
<1>2. DInv /\ SteadyInv => SteadyIsFound
  BY SMTT(30) DEF SteadyInv, SteadyIsFound, Complete, Found
<1>3. QED
  BY NextDInv, NextSteady, <1>1, <1>2, PTL DEF Spec

(* Two backends of one list have different veths, and different addresses  *)
(* unless a container started after the listing, and then at most one of   *)
(* the two is still running: Docker hands an address out to one running    *)
(* container at a time, and no container is inspected twice.               *)
THEOREM BackendsDistinct == Spec => []NoDuplicates
<1>1. Init => DInv /\ DistinctInv
  BY DEF Init, DInv, RunsOK, CandOK, ResultsOK, DistinctInv, LiveApart, Up
<1>2. DInv /\ DistinctInv => NoDuplicates
  <2> SUFFICES ASSUME DInv, DistinctInv, NEW m \in 1 .. Len(backends), NEW n \in 1 .. Len(backends), m # n
               PROVE  /\ backends[m].VethName # backends[n].VethName
                      /\ backends[m].IP = backends[n].IP =>
                           restarted /\ ~(Current(backends[m]) /\ Current(backends[n]))
    BY DEF NoDuplicates
  <2>1. EntriesApart(backends[m].ID, backends[n].ID, backends[m].VethName.pid, backends[n].VethName.pid,
                     backends[m].IP, backends[n].IP)
    BY Zenon DEF DistinctInv
  <2>2. ASSUME Current(backends[m]), Current(backends[n]) PROVE backends[m].IP # backends[n].IP
    <3>1. /\ HasAddress(live[backends[m].ID], backends[m].ID, backends[m].IP) /\ backends[m].IP # NULL
          /\ HasAddress(live[backends[n].ID], backends[n].ID, backends[n].IP)
          /\ backends[m].ID \in Up /\ backends[n].ID \in Up /\ backends[m].ID # backends[n].ID
      BY <2>1, <2>2, Zenon DEF DInv, ResultsOK, Current, EntriesApart
    <3>2. QED
      BY <3>1 DEF HasAddress, DistinctInv, LiveApart
  <2>3. QED
    BY <2>1, <2>2, Zenon DEF EntriesApart
<1>3. QED
  BY NextDInv, NextDistinct, <1>1, <1>2, PTL DEF Spec
=============================================================================
