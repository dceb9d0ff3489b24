---------------------------- MODULE StatsProofs ----------------------------
(***************************************************************************)
(* Proofs about Stats, for every pool, every set of CPUs and any number of *)
(* requests: each counter is the number of requests of its CPU and slot, a *)
(* row is a consistent reading of its slot, and as long as Syncs only      *)
(* append backends it is a reading of its backend.                         *)
(***************************************************************************)
EXTENDS Stats, PoolProofs, FiniteSetTheorems

LEMMA StatsNextPool == [StatsNext]_statsVars => [Next]_vars
  BY DEF StatsNext, StartSync, RunSync, Arrive, RunIngress, Leave, Render, ReadStats, PrintRow, statsVars, Next

-----------------------------------------------------------------------------
(* The programs and render keep to the arrays: what holds of both at every *)
(* step, next to the pool's own invariant.                                 *)
StatsInv ==
  /\ IInv
  /\ prog \in [CPU -> Program]
  /\ \A c \in CPU : prog[c].at \in {"mac", "addr"} => prog[c].idx \in Index
  /\ arrived \in Nat
  /\ rows \in Lists \cup {<<>>}
  /\ rows # <<>> => row \in Index /\ row < Len(rows) /\ Len(rows) <= MAX_BACKENDS
  /\ unread \subseteq CPU

(* render's index stays below the rows it has, which never exceed the map. *)
LEMMA NextRowOK ==
  ASSUME NEW list \in Lists \cup {<<>>}, NEW k \in Nat, Len(list) <= MAX_BACKENDS, NextRow(list, k)
  PROVE  /\ rows' \in Lists \cup {<<>>}
         /\ rows' # <<>> =>
              /\ rows' = list /\ row' = k /\ pkts' = 0 /\ unread' = CPU /\ before' = counted
              /\ row' \in Index /\ row' < Len(rows') /\ Len(rows') <= MAX_BACKENDS
         /\ unread' \subseteq CPU
<1>1. Len(list) \in Nat /\ MAX_BACKENDS \in Nat
  BY ListFacts, MapAssumption, Zenon
<1>2. CASE k < Len(list)
  BY <1>1, <1>2 DEF NextRow, Index
<1>3. CASE ~(k < Len(list))
  BY <1>3 DEF NextRow
<1>4. QED
  BY <1>2, <1>3, Zenon

(* What a new row starts from, at render's start and after a row. *)
LEMMA NewRow ==
  ASSUME StatsInv, Render \/ PrintRow
  PROVE  /\ rows' \in Lists \cup {<<>>} /\ unread' \subseteq CPU
         /\ rows' # <<>> =>
              /\ (rows' = backends /\ pc = "idle") \/ rows' = rows
              /\ pkts' = 0 /\ unread' = CPU /\ before' = counted
              /\ row' \in Index /\ row' < Len(rows') /\ Len(rows') <= MAX_BACKENDS
<1>1. CASE Render
  <2>1. backends \in Lists \cup {<<>>} /\ Len(backends) <= MAX_BACKENDS
    BY DEF StatsInv, IInv, TypeOK
  <2>2. QED
    BY <1>1, <2>1, NextRowOK, Zenon DEF Render
<1>2. CASE PrintRow
  <2>1. row + 1 \in Nat
    BY <1>2, MapAssumption DEF PrintRow, StatsInv, Index
  <2>2. QED
    BY <1>2, <2>1, NextRowOK, Zenon DEF PrintRow, StatsInv
<1>3. QED
  BY <1>1, <1>2

LEMMA NextStatsInv == StatsInv /\ [StatsNext]_statsVars => StatsInv'
<1> SUFFICES ASSUME StatsInv, [StatsNext]_statsVars PROVE StatsInv'
  OBVIOUS
<1>1. IInv'
  BY StatsNextPool, NextIInv, Zenon DEF StatsInv
<1>2. CASE UNCHANGED statsVars \/ RunSync \/ \E list \in Lists : StartSync(list)
  BY <1>1, <1>2, Zenon DEF StatsInv, statsVars, xdpVars, renderVars, RunSync, StartSync
<1>3. ASSUME NEW c \in CPU, Arrive(c) PROVE StatsInv'
  <2>1. prog'[c] \in Program /\ prog'[c].at \in {"vip", "out"} /\ prog' = [prog EXCEPT ![c] = prog'[c]]
    BY <1>3, MapAssumption DEF StatsInv, Arrive, Ingress, Program, Frame, Ats, Random
  <2>2. arrived' = arrived + 1 /\ UNCHANGED <<rows, row, unread>>
    BY <1>3, Zenon DEF Arrive, renderVars
  <2>3. QED
    BY <1>1, <2>1, <2>2 DEF StatsInv
<1>4. ASSUME NEW c \in CPU, RunIngress(c) PROVE StatsInv'
  <2>1. /\ prog'[c] \in Program /\ prog' = [prog EXCEPT ![c] = prog'[c]]
        /\ prog'[c].at \in {"mac", "addr"} => prog'[c].idx \in Index
    BY <1>4, IngressStepOK, Zenon DEF RunIngress, StatsInv, IInv, TypeOK
  <2>2. UNCHANGED <<arrived, rows, row, unread>>
    BY <1>4, Zenon DEF RunIngress, renderVars
  <2>3. QED
    BY <1>1, <2>1, <2>2, Zenon DEF StatsInv
<1>5. ASSUME NEW c \in CPU, Leave(c) PROVE StatsInv'
  <2>1. Idle \in Program /\ Idle.at = "idle"
    BY MapAssumption DEF Idle, NoFrame, Program, Frame, Ats, Random
  <2>2. prog' = [prog EXCEPT ![c] = Idle] /\ UNCHANGED <<arrived, rows, row, unread>>
    BY <1>5, Zenon DEF Leave, renderVars
  <2>3. QED
    BY <1>1, <2>1, <2>2, Zenon DEF StatsInv
<1>6. ASSUME NEW c \in CPU, ReadStats(c) PROVE StatsInv'
  BY <1>1, <1>6, Zenon DEF StatsInv, ReadStats, xdpVars
<1>7. CASE Render \/ PrintRow
  <2>1. UNCHANGED <<prog, arrived>>
    BY <1>7, Zenon DEF Render, PrintRow, xdpVars
  <2>2. QED
    BY <1>1, <1>7, <2>1, NewRow, Zenon DEF StatsInv
<1>8. QED
  BY <1>2, <1>3, <1>4, <1>5, <1>6, <1>7 DEF StatsNext

-----------------------------------------------------------------------------
(* The requests that CPU c counted for slot k. *)
On(S, c, k) == {p \in S : p.cpu = c /\ p.slot = k}

(* The counters are exact: each one is the number of requests that its CPU *)
(* sent from its slot.  A request that is under way arrived after all that *)
(* its CPU has counted, so no two requests are the same.                   *)
CountInv ==
  /\ IsFiniteSet(counted)
  /\ \A p \in counted : p.n \in Nat /\ p.n <= arrived /\ p.cpu \in CPU /\ p.slot \in Index
  /\ \A c \in CPU : prog[c].at \in {"vip", "pick", "lookup", "mac", "addr"} =>
       \A p \in counted : p.cpu = c => p.n < arrived
  /\ counters_map \in [CPU -> [Index -> Nat]]
  /\ \A c \in CPU, k \in Index : counters_map[c][k] = Cardinality(On(counted, c, k))

(* What ReadStats(i) has added so far are requests of the row's slot on    *)
(* the CPUs it has read: all those the slot had when the row was begun.    *)
RowInv ==
  rows # <<>> =>
    /\ before \subseteq counted
    /\ \E seen \in SUBSET OfSlot(counted, row) :
         /\ pkts = Cardinality(seen)
         /\ \A p \in seen : p.cpu \notin unread
         /\ \A p \in OfSlot(before, row) : p.cpu \notin unread => p \in seen

(* While Syncs only append, a slot stays with one backend, render's list   *)
(* is the beginning of what is served, and the requests of a slot are      *)
(* those of its backend.                                                   *)
SteadySlots ==
  /\ PoolGrown
  /\ \A c \in CPU : ServedPast(c)
  /\ \A p \in counted : p.slot < Len(Served) /\ p.to = At(Served, p.slot).IP
  /\ Grows(rows, Served)

SteadyInv == ~churned => SteadySlots

-----------------------------------------------------------------------------
LEMMA ServedLists == ASSUME IInv PROVE Served \in Lists \cup {<<>>} /\ Len(Served) \in Nat
  BY ListFacts, Zenon DEF IInv, TypeOK, Served

(* Growth on growth is growth. *)
LEMMA GrowsOn ==
  ASSUME NEW r \in Lists \cup {<<>>}, NEW s \in Lists \cup {<<>>}, NEW t \in Lists \cup {<<>>},
         Grows(r, s), Grows(s, t)
  PROVE  Grows(r, t)
<1>1. Len(r) \in Nat /\ Len(s) \in Nat /\ Len(t) \in Nat
  BY ListFacts
<1>2. Index \subseteq Nat
  BY MapAssumption DEF Index
<1>3. QED
  BY <1>1, <1>2 DEF Grows

(* No Sync that is not an append leaves churned false. *)
LEMMA AppendsOnly ==
  ASSUME StatsInv, [StatsNext]_statsVars, ~churned'
  PROVE  ~churned /\ \A list \in Lists : SyncBegin(list) => Grows(backends, list)
<1>1. CASE \E list \in Lists : StartSync(list)
  <2>1. PICK list \in Lists : StartSync(list)
    BY <1>1
  <2>2. SyncBegin(list) /\ ~churned /\ Appends(list)
    BY <2>1, Zenon DEF StartSync
  <2>3. Grows(backends, list)
    BY <2>2, PrefixGrows, Zenon DEF Appends, StatsInv
  <2>4. \A l \in Lists : SyncBegin(l) => l = list
    BY <2>2 DEF SyncBegin
  <2>5. QED
    BY <2>2, <2>3, <2>4, Zenon
<1>2. CASE ~\E list \in Lists : StartSync(list)
  <2>1. churned' = churned /\ (UNCHANGED vars \/ SyncStep \/ SyncFault)
    BY <1>2 DEF StatsNext, statsVars, RunSync, Arrive, RunIngress, Leave, Render, PrintRow, ReadStats
  <2>2. ASSUME NEW l \in Lists, SyncBegin(l) PROVE FALSE
    <3>1. pc = "idle" /\ pc' # "idle"
      <4>1. l \in Lists \cup {<<>>} /\ Len(backends) \in Nat
        BY ListFacts DEF StatsInv, IInv, TypeOK
      <4>2. Stage(l, 0) # "idle"
        BY <4>1, StageFacts
      <4>3. QED
        BY <2>2, <4>2, Zenon DEF SyncBegin, GoTo
    <3>2. pc' = pc \/ pc # "idle"
      BY <2>1, ZenonT(30) DEF vars, poolVars, SyncStep, SyncFault, ClearSlot, ClearIp, UpdateSlot, UpdateIp, UpdateFails, AttachVeth,
                  AttachVethFails, DetachVeth, DetachVethFails, UpdateConfig, Commit
    <3>3. QED
      BY <3>1, <3>2, Zenon
  <2>3. QED
    BY <2>1, <2>2, Zenon
<1>3. QED
  BY <1>1, <1>2, Zenon

(* The steps of the programs, with the pool at rest for the moment. *)
LEMMA RunSteady ==
  ASSUME StatsInv, CountInv, SteadySlots, NEW c \in CPU, RunIngress(c)
  PROVE  /\ ServedPast(c)'
         /\ \A p \in counted' : p.slot < Len(Served) /\ p.to = At(Served, p.slot).IP
<1>1. /\ ServedPast(c)'
      /\ prog[c].at = "addr" => backend_map[prog[c].idx] = Info(At(Served, prog[c].idx))
  BY IngressStepServed, Zenon DEF RunIngress, StatsInv, SteadySlots
<1>2. CASE prog[c].at # "addr"
  BY <1>1, <1>2 DEF RunIngress, SteadySlots
<1>3. CASE prog[c].at = "addr"
  <2> DEFINE p == [n |-> arrived, cpu |-> c, slot |-> prog[c].idx, to |-> backend_map[prog[c].idx].ipv4]
  <2>1. counted' = counted \cup {p} /\ p.slot = prog[c].idx /\ p.to = backend_map[prog[c].idx].ipv4
    BY <1>3, SMTT(30) DEF RunIngress
  <2> HIDE DEF p
  <2>2. prog[c].idx < Len(Served) /\ backend_map[prog[c].idx].ipv4 = At(Served, prog[c].idx).IP
    BY <1>1, <1>3 DEF SteadySlots, ServedPast, Info
  <2>3. QED
    BY <1>1, <2>1, <2>2, Zenon DEF SteadySlots
<1>4. QED
  BY <1>2, <1>3, Zenon

LEMMA NextSteadySlots ==
  StatsInv /\ StatsInv' /\ CountInv /\ CountInv' /\ SteadyInv /\ [StatsNext]_statsVars => SteadyInv'
<1> SUFFICES ASSUME StatsInv, StatsInv', CountInv, CountInv', SteadyInv, [StatsNext]_statsVars, ~churned'
             PROVE  SteadySlots'
  BY DEF SteadyInv
<1>1. SteadySlots /\ \A list \in Lists : SyncBegin(list) => Grows(backends, list)
  BY AppendsOnly, Zenon DEF SteadyInv
<1>2. PoolGrown' /\ Grows(Served, Served')
  BY <1>1, StatsNextPool, NextPoolGrown, Zenon DEF SteadySlots, StatsInv
<1>3. /\ Served \in Lists \cup {<<>>} /\ Served' \in Lists \cup {<<>>}
      /\ Len(Served) \in Nat /\ Len(Served') \in Nat
      /\ Index \subseteq Nat /\ prog \in [CPU -> Program]
  <2>1. Served \in Lists \cup {<<>>} /\ Len(Served) \in Nat
    BY ServedLists, Zenon DEF StatsInv
  <2>2. Served' \in Lists \cup {<<>>}
    BY Zenon DEF StatsInv, IInv, TypeOK, Served
  <2>3. QED
    BY <2>1, <2>2, ListFacts, MapAssumption DEF Index, StatsInv
<1>4. ASSUME NEW d \in CPU, prog'[d] = prog[d] PROVE ServedPast(d)'
  <2>1. prog[d] \in Program
    BY <1>3, Zenon
  <2>2. QED
    BY <1>1, <1>2, <1>4, <2>1, ServedPastKept, Zenon DEF StatsInv, SteadySlots
<1>5. \A c \in CPU : ServedPast(c)'
  <2>1. ASSUME NEW c \in CPU, Arrive(c) PROVE \A d \in CPU : ServedPast(d)'
    <3>1. ServedPast(c)'
      <4>1. [icmp |-> TRUE, daddr |-> VIP] \in Requests
        BY Zenon DEF Requests
      <4>2. QED
        BY <1>1, <1>3, <2>1, <4>1, IngressServed DEF Arrive, SteadySlots, StatsInv
    <3>2. \A d \in CPU \ {c} : prog'[d] = prog[d]
      BY <1>3, <2>1, Zenon DEF Arrive, Ingress
    <3>3. QED
      BY <1>4, <3>1, <3>2, Zenon
  <2>2. ASSUME NEW c \in CPU, RunIngress(c) PROVE \A d \in CPU : ServedPast(d)'
    <3>1. \A d \in CPU \ {c} : prog'[d] = prog[d]
      BY <1>3, <2>2, Zenon DEF RunIngress, IngressStep, MatchVip, Pick, Lookup, RewriteMac, RewriteDaddr
    <3>2. QED
      BY <1>1, <1>4, <2>2, <3>1, RunSteady
  <2>3. ASSUME NEW c \in CPU, Leave(c) PROVE \A d \in CPU : ServedPast(d)'
    <3>1. prog'[c].at = "idle" /\ \A d \in CPU \ {c} : prog'[d] = prog[d]
      BY <1>3, <2>3, Zenon DEF Leave, Idle
    <3>2. ServedPast(c)'
      BY <3>1, Zenon DEF ServedPast
    <3>3. QED
      BY <1>4, <3>1, <3>2
  <2>4. prog' = prog \/ \E c \in CPU : Arrive(c) \/ RunIngress(c) \/ Leave(c)
    BY Zenon DEF StatsNext, statsVars, xdpVars, StartSync, RunSync, Render, PrintRow, ReadStats
  <2>5. QED
    BY <1>4, <2>1, <2>2, <2>3, <2>4, Zenon
<1>6. \A p \in counted' : p.slot < Len(Served) /\ p.slot \in Index /\ p.to = At(Served, p.slot).IP
  <2>1. \A p \in counted' : p.slot \in Index
    BY Zenon DEF CountInv
  <2>2. counted' = counted \/ \E c \in CPU : RunIngress(c)
    BY DEF StatsNext, statsVars, StartSync, RunSync, Arrive, Leave, Render, PrintRow, ReadStats
  <2>3. QED
    BY <1>1, <2>1, <2>2, RunSteady DEF SteadySlots
<1>7. \A p \in counted' : p.slot < Len(Served') /\ p.to = At(Served', p.slot).IP
  <2> SUFFICES ASSUME NEW p \in counted' PROVE p.slot < Len(Served') /\ p.to = At(Served', p.slot).IP
    OBVIOUS
  <2>1. p.slot < Len(Served) /\ p.slot \in Index /\ p.slot \in Nat /\ p.to = At(Served, p.slot).IP
    BY <1>3, <1>6, Zenon
  <2>2. QED
    BY <1>2, <1>3, <2>1 DEF Grows
<1>8. Grows(rows', Served')
  <2>1. CASE rows' = rows
    BY <1>1, <1>2, <1>3, <2>1, GrowsOn, Zenon DEF SteadySlots, StatsInv
  <2>2. CASE rows' = <<>>
    BY <1>3, <2>2 DEF Grows
  <2>3. CASE rows' = backends /\ pc = "idle"
    BY <1>2, <2>3, Zenon DEF Served
  <2>4. rows' = rows \/ Render \/ PrintRow
    BY Zenon DEF StatsNext, statsVars, renderVars, StartSync, RunSync, Arrive, RunIngress, Leave, ReadStats
  <2>5. QED
    BY <2>1, <2>2, <2>3, <2>4, NewRow, Zenon
<1>9. QED
  BY <1>2, <1>5, <1>7, <1>8, Zenon DEF SteadySlots, At, Grows

(* While Syncs only append, the requests of a row's slot and those of its  *)
(* backend's address are the same ones.                                    *)
LEMMA SlotIsBackend ==
  ASSUME StatsInv, CountInv, SteadySlots, rows # <<>>, NEW S \in SUBSET counted
  PROVE  OfAddr(S, At(rows, row).IP) = OfSlot(S, row)
<1>1. row \in Nat /\ row < Len(Served) /\ At(Served, row) = At(rows, row)
  <2>1. row \in Index /\ row < Len(rows) /\ Len(rows) \in Nat /\ Len(Served) \in Nat
    BY ListFacts, ServedLists, Zenon DEF StatsInv
  <2>2. QED
    BY <2>1, MapAssumption DEF SteadySlots, Grows, Index
<1>2. ASSUME NEW p \in S PROVE p.to = At(rows, row).IP <=> p.slot = row
  <2>1. p.slot \in Nat /\ p.slot < Len(Served) /\ p.to = At(Served, p.slot).IP
    BY MapAssumption DEF CountInv, SteadySlots, Index
  <2>2. Served \in Lists \cup {<<>>}
    BY ServedLists, Zenon DEF StatsInv
  <2>3. p.slot # row => At(Served, p.slot).IP # At(Served, row).IP
    BY <1>1, <2>1, <2>2, AddressFacts, Zenon
  <2>4. QED
    BY <1>1, <2>1, <2>3, Zenon
<1>3. QED
  BY <1>2, Zenon DEF OfAddr, OfSlot

-----------------------------------------------------------------------------
(* Counting one more request adds one to its counter and to no other. *)
LEMMA CountOne ==
  ASSUME StatsInv, CountInv, NEW c \in CPU, RunIngress(c), prog[c].at = "addr"
  PROVE  CountInv'
<1> DEFINE k == prog[c].idx
           p == [n |-> arrived, cpu |-> c, slot |-> k, to |-> backend_map[k].ipv4]
<1>1. /\ counted' = counted \cup {p} /\ arrived' = arrived
      /\ counters_map' = [counters_map EXCEPT ![c][k] = @ + 1]
      /\ prog' = [prog EXCEPT ![c].at = "out", ![c].frame.daddr = backend_map[k].ipv4]
  BY Zenon DEF RunIngress, IngressStep, MatchVip, Pick, Lookup, RewriteMac, RewriteDaddr
<1>2. k \in Index /\ arrived \in Nat /\ prog \in [CPU -> Program]
  BY Zenon DEF StatsInv
<1>3. /\ p.n = arrived /\ p.cpu = c /\ p.slot = k
      /\ \A q \in counted : q.cpu = c => q.n < arrived
  BY Zenon DEF CountInv
<1> HIDE DEF p
<1>4. p \notin counted
  BY <1>2, <1>3
<1>5. IsFiniteSet(counted') /\ \A q \in counted' : q.n \in Nat /\ q.n <= arrived' /\ q.cpu \in CPU /\ q.slot \in Index
  BY <1>1, <1>2, <1>3, FS_AddElement DEF CountInv
<1>6. \A d \in CPU : prog'[d].at \in {"vip", "pick", "lookup", "mac", "addr"} =>
        \A q \in counted' : q.cpu = d => q.n < arrived'
  <2>1. prog'[c].at = "out" /\ \A d \in CPU \ {c} : prog'[d] = prog[d]
    BY <1>1, <1>2 DEF Program
  <2>2. QED
    BY <1>1, <1>3, <2>1 DEF CountInv
<1>7. counters_map' \in [CPU -> [Index -> Nat]]
  BY <1>1, <1>2 DEF CountInv
<1>8. ASSUME NEW d \in CPU, NEW m \in Index PROVE counters_map'[d][m] = Cardinality(On(counted', d, m))
  <2>1. CASE d = c /\ m = k
    <3>1. On(counted', c, k) = On(counted, c, k) \cup {p} /\ p \notin On(counted, c, k)
      BY <1>1, <1>3, <1>4, Zenon DEF On
    <3>2. IsFiniteSet(On(counted, c, k))
      BY FS_Subset DEF CountInv, On
    <3>3. Cardinality(On(counted', c, k)) = Cardinality(On(counted, c, k)) + 1
      BY <3>1, <3>2, FS_AddElement, Zenon
    <3>4. counters_map'[c][k] = counters_map[c][k] + 1
      BY <1>1, <1>2 DEF CountInv
    <3>5. QED
      BY <1>2, <2>1, <3>3, <3>4, Zenon DEF CountInv
  <2>2. CASE ~(d = c /\ m = k)
    <3>1. On(counted', d, m) = On(counted, d, m)
      BY <1>1, <1>3, <2>2 DEF On
    <3>2. counters_map'[d][m] = counters_map[d][m]
      BY <1>1, <1>2, <2>2, Zenon DEF CountInv
    <3>3. QED
      BY <3>1, <3>2, Zenon DEF CountInv
  <2>3. QED
    BY <2>1, <2>2, Zenon
<1>9. QED
  BY <1>5, <1>6, <1>7, <1>8, Zenon DEF CountInv, On

LEMMA NextCountInv == StatsInv /\ CountInv /\ [StatsNext]_statsVars => CountInv'
<1> SUFFICES ASSUME StatsInv, CountInv, [StatsNext]_statsVars PROVE CountInv'
  BY Zenon
<1>0. prog \in [CPU -> Program] /\ arrived \in Nat /\ Idle.at = "idle"
  BY Zenon DEF StatsInv, Idle
<1>1. CASE UNCHANGED <<counted, arrived, prog, counters_map>>
  BY <1>1, Zenon DEF CountInv, On
<1>2. ASSUME NEW c \in CPU, Arrive(c) PROVE CountInv'
  <2>1. /\ UNCHANGED <<counted, counters_map>> /\ arrived' = arrived + 1
    BY <1>2, Zenon DEF Arrive, Ingress
  <2>2. \A p \in counted : p.n <= arrived' /\ p.n < arrived'
    BY <1>0, <2>1 DEF CountInv
  <2>3. QED
    BY <2>1, <2>2, Zenon DEF CountInv, On
<1>3. ASSUME NEW c \in CPU, RunIngress(c), prog[c].at # "addr" PROVE CountInv'
  <2>1. /\ UNCHANGED <<counted, counters_map, arrived>>
        /\ prog[c].at \in {"vip", "pick", "lookup", "mac"}
        /\ \A d \in CPU \ {c} : prog'[d] = prog[d]
    BY <1>0, <1>3, Zenon DEF RunIngress, IngressStep, MatchVip, Pick, Lookup, RewriteMac, RewriteDaddr
  <2>2. \A p \in counted : p.cpu = c => p.n < arrived
    BY <2>1 DEF CountInv
  <2>3. QED
    BY <1>0, <2>1, <2>2, Zenon DEF CountInv, On
<1>4. ASSUME NEW c \in CPU, Leave(c) PROVE CountInv'
  <2>1. UNCHANGED <<counted, counters_map, arrived>> /\ prog' = [prog EXCEPT ![c] = Idle]
    BY <1>4, Zenon DEF Leave
  <2>2. \A d \in CPU : prog'[d] = prog[d] \/ prog'[d] = Idle
    BY <1>0, <2>1, Zenon
  <2>3. QED
    BY <1>0, <2>1, <2>2 DEF CountInv, On
<1>5. UNCHANGED <<counted, arrived, prog, counters_map>> \/ \E c \in CPU : Arrive(c) \/ RunIngress(c) \/ Leave(c)
  BY Zenon DEF StatsNext, statsVars, xdpVars, StartSync, RunSync, Render, PrintRow, ReadStats
<1>6. QED
  BY <1>1, <1>2, <1>3, <1>4, <1>5, CountOne

-----------------------------------------------------------------------------
(* Requests are only ever added to counted. *)
LEMMA CountedGrows == [StatsNext]_statsVars => counted \subseteq counted'
  BY DEF StatsNext, statsVars, StartSync, RunSync, Arrive, RunIngress, Leave, Render, PrintRow, ReadStats

(* Adding a CPU's counter adds that CPU's requests, none of them twice. *)
LEMMA ReadOne ==
  ASSUME StatsInv, CountInv, RowInv, NEW c \in CPU, ReadStats(c)
  PROVE  RowInv'
<1> SUFFICES ASSUME rows # <<>> PROVE RowInv'
  BY Zenon DEF ReadStats, RowInv
<1>1. /\ c \in unread /\ unread' = unread \ {c} /\ UNCHANGED <<rows, row, before, counted>>
      /\ pkts' = pkts + counters_map[c][row]
  BY Zenon DEF ReadStats
<1>2. PICK seen \in SUBSET OfSlot(counted, row) :
        /\ pkts = Cardinality(seen)
        /\ \A p \in seen : p.cpu \notin unread
        /\ \A p \in OfSlot(before, row) : p.cpu \notin unread => p \in seen
  BY Zenon DEF RowInv
<1> DEFINE more == On(counted, c, row)
<1>3. IsFiniteSet(seen) /\ IsFiniteSet(more)
  BY FS_Subset, Zenon DEF CountInv, OfSlot, On
<1>4. seen \cap more = {}
  BY <1>1, <1>2 DEF On
<1>5. Cardinality(seen \cup more) = Cardinality(seen) + Cardinality(more)
  <2>1. /\ Cardinality(seen \cup more) = Cardinality(seen) + Cardinality(more) - Cardinality(seen \cap more)
    BY <1>3, FS_Union, Zenon
  <2>2. Cardinality(seen \cap more) = 0 /\ Cardinality(seen) \in Nat /\ Cardinality(more) \in Nat
    BY <1>3, <1>4, FS_EmptySet, FS_CardinalityType, Zenon
  <2>3. QED
    BY <2>1, <2>2
<1>6. pkts' = Cardinality(seen \cup more)
  BY <1>1, <1>2, <1>5, Zenon DEF CountInv, StatsInv
<1>7. seen \cup more \in SUBSET OfSlot(counted, row)
  BY <1>2, Zenon DEF On, OfSlot
<1>8. \A p \in seen \cup more : p.cpu \notin unread'
  BY <1>1, <1>2, Zenon DEF On
<1>9. before \subseteq counted /\ \A p \in OfSlot(before, row) : p.cpu \notin unread' => p \in seen \cup more
  BY <1>1, <1>2 DEF RowInv, On, OfSlot
<1>10. QED
  BY <1>1, <1>6, <1>7, <1>8, <1>9 DEF RowInv, OfSlot

LEMMA NextRowInv == StatsInv /\ CountInv /\ RowInv /\ [StatsNext]_statsVars => RowInv'
<1> SUFFICES ASSUME StatsInv, CountInv, RowInv, [StatsNext]_statsVars PROVE RowInv'
  BY Zenon
<1>1. CASE UNCHANGED renderVars
  <2>1. counted \subseteq counted'
    BY CountedGrows, Zenon
  <2>2. OfSlot(counted, row) \subseteq OfSlot(counted', row)
    BY <2>1, Zenon DEF OfSlot
  <2>3. QED
    BY <1>1, <2>1, <2>2, Zenon DEF RowInv, renderVars, OfSlot
<1>2. CASE Render \/ PrintRow
  <2> SUFFICES ASSUME rows' # <<>> PROVE RowInv'
    BY Zenon DEF RowInv
  <2>1. pkts' = 0 /\ unread' = CPU /\ before' = counted /\ counted' = counted
    BY <1>2, NewRow DEF Render, PrintRow
  <2>2. Cardinality({}) = 0
    BY FS_EmptySet, Zenon
  <2>3. \A p \in OfSlot(counted, row') : p.cpu \in CPU
    BY DEF OfSlot, CountInv
  <2>4. /\ {} \in SUBSET OfSlot(counted, row') /\ pkts' = Cardinality({})
        /\ \A p \in {} : p.cpu \notin unread'
        /\ \A p \in OfSlot(before', row') : p.cpu \notin unread' => p \in {}
    BY <2>1, <2>2, <2>3, ZenonT(30)
  <2>5. QED
    BY <2>1, <2>4, Zenon DEF RowInv, OfSlot
<1>3. UNCHANGED renderVars \/ Render \/ PrintRow \/ \E c \in CPU : ReadStats(c)
  BY DEF StatsNext, statsVars, StartSync, RunSync, Arrive, RunIngress, Leave
<1>4. QED
  BY <1>1, <1>2, <1>3, ReadOne, Zenon

LEMMA StatsInitInv == StatsInit => StatsInv /\ CountInv /\ RowInv /\ SteadyInv
<1> SUFFICES ASSUME StatsInit PROVE StatsInv /\ CountInv /\ RowInv /\ SteadyInv
  BY Zenon
<1>1. Idle \in Program /\ Idle.at = "idle" /\ \A c \in CPU : prog[c] = Idle
  BY MapAssumption DEF StatsInit, XdpInit, Idle, NoFrame, Program, Frame, Ats, Random
<1>2. StatsInv
  BY <1>1, InitIInv, Zenon DEF StatsInit, XdpInit, StatsInv
<1>3. CountInv
  <2>1. IsFiniteSet({}) /\ Cardinality({}) = 0
    BY FS_EmptySet, Zenon
  <2>2. counted = {} /\ \A c \in CPU, k \in Index : On(counted, c, k) = {}
    BY Zenon DEF StatsInit, On
  <2>3. QED
    BY <1>1, <2>1, <2>2, Zenon DEF StatsInit, XdpInit, CountInv
<1>4. RowInv
  BY Zenon DEF StatsInit, RowInv
<1>5. SteadyInv
  <2>1. rows = <<>> /\ Served = <<>> /\ counted = {} /\ PoolGrown
    BY DEF StatsInit, Init, Served, PoolGrown, Index
  <2>2. QED
    BY <1>1, <2>1 DEF SteadyInv, SteadySlots, ServedPast, Grows
<1>6. QED
  BY <1>2, <1>3, <1>4, <1>5, Zenon

LEMMA StatsInvariance == StatsSpec => [](StatsInv /\ CountInv /\ RowInv)
  BY StatsInitInv, NextStatsInv, NextCountInv, NextRowInv, PTL DEF StatsSpec

(* When every CPU has been read, seen holds all that the slot had before. *)
LEMMA ReadyWithinSlot == CountInv /\ RowInv => RowWithinSlot
<1> SUFFICES ASSUME CountInv, RowInv, RowReady
             PROVE  /\ Cardinality(OfSlot(before, row)) <= pkts
                    /\ pkts <= Cardinality(OfSlot(counted, row))
  BY Zenon DEF RowWithinSlot
<1>1. PICK seen \in SUBSET OfSlot(counted, row) : pkts = Cardinality(seen) /\ OfSlot(before, row) \subseteq seen
  BY Zenon DEF RowInv, RowReady
<1>2. IsFiniteSet(OfSlot(counted, row))
  BY FS_Subset, Zenon DEF CountInv, OfSlot
<1>3. IsFiniteSet(seen) /\ Cardinality(seen) <= Cardinality(OfSlot(counted, row))
  BY <1>1, <1>2, FS_Subset
<1>4. Cardinality(OfSlot(before, row)) <= Cardinality(seen)
  BY <1>1, <1>3, FS_Subset, Zenon
<1>5. QED
  BY <1>1, <1>3, <1>4, Zenon

(* A row of render lies between the requests that were sent from its slot  *)
(* when ReadStats(i) began and those sent when it is printed: reading the  *)
(* CPUs one after the other, without a lock, while they count, loses none  *)
(* and counts none twice, for any number of CPUs and any Syncs meanwhile.  *)
THEOREM RowsConsistent == StatsSpec => []RowWithinSlot
  BY StatsInvariance, ReadyWithinSlot, PTL

(* As long as Syncs only append backends, whether or not they fail, the    *)
(* row render prints for a backend lies between the requests sent to that  *)
(* backend's address when ReadStats(i) began and those sent by now, though *)
(* render holds a list that Sync may have extended since.                  *)
THEOREM RowsExact == StatsSpec => []StableRowsExact
<1>1. StatsInv /\ CountInv /\ RowInv /\ SteadyInv => StableRowsExact
  <2> SUFFICES ASSUME StatsInv, CountInv, RowInv, SteadyInv, RowReady, ~churned PROVE RowWithinBackend
    BY Zenon DEF StableRowsExact
  <2>1. /\ OfAddr(before, At(rows, row).IP) = OfSlot(before, row)
        /\ OfAddr(counted, At(rows, row).IP) = OfSlot(counted, row)
    BY SlotIsBackend, Zenon DEF SteadyInv, RowReady, RowInv
  <2>2. RowWithinSlot
    BY ReadyWithinSlot
  <2>3. QED
    BY <2>1, <2>2, Zenon DEF RowWithinSlot, RowWithinBackend
<1>2. QED
  BY StatsInvariance, StatsInitInv, NextSteadySlots, <1>1, PTL DEF StatsSpec
=============================================================================
