------------------------------- MODULE Stats -------------------------------
(***************************************************************************)
(* The statistics collector: render prints, for each backend of the pool,  *)
(* the packets counters_map has for its index, while xdp_lb_ingress counts *)
(* and Sync moves backends between slots.                                  *)
(*                                                                         *)
(* GetBackends takes p.mu, which Sync holds throughout, so it sees the     *)
(* list of a finished Sync; the rows are then read without any lock.       *)
(* counters_map is per CPU: ReadStats sums what the kernel copies for it   *)
(* from one CPU after the other.  Nothing ever resets counters_map.        *)
(***************************************************************************)
EXTENDS Pool, XdpLb, FiniteSets

CONSTANT MaxFrames   \* bound: requests that arrive

ASSUME StatsAssumption == MaxFrames \in Nat

VARIABLES
  arrived,    \* requests that have arrived
  rows,       \* render's backends; empty when it is not running
  row,        \* render's index i
  unread,     \* CPUs whose counter ReadStats(i) has yet to add
  pkts,       \* the sum so far
  counted,    \* history: the requests sent to backends, each with the number n
              \* that had arrived by then, its CPU, its slot and its new address
  before,     \* history: what counted was at the start of ReadStats(i)
  churned     \* history: some Sync dropped, replaced or moved a backend

renderVars == <<rows, row, unread, pkts, before>>
statsVars == <<vars, xdpVars, arrived, renderVars, counted, churned>>

OfSlot(S, k) == {p \in S : p.slot = k}
OfAddr(S, a) == {p \in S : p.to = a}

StatsInit ==
  /\ Init
  /\ XdpInit
  /\ arrived = 0
  /\ rows = <<>>
  /\ row = 0
  /\ unread = {}
  /\ pkts = 0
  /\ counted = {}
  /\ before = {}
  /\ churned = FALSE

-----------------------------------------------------------------------------
(* Sync and the data plane. *)
Appends(list) == Len(backends) <= Len(list) /\ SubSeq(list, 1, Len(backends)) = backends

StartSync(list) ==
  /\ SyncBegin(list)
  /\ churned' = (churned \/ ~Appends(list))
  /\ UNCHANGED <<xdpVars, arrived, renderVars, counted>>

RunSync ==
  /\ SyncStep \/ SyncFault
  /\ UNCHANGED <<xdpVars, arrived, renderVars, counted, churned>>

(* A request arrives on an idle CPU, whatever the other CPUs are at. *)
Arrive(c) ==
  /\ arrived < MaxFrames
  /\ Ingress(c, [icmp |-> TRUE, daddr |-> VIP])
  /\ arrived' = arrived + 1
  /\ UNCHANGED <<vars, renderVars, counted, churned>>

RunIngress(c) ==
  /\ IngressStep(c)
  /\ counted' = IF prog[c].at # "addr" THEN counted
                ELSE counted \cup {[n |-> arrived, cpu |-> c, slot |-> prog[c].idx,
                                    to |-> backend_map[prog[c].idx].ipv4]}
  /\ UNCHANGED <<vars, arrived, renderVars, churned>>

Leave(c) ==
  /\ prog[c].at = "out"
  /\ prog' = [prog EXCEPT ![c] = Idle]
  /\ UNCHANGED <<vars, counters_map, arrived, renderVars, counted, churned>>

-----------------------------------------------------------------------------
(* render comes to row k of list, or to its end. *)
NextRow(list, k) ==
  IF k < Len(list)
  THEN /\ rows' = list
       /\ row' = k
       /\ unread' = CPU
       /\ pkts' = 0
       /\ before' = counted
  ELSE /\ rows' = <<>>
       /\ row' = 0
       /\ unread' = {}
       /\ pkts' = 0
       /\ before' = {}

(* The ticker fires and GetBackends copies p.backends under p.mu. *)
Render ==
  /\ rows = <<>>
  /\ pc = "idle"
  /\ NextRow(backends, 0)
  /\ UNCHANGED <<vars, xdpVars, arrived, counted, churned>>

(* Variants of ReadStats for the sensitivity runs: the index is off by     *)
(* one, and the counters of one CPU stand for all.                         *)
ReadStatsNext(c) ==
  /\ c \in unread
  /\ pkts' = pkts + counters_map[c][(row + 1) % MAX_BACKENDS]
  /\ unread' = unread \ {c}
  /\ UNCHANGED <<vars, xdpVars, arrived, rows, row, before, counted, churned>>

ReadStatsOne(c) ==
  /\ c \in unread
  /\ pkts' = counters_map[c][row]
  /\ unread' = {}
  /\ UNCHANGED <<vars, xdpVars, arrived, rows, row, before, counted, churned>>

(* ReadStats(i): one CPU's copy of the counter is added. *)
ReadStats(c) ==
  /\ c \in unread
  /\ pkts' = pkts + counters_map[c][row]
  /\ unread' = unread \ {c}
  /\ UNCHANGED <<vars, xdpVars, arrived, rows, row, before, counted, churned>>

PrintRow ==
  /\ rows # <<>>
  /\ unread = {}
  /\ NextRow(rows, row + 1)
  /\ UNCHANGED <<vars, xdpVars, arrived, counted, churned>>

StatsNext ==
  \/ \E list \in Lists : StartSync(list)
  \/ RunSync
  \/ \E c \in CPU : Arrive(c) \/ RunIngress(c) \/ Leave(c) \/ ReadStats(c)
  \/ Render
  \/ PrintRow

StatsSpec == StatsInit /\ [][StatsNext]_statsVars

-----------------------------------------------------------------------------
RowReady == rows # <<>> /\ unread = {}

(* A row shows the requests that were sent from its slot, as of some       *)
(* moment while the row was read: summing the CPUs one after the other,    *)
(* while they count, neither loses a packet nor counts one twice, whatever *)
(* Sync does to the pool meanwhile.                                        *)
RowWithinSlot ==
  RowReady =>
    /\ Cardinality(OfSlot(before, row)) <= pkts
    /\ pkts <= Cardinality(OfSlot(counted, row))

RowWithinBackend ==
  LET a == At(rows, row).IP IN
  /\ Cardinality(OfAddr(before, a)) <= pkts
  /\ pkts <= Cardinality(OfAddr(counted, a))

(* As long as Syncs only append backends, whether or not they fail, the    *)
(* row of a backend shows the requests sent to that backend's address.     *)
StableRowsExact == RowReady /\ ~churned => RowWithinBackend

(* "counters_map ... per-CPU packets/bytes per backend": the row of a      *)
(* backend shows the requests that were sent to it.  Requests that left    *)
(* with the zero address of a slot being cleared are not held against it.  *)
RowCountsBackend == RowReady /\ OfAddr(counted, Zero) = {} => RowWithinBackend
=============================================================================
