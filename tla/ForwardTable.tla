---------------------------- MODULE ForwardTable ----------------------------
(***************************************************************************)
(* What Pool.Sync promises to the forward path, without its loops, its     *)
(* maps or its veths: a table of backends that an update replaces.         *)
(*                                                                         *)
(* table holds the entries a client's packet can be sent to: as many as    *)
(* config_map counts.  An update may blank a field of an entry or set it   *)
(* to its new value, one at a time, until a single step puts the whole new *)
(* list in place.  An update can give up before that step and never after. *)
(***************************************************************************)
EXTENDS Naturals, Sequences

CONSTANTS
  Capacity,   \* the longest list a table holds
  Lists,
  Zero

VARIABLES
  table,      \* index -> [ipv4, mac], for the indices in use
  target,     \* the list being installed; empty when there is none
  mode        \* ok, failed: the last update's end; busy, published: an update runs

tableVars == <<table, target, mode>>

Entry(list, k) == [ipv4 |-> list[k + 1].IP, mac |-> list[k + 1].MAC]

Entries(list) == [k \in 0 .. Len(list) - 1 |-> Entry(list, k)]

(* What an update may put into entry k before it publishes. *)
Blank == [ipv4 |-> Zero, mac |-> Zero]
MayHold(k) == IF k < Len(target) THEN {Blank, Entry(target, k)} ELSE {Blank}

Init ==
  /\ table = Entries(<<>>)
  /\ target = <<>>
  /\ mode = "ok"

Start(list) ==
  /\ mode \in {"ok", "failed"}
  /\ target' = list
  /\ mode' = "busy"
  /\ UNCHANGED table

Disturb(k) ==
  /\ mode = "busy"
  /\ \E e \in MayHold(k) :
       \/ table' = [table EXCEPT ![k].ipv4 = e.ipv4]
       \/ table' = [table EXCEPT ![k].mac = e.mac]
  /\ UNCHANGED <<target, mode>>

Publish ==
  /\ mode = "busy"
  /\ Len(target) <= Capacity
  /\ table' = Entries(target)
  /\ mode' = "published"
  /\ UNCHANGED target

Finish ==
  /\ mode = "published"
  /\ mode' = "ok"
  /\ target' = <<>>
  /\ UNCHANGED table

GiveUp ==
  /\ mode = "busy"
  /\ mode' = "failed"
  /\ target' = <<>>
  /\ UNCHANGED table

Next ==
  \/ \E list \in Lists : Start(list)
  \/ \E k \in DOMAIN table : Disturb(k)
  \/ Publish \/ Finish \/ GiveUp

Spec == Init /\ [][Next]_tableVars
=============================================================================
