---------------------------- MODULE PoolForward -----------------------------
(***************************************************************************)
(* Pool.Sync implements ForwardTable: the entries of backend_map below     *)
(* config_map's count are the table, and the copy of backend_count is the  *)
(* step that replaces it.                                                  *)
(***************************************************************************)
EXTENDS Pool

tableView == [k \in 0 .. config_map.backend_count - 1 |-> backend_map[k]]

modeView ==
  IF pc = "idle" THEN (IF err THEN "failed" ELSE "ok")
  ELSE IF pc = "detach" /\ "backend_count" \notin todo THEN "published"
  ELSE "busy"

Forward == INSTANCE ForwardTable WITH
  Capacity <- MAX_BACKENDS,
  table <- tableView,
  target <- newBackends,
  mode <- modeView

(* Whatever fails and whenever, Sync replaces the table the data plane     *)
(* picks from in one step, the last write it makes for the forward path:   *)
(* before it an entry changes one field at a time, to zero or to its new   *)
(* value, and only before it can Sync return an error.                     *)
ImplementsForwardTable == Forward!Spec
=============================================================================
