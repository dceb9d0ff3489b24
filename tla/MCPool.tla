---- MODULE MCPool ----
(* Instances of Pool for TLC. *)
EXTENDS PoolForward, MCBackends
====
