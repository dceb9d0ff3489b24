---- MODULE MCLoadBalancer ----
(* Instances of LoadBalancer for TLC. *)
EXTENDS LoadBalancer, MCBackends
====
