---- MODULE MCPollLoop ----
(* Instances of PollLoop for TLC. *)
EXTENDS PollLoop, MCBackends
====
