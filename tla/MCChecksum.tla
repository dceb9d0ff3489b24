---- MODULE MCChecksum ----
(* Instances of Checksum for TLC: word sums at and around every carry. *)
EXTENDS Checksum

MCOthers == {1, 17664, 65534, 65535, 65536, 131070, 131072, 262143, 327674, 327675}
MCAddresses == {0, 1, 32768, 65534, 65535, 65536, 98303, 131069, 131070}
====
