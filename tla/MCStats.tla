------------------------------ MODULE MCStats ------------------------------
(* Instances of Stats for TLC. *)
EXTENDS Stats, MCBackends, TLC

CONSTANTS cpu0, cpu1

MCCPU == {cpu0, cpu1}
CpuSymmetry == Permutations(MCCPU)
=============================================================================
