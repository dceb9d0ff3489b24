---- MODULE MCDiscovery ----
(* Instances of Discovery for TLC: x is on two networks, y on one of them, *)
(* z on one without IPv4.                                                  *)
EXTENDS Discovery, TLC

CONSTANTS x, y, z, n1, n2, n3, a1, a2, b1

MCContainer == {x, y, z}
MCNetsOf == (x :> {n1, n2}) @@ (y :> {n1}) @@ (z :> {n3})
MCPool == (n1 :> {a1, a2}) @@ (n2 :> {b1}) @@ (n3 :> {NULL})
AddressSymmetry == Permutations({a1, a2})
====
