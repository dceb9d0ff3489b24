----------------------------- MODULE MCBackends -----------------------------
(***************************************************************************)
(* The backends of TLC's instances.  Backends a, b and c differ in         *)
(* everything; r is a's replacement: a new container (new MAC and veth)    *)
(* that Docker gave a's address; s is a restarted with its address and     *)
(* MAC, which gives it a new veth only.                                    *)
(***************************************************************************)
EXTENDS Naturals, Sequences

CONSTANTS a1, a2, a3, m1, m2, m3, m4, v1, v2, v3, v4

MCAddr == {a1, a2, a3}
MCMac == {m1, m2, m3, m4}
MCVeth == {v1, v2, v3, v4}

ba == [IP |-> a1, MAC |-> m1, VethName |-> v1]
bb == [IP |-> a2, MAC |-> m2, VethName |-> v2]
bc == [IP |-> a3, MAC |-> m3, VethName |-> v3]
br == [IP |-> a1, MAC |-> m4, VethName |-> v4]
bs == [IP |-> a1, MAC |-> m1, VethName |-> v4]

(* Every list over S of at most n backends without a repeated address. *)
ListsOver(S, n) ==
  UNION {{l \in [1 .. k -> S] : \A x, y \in 1 .. k : x # y => l[x].IP # l[y].IP}
         : k \in 0 .. n}

ListsABC == ListsOver({ba, bb, bc}, 3)
ListsABCR == ListsOver({ba, bb, bc, br}, 3)

(* Every list over a, b and c, and a's replacement in its place or moved. *)
ListsReplaced == ListsABC \cup {<<br>>, <<bb, br>>}

(* Two addresses for three containers: r replaces a under a's address. *)
ListsABR == ListsOver({ba, bb, br}, 2)

(* Growth, exchange, removal of all, a's replacement and a's restart. *)
ListsTraffic == {<<>>, <<ba>>, <<ba, bb>>, <<bb, ba>>, <<br>>, <<bs>>}

(* Every list over two backends, and one that two slots cannot hold. *)
ListsOverflow == ListsOver({ba, bb}, 2) \cup {<<ba, bb, bc>>}

(* Growth, removal and replacement within two slots. *)
ListsGrowDrop == {<<ba>>, <<ba, bb>>, <<bb>>}

(* Growth by a second backend, and its removal. *)
ListsGrowShrink == {<<ba>>, <<ba, bb>>}

(* Three addresses, at most two backends at a time. *)
ListsTwoOfThree == ListsOver({ba, bb, bc}, 2)
=============================================================================
