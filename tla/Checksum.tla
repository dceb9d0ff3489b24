------------------------------ MODULE Checksum ------------------------------
(***************************************************************************)
(* update_ip_csum of kernelspace/xdp_lb.c: the IPv4 header checksum of a   *)
(* frame whose destination xdp_lb_ingress and whose source xdp_veth_snat   *)
(* rewrites.                                                               *)
(*                                                                         *)
(* A checksum sees only the sum of the header's 16-bit words, so a field   *)
(* of the model holds the sum of its words: saddr and daddr have two each, *)
(* other stands for the five words (version to protocol) that no program   *)
(* writes, options for what follows the 20 fixed bytes when ihl > 5.       *)
(***************************************************************************)
EXTENDS Integers

CONSTANTS
  Others,       \* sums of the five words no program writes
  Addresses,    \* sums of the two words of an address
  OptionSums    \* sums of the option words; 0 for a header without options

WordMax == 65535
Base == WordMax + 1

(* The first word holds the version, so Others does not contain 0. *)
ASSUME ChecksumAssumption ==
  /\ Others \subseteq 1 .. 5 * WordMax
  /\ Addresses \subseteq 0 .. 2 * WordMax
  /\ OptionSums \subseteq Nat

VARIABLE hdr

iphdr ==
  [other : Others, saddr : Addresses, daddr : Addresses, options : OptionSums, check : 0 .. WordMax]

(* The receiver adds all words of the header, the checksum included, in    *)
(* one's complement arithmetic (addition modulo 65535, with end-around     *)
(* carry) and accepts when the result is 0xffff, the negative zero.        *)
Verifies(h) ==
  LET total == h.other + h.saddr + h.daddr + h.options + h.check
  IN total > 0 /\ total % WordMax = 0

(* The checksum a sender's stack computes for words that sum to s. *)
SenderCheck(s) == (WordMax - (s % WordMax)) % WordMax

(* Variant of Fold for the sensitivity runs: a single fold. *)
FoldOnce(csum) == (csum \div Base) + (csum % Base)

(* The two folds.  The second adds a carry without masking it off: the     *)
(* cast to 16 bits does that.                                              *)
Fold(csum) ==
  LET once == (csum \div Base) + (csum % Base)
  IN once + (once \div Base)

(* (__u16)(~csum) *)
Complement16(csum) == WordMax - (csum % Base)

(* Ten words, with check zeroed: at most 655350, so the u32 never wraps. *)
update_ip_csum(h) ==
  [h EXCEPT !.check = Complement16(Fold(h.other + h.saddr + h.daddr))]

(* A frame whose sender computed its checksum. *)
Init ==
  \E o \in Others, s, d \in Addresses, p \in OptionSums :
    hdr = [other |-> o, saddr |-> s, daddr |-> d, options |-> p,
           check |-> SenderCheck(o + s + d + p)]

Dnat(a) == hdr' = update_ip_csum([hdr EXCEPT !.daddr = a])

Snat(a) == hdr' = update_ip_csum([hdr EXCEPT !.saddr = a])

Next == \E a \in Addresses : Dnat(a) \/ Snat(a)

Spec == Init /\ [][Next]_hdr

-----------------------------------------------------------------------------
(* However often the programs rewrite its addresses, the header of a frame *)
(* without options carries the checksum its receiver expects: two folds    *)
(* take up every carry of ten words, and the result is never 0xffff, the   *)
(* other representation of zero that no sender produces.                   *)
ChecksumVerifies == hdr.options = 0 => Verifies(hdr) /\ hdr.check # WordMax

(* "The IPv4 checksum is fully recomputed (RFC 1071) after each rewrite":  *)
(* every header a program lets through with a new address verifies.        *)
FullyRecomputed == Verifies(hdr)
=============================================================================
