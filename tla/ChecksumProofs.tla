--------------------------- MODULE ChecksumProofs ---------------------------
(***************************************************************************)
(* The checksum update_ip_csum writes verifies, for every header without   *)
(* options.                                                                *)
(***************************************************************************)
EXTENDS Checksum, TLAPS

(* All the proofs need to know of the word size; the range of a word is    *)
(* left symbolic.                                                          *)
LEMMA WordFacts == WordMax \in Nat /\ WordMax > 20 /\ Base = WordMax + 1
  BY Z3 DEF WordMax, Base

(* A sum of words less than two bases: its carry and its low word. *)
LEMMA OneCarry ==
  ASSUME NEW x \in Nat, x < 2 * Base
  PROVE  /\ x < Base => x \div Base = 0 /\ x % Base = x
         /\ x >= Base => x \div Base = 1 /\ x % Base = x - Base
<1>1. Base \in Nat /\ Base > 1
  BY WordFacts, Z3
<1>2. ASSUME NEW q \in Nat, NEW r \in 0 .. Base - 1, x = (q * Base) + r
      PROVE  x \div Base = q /\ x % Base = r
  BY <1>1, <1>2, Z3
<1>3. CASE x < Base
  BY <1>1, <1>2, <1>3, Z3
<1>4. CASE x >= Base
  BY <1>1, <1>2, <1>4, Z3
<1>5. QED
  BY <1>1, <1>3, <1>4, Z3

(* The two folds of a sum of up to nine words: the low word is not zero    *)
(* and differs from the sum by a multiple of WordMax.                      *)
LEMMA FoldFacts ==
  ASSUME NEW s \in 1 .. 9 * WordMax
  PROVE  /\ Fold(s) % Base \in 1 .. WordMax
         /\ \E m \in Nat : s = (Fold(s) % Base) + (m * WordMax)
<1> DEFINE q == s \div Base
           r == s % Base
<1> USE WordFacts
<1>1. q \in Nat /\ r \in 0 .. WordMax /\ s = (q * Base) + r
  BY Z3
<1>2. q <= 8
  BY <1>1, Z3
<1>3. Fold(s) = (q + r) + ((q + r) \div Base)
  BY DEF Fold
<1> HIDE DEF q, r
<1>4. s = (q * WordMax) + (q + r)
  BY <1>1, Z3
<1>5. CASE q + r < Base
  <2>1. Fold(s) % Base = q + r
    BY <1>1, <1>2, <1>3, <1>5, OneCarry, Z3
  <2>2. q + r > 0
    BY <1>1, Z3
  <2>3. QED
    BY <1>1, <1>4, <1>5, <2>1, <2>2, Z3
<1>6. CASE q + r >= Base
  <2>1. Fold(s) = q + r + 1
    BY <1>1, <1>2, <1>3, <1>6, OneCarry, Z3
  <2>2. Fold(s) % Base = (q + r) - WordMax
    BY <1>1, <1>2, <1>6, <2>1, OneCarry, Z3
  <2>3. s = (Fold(s) % Base) + ((q + 1) * WordMax)
    BY <1>1, <1>4, <2>2, Z3
  <2>4. Fold(s) % Base \in 1 .. WordMax
    BY <1>1, <1>2, <1>6, <2>2, Z3
  <2>5. q + 1 \in Nat
    BY <1>1, Z3
  <2>6. QED
    BY <2>3, <2>4, <2>5, Zenon
<1>7. QED
  BY <1>1, <1>5, <1>6, Z3

(* The complement of the folded sum completes the sum to a multiple of     *)
(* 65535, and is never 0xffff.                                             *)
LEMMA CsumFacts ==
  ASSUME NEW s \in 1 .. 9 * WordMax
  PROVE  /\ Complement16(Fold(s)) \in 0 .. WordMax - 1
         /\ (s + Complement16(Fold(s))) % WordMax = 0
<1> USE WordFacts
<1>1. Fold(s) % Base \in 1 .. WordMax
  BY FoldFacts, Z3
<1>2. PICK m \in Nat : s = (Fold(s) % Base) + (m * WordMax)
  BY FoldFacts, Zenon
<1>3. s + Complement16(Fold(s)) = ((m + 1) * WordMax) + 0
  BY <1>1, <1>2, Z3 DEF Complement16
<1>4. \A k \in Nat : ((k * WordMax) + 0) % WordMax = 0
  BY Z3
<1>5. QED
  BY <1>1, <1>3, <1>4, Z3 DEF Complement16

(* The types that the arithmetic rests on, and the property. *)
HeaderOK == hdr \in iphdr
Inv == HeaderOK /\ ChecksumVerifies

(* A rewritten header gets a checksum that verifies. *)
LEMMA UpdateVerifies ==
  ASSUME NEW h \in iphdr, hdr' = update_ip_csum(h)
  PROVE  Inv'
<1> DEFINE s == h.other + h.saddr + h.daddr
           c == Complement16(Fold(s))
<1> USE WordFacts
<1>1. s \in 1 .. 9 * WordMax
  <2>1. h.other \in Others /\ h.saddr \in Addresses /\ h.daddr \in Addresses
    BY DEF iphdr
  <2>2. h.other \in 1 .. 5 * WordMax /\ h.saddr \in 0 .. 2 * WordMax /\ h.daddr \in 0 .. 2 * WordMax
    BY <2>1, ChecksumAssumption, Zenon
  <2>3. QED
    BY <2>2, Z3
<1>2. c \in 0 .. WordMax - 1 /\ (s + c) % WordMax = 0
  BY <1>1, CsumFacts, Z3
<1>3. hdr' = [h EXCEPT !.check = c]
  BY Z3 DEF update_ip_csum
<1> HIDE DEF c
<1>4. HeaderOK'
  BY <1>2, <1>3, Z3 DEF HeaderOK, iphdr
<1>5. ChecksumVerifies'
  BY <1>1, <1>2, <1>3, Z3 DEF ChecksumVerifies, Verifies, iphdr
<1>6. QED
  BY <1>4, <1>5, Z3 DEF Inv

(* The sender's checksum verifies. *)
LEMMA SenderVerifies == Init => Inv
<1> SUFFICES ASSUME Init PROVE Inv
  OBVIOUS
<1> USE WordFacts
<1>1. PICK o \in Others, s \in Addresses, d \in Addresses, p \in OptionSums :
        hdr = [other |-> o, saddr |-> s, daddr |-> d, options |-> p,
               check |-> SenderCheck(o + s + d + p)]
  BY Z3 DEF Init
<1>2. o \in 1 .. 5 * WordMax /\ s \in 0 .. 2 * WordMax /\ d \in 0 .. 2 * WordMax /\ p \in Nat
  BY ChecksumAssumption, Zenon
<1>3. ASSUME NEW t \in Nat
      PROVE  SenderCheck(t) \in 0 .. WordMax - 1 /\ (t + SenderCheck(t)) % WordMax = 0
  <2> DEFINE q == t \div WordMax
             r == t % WordMax
  <2>1. q \in Nat /\ r \in 0 .. WordMax - 1 /\ t = (q * WordMax) + r
    BY Z3
  <2>2. SenderCheck(t) = (WordMax - r) % WordMax
    BY DEF SenderCheck
  <2> HIDE DEF q, r
  <2>3. \A k \in Nat : ((k * WordMax) + 0) % WordMax = 0
    BY Z3
  <2>4. CASE r = 0
    <3>1. SenderCheck(t) = 0
      BY <2>2, <2>4, Z3
    <3>2. t + SenderCheck(t) = (q * WordMax) + 0
      BY <2>1, <2>4, <3>1, Z3
    <3>3. QED
      BY <2>1, <2>3, <3>1, <3>2, Z3
  <2>5. CASE r # 0
    <3>1. SenderCheck(t) = WordMax - r
      BY <2>1, <2>2, <2>5, Z3
    <3>2. t + SenderCheck(t) = ((q + 1) * WordMax) + 0
      BY <2>1, <3>1, Z3
    <3>3. QED
      BY <2>1, <2>3, <2>5, <3>1, <3>2, Z3
  <2>6. QED
    BY <2>4, <2>5
<1> DEFINE t == o + s + d + p
           c == SenderCheck(t)
<1>4. t \in Nat /\ t > 0
  BY <1>2, Z3
<1>5. c \in 0 .. WordMax - 1 /\ (t + c) % WordMax = 0
  BY <1>3, <1>4
<1>6. hdr = [other |-> o, saddr |-> s, daddr |-> d, options |-> p, check |-> c]
  BY <1>1
<1> HIDE DEF c
<1>7. HeaderOK
  BY <1>5, <1>6, Z3 DEF HeaderOK, iphdr
<1>8. ChecksumVerifies
  BY <1>2, <1>4, <1>5, <1>6, Z3 DEF ChecksumVerifies, Verifies
<1>9. QED
  BY <1>7, <1>8 DEF Inv

(* A rewrite of either address keeps the words in range and the checksum   *)
(* verifying.                                                              *)
LEMMA NextInv == Inv /\ [Next]_hdr => Inv'
<1> SUFFICES ASSUME Inv, [Next]_hdr PROVE Inv'
  OBVIOUS
<1>1. ASSUME NEW a \in Addresses, Dnat(a) PROVE Inv'
  <2>1. [hdr EXCEPT !.daddr = a] \in iphdr
    BY Z3 DEF Inv, HeaderOK, iphdr
  <2>2. QED
    BY <1>1, <2>1, UpdateVerifies, Z3 DEF Dnat
<1>2. ASSUME NEW a \in Addresses, Snat(a) PROVE Inv'
  <2>1. [hdr EXCEPT !.saddr = a] \in iphdr
    BY Z3 DEF Inv, HeaderOK, iphdr
  <2>2. QED
    BY <1>2, <2>1, UpdateVerifies, Z3 DEF Snat
<1>3. CASE UNCHANGED hdr
  BY <1>3, Z3 DEF Inv, HeaderOK, ChecksumVerifies, Verifies
<1>4. QED
  BY <1>1, <1>2, <1>3, Z3 DEF Next

(* update_ip_csum leaves every header without options with the checksum    *)
(* its receiver expects, for every value of its ten words and after any    *)
(* number of rewrites.                                                     *)
THEOREM ChecksumCorrect == Spec => []ChecksumVerifies
<1>1. Inv => ChecksumVerifies
  BY Z3 DEF Inv
<1>2. QED
  BY SenderVerifies, NextInv, <1>1, PTL DEF Spec
=============================================================================
