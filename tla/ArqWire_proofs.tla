--------------------------- MODULE ArqWire_proofs ---------------------------
(***************************************************************************)
(* What the chunk numbers of ACKs and NACKs can tell apart, for every      *)
(* modulus.                                                                *)
(***************************************************************************)
EXTENDS ArqWire, Integers, TLAPS

LEMMA Division ==
  ASSUME NEW a \in Nat, NEW m \in Nat \ {0}
  PROVE  /\ a = (m * (a \div m)) + (a % m)
         /\ a \div m \in Int
         /\ a % m \in 0..(m - 1)
OBVIOUS

LEMMA NoMultipleIsOne ==
  ASSUME NEW k \in Int, NEW m \in Nat, m > 1
  PROVE  m * k # 1
<1>1. CASE k <= 0
  BY <1>1
<1>2. CASE k >= 1
  <2>1. m * k >= m
    BY <1>2
  <2> QED
    BY <2>1
<1> QED
  BY <1>1, <1>2

(* Every chunk id has a wire number, and it fits the frame (ackWireSeq). *)
THEOREM WireNumberFits ==
  ASSUME NEW c \in Nat \ {0}
  PROVE  AckWireSeq(c) \in WireSeqs
BY WireAssumption DEF AckWireSeq, WireSeqs

(* In a message of at most ACK_SEQ_MODULUS chunks, as every message to a   *)
(* level-1 peer is, no two chunks share a wire number.                     *)
THEOREM NumbersDistinctInMessage ==
  ASSUME NEW c \in 1..ACK_SEQ_MODULUS, NEW d \in 1..ACK_SEQ_MODULUS, c # d
  PROVE  AckWireSeq(c) # AckWireSeq(d)
<1>1. (c - 1) % ACK_SEQ_MODULUS = c - 1 /\ (d - 1) % ACK_SEQ_MODULUS = d - 1
  BY WireAssumption
<1> QED
  BY <1>1, WireAssumption DEF AckWireSeq

(* Neighbours never do, however long the message: a NACK for the chunk     *)
(* after the outstanding one (onNackReceived's implicit ACK) cannot be     *)
(* mistaken for a NACK of the outstanding one.                             *)
THEOREM NeighboursDiffer ==
  ASSUME NEW c \in Nat \ {0}, ACK_SEQ_MODULUS > 1
  PROVE  AckWireSeq(c) # AckWireSeq(c + 1)
<1> DEFINE m == ACK_SEQ_MODULUS
           q == (c - 1) \div m
           r == c \div m
<1> SUFFICES ASSUME AckWireSeq(c) = AckWireSeq(c + 1) PROVE FALSE
  OBVIOUS
<1>1. m \in Nat \ {0} /\ m > 1 /\ c - 1 \in Nat /\ c \in Nat
  BY WireAssumption
<1>2. (c - 1) % m = c % m
  <2>1. (c + 1) - 1 = c
    OBVIOUS
  <2>2. (c - 1) % m \in Int /\ c % m \in Int
    BY <1>1
  <2> QED
    BY <1>1, <2>1, <2>2 DEF AckWireSeq
<1>3. /\ c - 1 = (m * q) + ((c - 1) % m)
      /\ c = (m * r) + (c % m)
      /\ q \in Int /\ r \in Int
      /\ c % m \in Int
  BY <1>1, Division
<1> HIDE DEF m, q, r
<1>4. (m * r) - (m * q) = 1
  <2>1. m * r \in Int /\ m * q \in Int
    BY <1>1, <1>3
  <2> QED
    BY <1>1, <1>2, <1>3, <2>1
<1>5. m * (r - q) = 1 /\ r - q \in Int
  BY <1>1, <1>3, <1>4
<1> QED
  BY <1>1, <1>5, NoMultipleIsOne

=============================================================================
