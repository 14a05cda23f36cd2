--------------------------- MODULE TxQueue_proofs ---------------------------
(***************************************************************************)
(* The heap of the transmit queue keeps its messages: an enqueue adds the  *)
(* new one, a dequeue removes the head, and nothing else is dropped,       *)
(* repeated or invented, whatever the comparison says -- which matters, as *)
(* Less is no order.  The heap operations recurse; they are unfolded with  *)
(* LeastNatural, an induction over the smallest counterexample.            *)
(***************************************************************************)
EXTENDS TxQueue, Integers, FiniteSetTheorems, WellFoundedInduction, TLAPS

(* A set of naturals that is not empty has a least element.                *)
LEMMA LeastNatural ==
  ASSUME NEW T, T \subseteq Nat, T # {} PROVE \E m \in T : \A n \in T : m <= n
<1> DEFINE S == {0..n : n \in T}
           R == StrictSubsetOrdering(Nat)
<1>1. \A n \in Nat : IsFiniteSet(0..n)
  BY FS_Interval
<1>2. S \subseteq FiniteSubsetsOf(Nat) /\ S # {}
  <2>1. \A n \in T : 0..n \in FiniteSubsetsOf(Nat)
    <3> SUFFICES ASSUME NEW n \in T PROVE 0..n \in FiniteSubsetsOf(Nat)
      OBVIOUS
    <3>1. n \in Nat /\ 0..n \subseteq Nat
      OBVIOUS
    <3> QED
      BY <1>1, <3>1 DEF FiniteSubsetsOf
  <2> QED
    BY <2>1
<1>3. IsWellFoundedOn(R, FiniteSubsetsOf(Nat))
  BY FS_StrictSubsetOrderingWellFounded
<1>4. \E x \in S : \A y \in S : <<y, x>> \notin R
  <2> HIDE DEF R, S
  <2> QED
    BY <1>2, <1>3, WFMin
<1>5. PICK m \in T : \A n \in T : <<0..n, 0..m>> \notin R
  BY <1>4
<1>6. ASSUME NEW n \in T, n < m PROVE FALSE
  <2>1. m \in Nat /\ n \in Nat
    OBVIOUS
  <2>2. 0..n \subseteq 0..m /\ m \in 0..m /\ m \notin 0..n /\ 0..n \in SUBSET Nat /\ 0..m \in SUBSET Nat
    BY <1>6, <2>1
  <2>3. <<0..n, 0..m>> \in R
    BY <2>2 DEF StrictSubsetOrdering
  <2> QED
    BY <1>5, <2>3
<1> QED
  BY <1>6

(* The parent of a hole is above it.                                        *)
LEMMA Half == \A i \in Nat : i > 1 => i \div 2 \in 1..(i-1)
OBVIOUS

(* An element that rises from the hole k displaces those above it, none is *)
(* lost.                                                                    *)
Displaces(S, h, k, e, f) ==
  /\ f \in [1..Len(h) -> S]
  /\ \A j \in 1..Len(h) : j # k => \E l \in 1..Len(h) : f[l] = h[j]
  /\ \E l \in 1..Len(h) : f[l] = e
  /\ \A l \in 1..Len(h) : f[l] = e \/ \E j \in 1..Len(h) : j # k /\ f[l] = h[j]

LEMMA LiftFacts ==
  ASSUME NEW S, NEW h \in Seq(S), NEW e \in S, NEW k \in 1..Len(h)
  PROVE  Displaces(S, h, k, e, Lift(h, k, e))
<1> DEFINE n == Len(h)
           Up(i) == i > 1 /\ Less(h[i \div 2], e)
           Body(f, i) == IF Up(i) THEN [f[i \div 2] EXCEPT ![i] = h[i \div 2]]
                         ELSE [h EXCEPT ![i] = e]
           F == CHOOSE f : f = [i \in 1..n |-> Body(f, i)]
<1>0. n \in Nat /\ h \in [1..n -> S] /\ k \in 1..n
  OBVIOUS
<1>1. \E f : f = [i \in 1..n |-> Body(f, i)]
  <2> DEFINE Bad == {m \in 0..n : ~ \E f : f = [i \in 1..m |-> Body(f, i)]}
  <2>1. SUFFICES ASSUME Bad # {} PROVE FALSE
    <3>1. n \notin Bad => \E f : f = [i \in 1..n |-> Body(f, i)]
      <4> HIDE DEF Body
      <4> QED
        BY <1>0
    <3> HIDE DEF Bad, Body
    <3> QED
      BY <3>1
  <2>2. PICK m \in Bad : \A q \in Bad : m <= q
    <3> HIDE DEF Body
    <3>1. Bad \subseteq Nat
      BY <1>0
    <3> HIDE DEF Bad
    <3> QED
      BY <3>1, <2>1, LeastNatural
  <2>3. m # 0
    <3> DEFINE f == [i \in 1..0 |-> 0]
    <3>1. f = [i \in 1..0 |-> Body(f, i)]
      OBVIOUS
    <3> QED
      BY <3>1
  <2>4. m - 1 \in 0..n /\ m-1 \notin Bad /\ m \in 1..n
    <3> HIDE DEF Body
    <3> QED
    BY <2>2, <2>3, <1>0
  <2>5. PICK f : f = [i \in 1..(m-1) |-> Body(f, i)]
    <3> HIDE DEF Body
    <3> QED
    BY <2>4
  <2> DEFINE g == [i \in 1..m |-> IF i < m THEN f[i] ELSE Body(f, m)]
  <2>6. \A i \in 1..m : Body(g, i) = Body(f, i)
    <3>1. ASSUME NEW i \in 1..m, i > 1 PROVE i \div 2 \in 1..m /\ i \div 2 < m
      BY <3>1, <2>4, Half
    <3>2. \A i \in 1..m : i > 1 => g[i \div 2] = f[i \div 2]
      BY <3>1
    <3> HIDE DEF g
    <3> QED
      BY <3>2
  <2>7. g = [i \in 1..m |-> Body(g, i)]
    <3> HIDE DEF Body
    <3>1. \A i \in 1..(m-1) : f[i] = Body(f, i)
      BY <2>5
    <3>2. \A i \in 1..m : g[i] = Body(f, i)
      BY <3>1, <2>4
    <3> QED
      BY <3>2, <2>6
  <2> QED
    <3> HIDE DEF Body
    <3>1. m \notin Bad
      <4> HIDE DEF g
      <4> QED BY <2>7
    <3> QED BY <3>1
<1>2. F = [i \in 1..n |-> Body(F, i)]
  <2> HIDE DEF Body
  <2> QED
    BY <1>1
<1>3. Lift(h, k, e) = F[k]
  BY DEF Lift
<1>4. \A i \in 1..n : F[i] = Body(F, i)
  <2> HIDE DEF Body, F
  <2> QED
    BY <1>2
<1> HIDE DEF F
(* The hole at i: whatever was below stays, whatever was above is no lower. *)
<1> DEFINE Risen(f, i) ==
      /\ f \in [1..n -> S]
      /\ \A j \in 1..n : j > i => f[j] = h[j]
      /\ \A j \in 1..n : j < i => \E l \in 1..i : f[l] = h[j]
      /\ \E l \in 1..i : f[l] = e
      /\ \A l \in 1..i : f[l] = e \/ \E j \in 1..(i-1) : f[l] = h[j]
<1>5. \A i \in 1..n : Risen(F[i], i)
  <2> DEFINE Bad == {i \in 1..n : ~Risen(F[i], i)}
  <2> SUFFICES ASSUME Bad # {} PROVE FALSE
    OBVIOUS
  <2>1. PICK i \in Bad : \A q \in Bad : i <= q
    <3>1. Bad \subseteq Nat
      OBVIOUS
    <3> HIDE DEF Bad
    <3> QED
      BY <3>1, LeastNatural
  <2>2. i \in 1..n
    OBVIOUS
  <2>3. CASE Up(i)
    <3> DEFINE p == i \div 2
    <3>1. p \in 1..n /\ p < i
      BY <2>3, <2>2, Half
    <3>2. F[i] = [F[p] EXCEPT ![i] = h[p]]
      BY <1>4, <2>2, <2>3
    <3> HIDE DEF p
    <3>3. Risen(F[p], p)
      <4> HIDE DEF Risen
      <4> QED
        BY <2>1, <3>1
    <3>4. Risen(F[i], i)
      <4> DEFINE f == F[p]
                 g == F[i]
      <4>1. g = [f EXCEPT ![i] = h[p]] /\ f \in [1..n -> S]
        BY <3>2, <3>3
      <4>2. g \in [1..n -> S] /\ g[i] = h[p] /\ \A l \in 1..n : l # i => g[l] = f[l]
        BY <4>1, <3>1, <1>0, <2>2
      <4> HIDE DEF f, g
      <4>3. \A j \in 1..n : j > i => g[j] = h[j]
        BY <4>2, <3>3, <3>1, <2>2 DEF f
      <4>4. ASSUME NEW j \in 1..n, j < i PROVE \E l \in 1..i : g[l] = h[j]
        <5>1. CASE j = p
          BY <5>1, <4>2, <2>2
        <5>2. CASE j < p
          <6>1. PICK l \in 1..p : f[l] = h[j]
            BY <5>2, <3>3 DEF f
          <6> QED
            BY <6>1, <4>2, <3>1, <2>2
        <5>3. CASE j > p
          <6>1. f[j] = h[j]
            BY <5>3, <3>3 DEF f
          <6> QED
            BY <6>1, <4>2, <4>4, <2>2
        <5> QED
          BY <5>1, <5>2, <5>3, <3>1
      <4>5. \E l \in 1..i : g[l] = e
        <5>1. PICK l \in 1..p : f[l] = e
          BY <3>3 DEF f
        <5> QED
          BY <5>1, <4>2, <3>1, <2>2
      <4>6. ASSUME NEW l \in 1..i PROVE g[l] = e \/ \E j \in 1..(i-1) : g[l] = h[j]
        <5>1. CASE l = i
          BY <5>1, <4>2, <3>1
        <5>2. CASE l # i /\ l > p
          <6>1. g[l] = h[l]
            BY <5>2, <4>2, <3>3, <2>2 DEF f
          <6> QED
            BY <6>1, <5>2, <2>2
        <5>3. CASE l # i /\ l <= p
          <6>1. l \in 1..p /\ g[l] = f[l]
            BY <5>3, <4>2, <2>2, <3>1
          <6>2. CASE f[l] = e
            BY <6>1, <6>2
          <6>3. CASE f[l] # e
            <7>1. PICK j \in 1..(p-1) : f[l] = h[j]
              BY <6>1, <6>3, <3>3 DEF f
            <7> QED
              BY <7>1, <6>1, <3>1, <2>2
          <6> QED BY <6>2, <6>3
        <5> QED
          BY <5>1, <5>2, <5>3, <3>1
      <4> QED
        BY <4>2, <4>3, <4>4, <4>5, <4>6 DEF g
    <3> QED
      BY <3>4
  <2>4. CASE ~Up(i)
    <3>1. F[i] = [h EXCEPT ![i] = e]
      BY <1>4, <2>2, <2>4
    <3>2. /\ F[i] \in [1..n -> S] /\ F[i][i] = e
          /\ \A j \in 1..n : j # i => F[i][j] = h[j]
      BY <3>1, <2>2, <1>0
    <3>3. Risen(F[i], i)
      BY <3>2, <2>2, <1>0
    <3> QED
      BY <3>3
  <2> QED
    BY <2>3, <2>4
<1>6. Risen(F[k], k)
  <2> HIDE DEF Risen
  <2> QED
    BY <1>5, <1>0
<1> DEFINE f == F[k]
<1>7. \A j \in 1..n : j # k => \E l \in 1..n : f[l] = h[j]
  <2> SUFFICES ASSUME NEW j \in 1..n, j # k PROVE \E l \in 1..n : f[l] = h[j]
    OBVIOUS
  <2>1. CASE j < k
    <3>1. PICK l \in 1..k : f[l] = h[j]
      BY <1>6, <2>1
    <3> QED
      BY <3>1, <1>0
  <2>2. CASE j > k
    BY <2>2, <1>6
  <2> QED
    BY <2>1, <2>2, <1>0
<1>8. \E l \in 1..n : f[l] = e
  BY <1>6, <1>0
<1>9. ASSUME NEW l \in 1..n PROVE f[l] = e \/ \E j \in 1..n : j # k /\ f[l] = h[j]
  <2>1. CASE l > k
    BY <2>1, <1>6
  <2>2. CASE l <= k
    <3>1. l \in 1..k
      BY <2>2, <1>0
    <3>2. f[l] = e \/ \E j \in 1..(k-1) : f[l] = h[j]
      BY <3>1, <1>6
    <3>3. \A j \in 1..(k-1) : j \in 1..n /\ j # k
      BY <1>0
    <3> QED
      BY <3>2, <3>3
  <2> QED
    BY <2>1, <2>2, <1>0
<1> QED
  BY <1>3, <1>6, <1>7, <1>8, <1>9 DEF Displaces

-----------------------------------------------------------------------------
Elements(h) == {h[i] : i \in DOMAIN h}

(* enqueue: the queue then holds what it held and the new message, once.   *)
THEOREM PushKeeps ==
  ASSUME NEW S, NEW h \in Seq(S), NEW e \in S
  PROVE  /\ Push(h, e) \in Seq(S) /\ Len(Push(h, e)) = Len(h) + 1
         /\ Elements(Push(h, e)) = Elements(h) \cup {e}
<1> DEFINE g == Append(h, e)
           k == Len(h) + 1
           f == Lift(g, k, e)
<1>1. /\ Len(h) \in Nat /\ g \in Seq(S) /\ Len(g) = k /\ k \in 1..Len(g)
      /\ DOMAIN h = 1..Len(h) /\ \A i \in 1..Len(h) : g[i] = h[i]
  OBVIOUS
<1> HIDE DEF g, k
<1>2. /\ f \in [1..k -> S]
      /\ \A j \in 1..k : j # k => \E l \in 1..k : f[l] = g[j]
      /\ \E l \in 1..k : f[l] = e
      /\ \A l \in 1..k : f[l] = e \/ \E j \in 1..k : j # k /\ f[l] = g[j]
  <2>1. Displaces(S, g, k, e, f)
    BY <1>1, LiftFacts
  <2> HIDE DEF f
  <2> QED
    BY <2>1, <1>1 DEF Displaces
<1>3. Push(h, e) = f
  BY DEF Push, g, k
<1> HIDE DEF f
<1>4. f \in Seq(S) /\ Len(f) = k /\ DOMAIN f = 1..k
  BY <1>1, <1>2
<1>5. \A j \in 1..k : j # k <=> j \in 1..Len(h)
  BY <1>1 DEF k
<1>6. Elements(f) \subseteq Elements(h) \cup {e}
  <2>1. ASSUME NEW l \in 1..k PROVE f[l] \in Elements(h) \cup {e}
    <3>1. CASE f[l] = e
      BY <3>1
    <3>2. CASE f[l] # e
      <4>1. PICK j \in 1..k : j # k /\ f[l] = g[j]
        BY <3>2, <1>2
      <4>2. j \in 1..Len(h) /\ f[l] = h[j]
        BY <4>1, <1>5, <1>1
      <4> QED
        BY <4>2, <1>1 DEF Elements
    <3> QED
      BY <3>1, <3>2
  <2>2. Elements(f) = {f[l] : l \in 1..k}
    BY <1>4 DEF Elements
  <2> QED
    BY <2>1, <2>2
<1>7. Elements(h) \cup {e} \subseteq Elements(f)
  <2>1. ASSUME NEW i \in 1..Len(h) PROVE h[i] \in Elements(f)
    <3>1. i \in 1..k /\ i # k
      BY <1>1 DEF k
    <3>2. PICK l \in 1..k : f[l] = g[i]
      BY <3>1, <1>2
    <3> QED
      BY <3>2, <1>1, <1>4 DEF Elements
  <2>2. e \in Elements(f)
    BY <1>2, <1>4 DEF Elements
  <2> QED
    BY <2>1, <2>2, <1>1 DEF Elements
<1> QED
  BY <1>3, <1>4, <1>6, <1>7 DEF k

-----------------------------------------------------------------------------
(* The child of a hole is below it, and the root is nobody's child.        *)
LEMMA LargerBelow ==
  ASSUME NEW h, Len(h) \in Nat, NEW i \in 1..Len(h), 2 * i <= Len(h)
  PROVE  Larger(h, i) \in (i + 1)..Len(h) /\ Larger(h, i) \in 2..Len(h)
BY DEF Larger

(* The hole sinks from i to a leaf, and each hole on the way below i is    *)
(* the larger child of one above it.                                       *)
LEMMA SinkPathFacts ==
  ASSUME NEW h, Len(h) \in Nat, NEW r \in 1..Len(h)
  PROVE  /\ r \in SinkPath(h, r) /\ SinkPath(h, r) \subseteq r..Len(h)
         /\ \E l \in SinkPath(h, r) : 2 * l > Len(h)
         /\ \A j \in SinkPath(h, r) \ {r} :
              \E u \in SinkPath(h, r) : 2 * u <= Len(h) /\ Larger(h, u) = j
<1> DEFINE n == Len(h)
           Body(p, k) == IF 2 * k > n THEN {k} ELSE {k} \cup p[Larger(h, k)]
           P == CHOOSE p : p = [k \in 1..n |-> Body(p, k)]
<1>0. n \in Nat /\ r \in 1..n
  OBVIOUS
<1>1. \E p : p = [k \in 1..n |-> Body(p, k)]
  <2> DEFINE Bad == {m \in 0..n : ~ \E p : p = [k \in (n + 1 - m)..n |-> Body(p, k)]}
  <2>1. SUFFICES ASSUME Bad # {} PROVE FALSE
    <3>1. n \notin Bad => \E p : p = [k \in (n + 1 - n)..n |-> Body(p, k)]
      <4> HIDE DEF Body
      <4> QED
        BY <1>0
    <3>2. n + 1 - n = 1
      BY <1>0
    <3> HIDE DEF Bad, Body
    <3> QED
      BY <3>1, <3>2
  <2>2. PICK m \in Bad : \A q \in Bad : m <= q
    <3> HIDE DEF Body
    <3>1. Bad \subseteq Nat
      BY <1>0
    <3> HIDE DEF Bad
    <3> QED
      BY <3>1, <2>1, LeastNatural
  <2> DEFINE c == n + 1 - m
  <2>3. m # 0
    <3> DEFINE p == [k \in (n + 1)..n |-> 0]
    <3>1. p = [k \in (n + 1 - 0)..n |-> Body(p, k)]
      BY <1>0
    <3> QED
      BY <3>1
  <2>4. /\ m - 1 \in 0..n /\ m - 1 \notin Bad /\ c \in 1..n
        /\ n + 1 - (m - 1) = c + 1
    <3> HIDE DEF Body
    <3>1. m \in Nat /\ m > 0 /\ m <= n
      BY <2>3, <1>0
    <3>2. m - 1 \in 0..n /\ c \in 1..n /\ n + 1 - (m - 1) = c + 1
      BY <3>1, <1>0
    <3>3. m - 1 \notin Bad
      <4> HIDE DEF Bad, c
      <4> QED
        BY <3>1, <3>2, <2>2
    <3> QED
      BY <3>2, <3>3
  <2>5. PICK p : p = [k \in (c + 1)..n |-> Body(p, k)]
    <3> HIDE DEF Body, c
    <3> QED
      BY <2>4
  <2> DEFINE g == [k \in c..n |-> IF k > c THEN p[k] ELSE Body(p, c)]
  <2> HIDE DEF c
  <2>6. \A k \in c..n : Body(g, k) = Body(p, k)
    <3>1. ASSUME NEW k \in c..n, 2 * k <= n PROVE g[Larger(h, k)] = p[Larger(h, k)]
      <4>1. Larger(h, k) \in (k + 1)..n
        BY <3>1, <2>4, LargerBelow
      <4> QED
        BY <4>1, <2>4
    <3> HIDE DEF g
    <3>2. \A k \in c..n : 2 * k > n \/ 2 * k <= n
      BY <2>4, <1>0
    <3> QED
      BY <3>1, <3>2
  <2>7. g = [k \in c..n |-> Body(g, k)]
    <3> HIDE DEF Body
    <3>1. \A k \in (c + 1)..n : p[k] = Body(p, k)
      BY <2>5
    <3>2. \A k \in c..n : g[k] = Body(p, k)
      BY <3>1, <2>4
    <3> QED
      BY <3>2, <2>6
  <2>8. m \notin Bad
    <3> HIDE DEF Body, g
    <3> QED
      BY <2>7 DEF c
  <2> QED
    <3> HIDE DEF Body, Bad
    <3> QED
      BY <2>8
<1>2. \A k \in 1..n : P[k] = Body(P, k)
  <2> HIDE DEF Body
  <2>1. P = [k \in 1..n |-> Body(P, k)]
    BY <1>1
  <2> HIDE DEF P
  <2> QED
    BY <2>1
<1>3. SinkPath(h, r) = P[r]
  BY DEF SinkPath
<1> HIDE DEF P
<1> DEFINE Descends(p, i) ==
      /\ i \in p /\ p \subseteq i..n
      /\ \E l \in p : 2 * l > n
      /\ \A j \in p \ {i} : \E u \in p : 2 * u <= n /\ Larger(h, u) = j
<1>4. \A i \in 1..n : Descends(P[i], i)
  <2> DEFINE Bad == {m \in 0..n : n - m \in 1..n /\ ~Descends(P[n - m], n - m)}
  <2>1. SUFFICES ASSUME Bad # {} PROVE FALSE
    <3> HIDE DEF Descends
    <3>1. \A i \in 1..n : n - i \in 0..n /\ n - (n - i) = i
      BY <1>0
    <3>2. ASSUME NEW i \in 1..n, ~Descends(P[i], i) PROVE n - i \in Bad
      BY <3>1, <3>2
    <3> HIDE DEF Bad
    <3> QED
      BY <3>2
  <2>2. PICK m \in Bad : \A q \in Bad : m <= q
    <3> HIDE DEF Descends
    <3>1. Bad \subseteq Nat
      BY <1>0
    <3> HIDE DEF Bad
    <3> QED
      BY <3>1, <2>1, LeastNatural
  <2> DEFINE i == n - m
  <2>3. i \in 1..n /\ ~Descends(P[i], i)
    OBVIOUS
  <2>4. CASE 2 * i > n
    <3>1. P[i] = {i}
      BY <1>2, <2>3, <2>4
    <3> QED
      BY <3>1, <2>3, <2>4
  <2>5. CASE 2 * i <= n
    <3> DEFINE c == Larger(h, i)
    <3>1. c \in (i + 1)..n
      BY <2>3, <2>5, LargerBelow
    <3>2. P[i] = {i} \cup P[c]
      <4>1. ~(2 * i > n) /\ i \in 1..n
        BY <2>3, <2>5, <1>0
      <4> HIDE DEF i
      <4> QED
        BY <1>2, <4>1
    <3>3. Descends(P[c], c)
      <4>1. n - c \in 0..n /\ n - (n - c) = c /\ c \in 1..n /\ n - c < m
        BY <3>1, <1>0, <2>3
      <4> HIDE DEF Descends, c, i
      <4>2. n - c \notin Bad
        BY <2>2, <4>1
      <4> QED
        BY <4>1, <4>2
    <3> HIDE DEF i
    <3>4. i \in P[i] /\ P[i] \subseteq i..n
      BY <3>1, <3>2, <3>3, <2>3
    <3>5. \E l \in P[i] : 2 * l > n
      BY <3>2, <3>3
    <3>6. ASSUME NEW j \in P[i] \ {i}
          PROVE  \E u \in P[i] : 2 * u <= n /\ Larger(h, u) = j
      <4>1. CASE j = c
        BY <4>1, <3>4, <2>5
      <4>2. CASE j # c
        <5>1. j \in P[c] \ {c}
          BY <4>2, <3>2
        <5> QED
          BY <5>1, <3>2, <3>3
      <4> QED
        BY <4>1, <4>2
    <3> QED
      BY <3>4, <3>5, <3>6, <2>3
  <2> QED
    BY <2>3, <2>4, <2>5, <1>0
<1>5. Descends(P[r], r)
  <2> HIDE DEF Descends
  <2> QED
    BY <1>4, <1>0
<1> QED
  BY <1>3, <1>5

(* After the sinking every element but the root's is at a hole other than  *)
(* the leaf.                                                               *)
Sinks(S, h, k, s) ==
  /\ s \in Seq(S) /\ Len(s) = Len(h) /\ k \in 1..Len(h)
  /\ \A j \in 2..Len(h) : \E l \in 1..Len(h) : l # k /\ s[l] = h[j]
  /\ \A l \in 1..Len(h) : l # k => \E j \in 2..Len(h) : s[l] = h[j]

LEMMA SunkFacts ==
  ASSUME NEW S, NEW h \in Seq(S), NEW path, NEW k, path = SinkPath(h, 1),
         k = Leaf(h, path), Len(h) > 0
  PROVE  Sinks(S, h, k, Sunk(h, path))
<1> DEFINE n == Len(h)
           s == Sunk(h, path)
<1>0. n \in Nat /\ n > 0 /\ DOMAIN h = 1..n /\ h \in [1..n -> S] /\ 1 \in 1..n
  OBVIOUS
<1>1. /\ 1 \in path /\ path \subseteq 1..n
      /\ \E l \in path : 2 * l > n
      /\ \A j \in path \ {1} : \E u \in path : 2 * u <= n /\ Larger(h, u) = j
  BY <1>0, SinkPathFacts
<1>2. k \in path /\ 2 * k > n
  BY <1>1 DEF Leaf
<1>3. \A i \in 1..n : 2 * i <= n => Larger(h, i) \in 2..n
  BY <1>0, LargerBelow
<1>4. /\ s = [i \in 1..n |-> IF i \in path /\ 2 * i <= n THEN h[Larger(h, i)] ELSE h[i]]
  BY <1>0 DEF Sunk
<1>5. s \in [1..n -> S]
  BY <1>0, <1>3, <1>4
<1>6. s \in Seq(S) /\ Len(s) = n
  BY <1>0, <1>5
<1>7. ASSUME NEW j \in 2..n PROVE \E l \in 1..n : l # k /\ s[l] = h[j]
  <2>0. j \in 1..n /\ j # 1
    BY <1>0
  <2>1. CASE j \in path
    <3>1. PICK u \in path : 2 * u <= n /\ Larger(h, u) = j
      BY <1>1, <2>1, <2>0
    <3>2. u \in 1..n /\ u # k
      BY <3>1, <1>1, <1>2, <1>0
    <3>3. s[u] = h[j]
      BY <3>1, <3>2, <1>4
    <3> QED
      BY <3>2, <3>3
  <2>2. CASE j \notin path
    <3>1. s[j] = h[j] /\ j # k
      BY <2>2, <2>0, <1>2, <1>4
    <3> QED
      BY <3>1, <2>0
  <2> QED
    BY <2>1, <2>2
<1>8. ASSUME NEW l \in 1..n, l # k PROVE \E j \in 2..n : s[l] = h[j]
  <2>1. CASE l \in path /\ 2 * l <= n
    BY <2>1, <1>3, <1>4
  <2>2. CASE ~(l \in path /\ 2 * l <= n)
    <3>1. l # 1
      <4>1. ASSUME l = 1 PROVE FALSE
        <5>1. n = 1 /\ k = 1
          BY <4>1, <2>2, <1>0, <1>1, <1>2
        <5> QED
          BY <5>1, <4>1, <1>8
      <4> QED
        BY <4>1
    <3>2. l \in 2..n /\ s[l] = h[l]
      BY <3>1, <2>2, <1>0, <1>4
    <3> QED
      BY <3>2
  <2> QED
    BY <2>1, <2>2
<1> QED
  BY <1>1, <1>2, <1>6, <1>7, <1>8 DEF Sinks

(* dequeue: the queue then holds everything but its head.                  *)
THEOREM PopKeeps ==
  ASSUME NEW S, NEW h \in Seq(S), Len(h) > 0
  PROVE  /\ Pop(h) \in Seq(S) /\ Len(Pop(h)) = Len(h) - 1
         /\ Elements(Pop(h)) = {h[i] : i \in 2..Len(h)}
<1>0. Len(h) \in Nat /\ \A i \in 1..Len(h) : h[i] \in S
  OBVIOUS
<1>1. CASE Len(h) = 1
  BY <1>1 DEF Pop, Elements
<1>2. CASE Len(h) # 1
  <2> DEFINE n == Len(h) - 1
             rest == SubSeq(h, 1, n)
             path == SinkPath(rest, 1)
             k == Leaf(rest, path)
             s == Sunk(rest, path)
             e == h[Len(h)]
             f == Lift(s, k, e)
  <2>1. /\ n \in Nat /\ n > 0 /\ Len(h) = n + 1 /\ e \in S
        /\ rest \in Seq(S) /\ Len(rest) = n
        /\ \A i \in 1..n : rest[i] = h[i]
    <3>1. n \in Nat /\ n > 0 /\ Len(h) = n + 1 /\ e \in S
      <4>1. Len(h) \in 1..Len(h)
        BY <1>0
      <4>2. e \in S
        BY <1>0, <4>1
      <4> HIDE DEF e
      <4>3. n \in Nat /\ n > 0 /\ Len(h) = n + 1
        <5> HIDE DEF f, s, k, path, rest
        <5>1. Len(h) \in Nat /\ Len(h) # 0 /\ Len(h) # 1
          BY <1>0, <1>2
        <5>2. \A m \in Nat : m # 0 /\ m # 1 => m - 1 \in Nat /\ m - 1 > 0 /\ m = m - 1 + 1
          OBVIOUS
        <5> QED
          BY <5>1, <5>2, Zenon
      <4> QED
        BY <4>2, <4>3
    <3>2. /\ rest \in Seq(S) /\ Len(rest) = n
          /\ \A i \in 1..n : rest[i] = h[i]
      <4> HIDE DEF n
      <4> QED
        BY <3>1
    <3> QED
      BY <3>1, <3>2
  <2>2. Pop(h) = f
    BY <1>2 DEF Pop
  <2> HIDE DEF n, rest, e
  <2>3. /\ s \in Seq(S) /\ Len(s) = n /\ k \in 1..n
        /\ \A j \in 2..n : \E l \in 1..n : l # k /\ s[l] = rest[j]
        /\ \A l \in 1..n : l # k => \E j \in 2..n : s[l] = rest[j]
    <3> HIDE DEF path, k
    <3>1. path = SinkPath(rest, 1) /\ k = Leaf(rest, path)
      BY DEF path, k
    <3>2. Sinks(S, rest, k, s)
      <4>1. rest \in Seq(S) /\ Len(rest) > 0
        BY <2>1
      <4> QED
        BY <4>1, <3>1, SunkFacts
    <3> HIDE DEF s
    <3> QED
      BY <2>1, <3>2 DEF Sinks
  <2> HIDE DEF s, k, path
  <2>4. /\ f \in [1..n -> S]
        /\ \A j \in 1..n : j # k => \E l \in 1..n : f[l] = s[j]
        /\ \E l \in 1..n : f[l] = e
        /\ \A l \in 1..n : f[l] = e \/ \E j \in 1..n : j # k /\ f[l] = s[j]
    <3>1. s \in Seq(S) /\ k \in 1..Len(s) /\ e \in S
      BY <2>1, <2>3
    <3>2. Displaces(S, s, k, e, f)
      BY <3>1, LiftFacts
    <3> HIDE DEF f
    <3> QED
      BY <3>2, <2>3 DEF Displaces
  <2> HIDE DEF f
  <2>5. f \in Seq(S) /\ Len(f) = n /\ DOMAIN f = 1..n
    BY <2>1, <2>4
  <2>6. e = h[n + 1] /\ n + 1 \in 2..Len(h) /\ \A j \in 2..n : j \in 2..Len(h) /\ rest[j] = h[j]
    BY <2>1 DEF e
  <2>7. ASSUME NEW l \in 1..n PROVE \E i \in 2..Len(h) : f[l] = h[i]
    <3>1. CASE f[l] = e
      BY <3>1, <2>6
    <3>2. CASE f[l] # e
      <4>1. PICK j \in 1..n : j # k /\ f[l] = s[j]
        BY <3>2, <2>4
      <4>2. PICK i \in 2..n : s[j] = rest[i]
        BY <4>1, <2>3
      <4> QED
        BY <4>1, <4>2, <2>6
    <3> QED
      BY <3>1, <3>2
  <2>8. ASSUME NEW i \in 2..Len(h) PROVE \E l \in 1..n : f[l] = h[i]
    <3>1. CASE i = n + 1
      BY <3>1, <2>4, <2>6
    <3>2. CASE i # n + 1
      <4>1. i \in 2..n
        BY <3>2, <2>1
      <4>2. PICK j \in 1..n : j # k /\ s[j] = rest[i]
        BY <4>1, <2>3
      <4>3. PICK l \in 1..n : f[l] = s[j]
        BY <4>2, <2>4
      <4> QED
        BY <4>1, <4>2, <4>3, <2>6
    <3> QED
      BY <3>1, <3>2
  <2>9. Elements(f) = {h[i] : i \in 2..Len(h)}
    <3>1. Elements(f) = {f[l] : l \in 1..n}
      BY <2>5 DEF Elements
    <3>2. {f[l] : l \in 1..n} \subseteq {h[i] : i \in 2..Len(h)}
      BY <2>7
    <3>3. {h[i] : i \in 2..Len(h)} \subseteq {f[l] : l \in 1..n}
      BY <2>8
    <3> QED
      BY <3>1, <3>2, <3>3
  <2> QED
    BY <2>1, <2>2, <2>5, <2>9
<1> QED
  BY <1>1, <1>2

=============================================================================
