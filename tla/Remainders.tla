----------------------------- MODULE Remainders -----------------------------
(***************************************************************************)
(* Facts about remainders and about the largest element of a set, for the  *)
(* proofs about counts and pointers that wrap.                             *)
(***************************************************************************)
EXTENDS Integers, WellFoundedInduction, TLAPS

(* Quotient and remainder make the number they are of.                       *)
LEMMA DivMod ==
  ASSUME NEW D \in Nat \ {0}, NEW a \in Nat
  PROVE  /\ a \div D \in Nat /\ a % D \in 0 .. D - 1
         /\ a = D * (a \div D) + (a % D)
BY SMTT(30)

LEMMA MultipleApart ==
  ASSUME NEW D \in Nat \ {0}, NEW p \in Int, NEW q \in Int, p < q
  PROVE  D * p + D <= D * q
<1>1. D * (q - p) >= D
  BY SMTT(30)
<1>2. D * (q - p) = D * q - D * p
  BY SMTT(30)
<1>3. D * p \in Int /\ D * q \in Int
  OBVIOUS
<1>4. QED
  BY <1>1, <1>2, <1>3

LEMMA ModUnique ==
  ASSUME NEW D \in Nat \ {0}, NEW q \in Nat, NEW r \in 0 .. D - 1
  PROVE  (D * q + r) % D = r
<1> DEFINE x == D * q + r
           p == x \div D
           s == x % D
<1>0. x \in Nat
  BY SMTT(30)
<1>1. x = D * p + s /\ p \in Nat /\ s \in 0 .. D - 1
  BY <1>0, DivMod
<1> HIDE DEF p, s
<1>2. D * p \in Int /\ D * q \in Int
  BY <1>1
<1>3. p < q => D * p + D <= D * q
  BY <1>1, MultipleApart
<1>4. q < p => D * q + D <= D * p
  BY <1>1, MultipleApart
<1>5. p = q
  BY <1>1, <1>2, <1>3, <1>4
<1>6. QED
  BY <1>1, <1>2, <1>5 DEF s

(* A count moved on by less than one turn, seen modulo its width.            *)
LEMMA ModShift ==
  ASSUME NEW D \in Nat \ {0}, NEW a \in Nat, NEW d \in 0 .. D - 1
  PROVE  (a + d) % D = (IF (a % D) + d < D THEN (a % D) + d ELSE (a % D) + d - D)
<1> DEFINE q == a \div D
           r == a % D
<1>1. a = D * q + r /\ q \in Nat /\ r \in 0 .. D - 1
  BY DivMod
<1> HIDE DEF q, r
<1>2. CASE r + d < D
  <2>1. a + d = D * q + (r + d)
    BY <1>1
  <2>2. (a + d) % D = r + d
    BY <1>1, <1>2, <2>1, ModUnique
  <2>3. QED
    BY <1>2, <2>2 DEF r
<1>3. CASE ~(r + d < D)
  <2> DEFINE k == q + 1
             t == r + d - D
  <2>1. D * k = D * q + D
    BY <1>1, SMTT(30)
  <2>2. k \in Nat /\ t \in 0 .. D - 1 /\ D * q \in Int
    BY <1>1, <1>3
  <2>3. a + d = D * k + t /\ a + d \in Nat
    BY <1>1, <2>1, <2>2
  <2> HIDE DEF k, t
  <2>4. (a + d) % D = t
    BY <2>2, <2>3, ModUnique
  <2>5. QED
    BY <1>3, <2>4 DEF r, t
<1>4. QED
  BY <1>2, <1>3

(* A pointer moved by no more than one turn wraps at most once.              *)
LEMMA Wrap ==
  ASSUME NEW D \in Nat \ {0}, NEW p \in 0 .. D - 1, NEW i \in 0 .. D
  PROVE  (p + i) % D = (IF p + i < D THEN p + i ELSE p + i - D)
<1>1. CASE p + i < D
  <2>1. p + i \in 0 .. D - 1 /\ p + i = D * 0 + (p + i) /\ 0 \in Nat
    BY <1>1
  <2>2. (p + i) % D = p + i
    BY <2>1, ModUnique
  <2>3. QED
    BY <1>1, <2>2
<1>2. CASE ~(p + i < D)
  <2>1. p + i - D \in 0 .. D - 1 /\ p + i = D * 1 + (p + i - D) /\ 1 \in Nat
    BY <1>2
  <2>2. (p + i) % D = p + i - D
    BY <2>1, ModUnique
  <2>3. QED
    BY <1>2, <2>2
<1>3. QED
  BY <1>1, <1>2

(* The places a lap reaches from a pointer are places of the ring ...        *)
LEMMA PlaceIn ==
  ASSUME NEW D \in Nat \ {0}, NEW p \in 0 .. D - 1, NEW i \in 0 .. D
  PROVE  (p + i) % D \in 0 .. D - 1
<1>1. p + i \in Nat
  OBVIOUS
<1>2. QED
  BY <1>1, DivMod

(* ... different ones within the lap ...                                    *)
LEMMA PlacesApart ==
  ASSUME NEW D \in Nat \ {0}, NEW p \in 0 .. D - 1, NEW i \in 0 .. D - 1, NEW j \in 0 .. D - 1,
         (p + i) % D = (p + j) % D
  PROVE  i = j
<1>0. i \in 0 .. D /\ j \in 0 .. D
  OBVIOUS
<1>1. (p + i) % D = (IF p + i < D THEN p + i ELSE p + i - D)
  BY <1>0, Wrap
<1>2. (p + j) % D = (IF p + j < D THEN p + j ELSE p + j - D)
  BY <1>0, Wrap
<1> DEFINE a == (p + i) % D
           b == (p + j) % D
<1> HIDE DEF a, b
<1>3. a = (IF p + i < D THEN p + i ELSE p + i - D) /\ b = (IF p + j < D THEN p + j ELSE p + j - D)
      /\ a = b
  BY <1>1, <1>2 DEF a, b
<1>4. QED
  BY <1>3

(* ... and the next pointer reaches them one step earlier.                   *)
LEMMA PlaceAfterStep ==
  ASSUME NEW D \in Nat \ {0}, NEW p \in 0 .. D - 1, NEW i \in 0 .. D - 1
  PROVE  (((p + 1) % D) + i) % D = (p + (i + 1)) % D
<1> DEFINE q == (p + 1) % D
           a == (q + i) % D
           b == (p + (i + 1)) % D
<1>0. 1 \in 0 .. D /\ i \in 0 .. D
  OBVIOUS
<1>1. q = (IF p + 1 < D THEN p + 1 ELSE p + 1 - D)
  BY <1>0, Wrap
<1>2. q \in 0 .. D - 1
  BY <1>0, PlaceIn
<1> HIDE DEF q
<1>3. a = (IF q + i < D THEN q + i ELSE q + i - D)
  BY <1>0, <1>2, Wrap
<1>4. b = (IF p + (i + 1) < D THEN p + (i + 1) ELSE p + (i + 1) - D)
  <2>1. i + 1 \in 0 .. D
    OBVIOUS
  <2>2. QED
    BY <2>1, Wrap
<1> HIDE DEF a, b
<1>5. a = b
  BY <1>1, <1>2, <1>3, <1>4
<1>6. QED
  BY <1>5 DEF a, b, q

(* Numbers do not descend for ever.                                         *)
LEMMA DescentEnds ==
  \E R : IsWellFoundedOn(R, Nat) /\ \A x, y \in Nat : y < x => <<y, x>> \in R
<1>1. \A x, y \in Nat : y < x => <<y, x>> \in OpToRel(<, Nat)
  BY DEF OpToRel
<1>2. QED
  BY <1>1, NatLessThanWellFounded, Zenon

(* A set of numbers has a least one: what stands for induction here.         *)
LEMMA LeastExists ==
  ASSUME NEW T, T \subseteq Nat, T # {}
  PROVE  \E t \in T : \A m \in T : t <= m
<1>1. PICK R : IsWellFoundedOn(R, Nat) /\ \A x, y \in Nat : y < x => <<y, x>> \in R
  BY DescentEnds
<1>2. PICK t \in T : \A m \in T : ~(<<m, t>> \in R)
  BY <1>1, WFMin
<1>3. \A m \in T : ~(m < t)
  BY <1>1, <1>2, Zenon
<1>4. \A m \in T : t <= m
  BY <1>3
<1>5. QED
  BY <1>4

(* A set of numbers under a bound has a largest one.                         *)
LEMMA LargestExists ==
  ASSUME NEW n \in Nat, NEW S, S \subseteq 0 .. n - 1, S # {}
  PROVE  \E i \in S : \A j \in S : j <= i
<1> DEFINE T == {n - i : i \in S}
<1>1. T \subseteq Nat
  <2>1. \A i \in S : i \in Int /\ 0 <= i /\ i <= n - 1
    OBVIOUS
  <2>2. QED
    BY <2>1
<1>2. T # {}
  OBVIOUS
<1> HIDE DEF T
<1>3. PICK t \in T : \A m \in T : t <= m
  BY <1>1, <1>2, LeastExists
<1>4. PICK i \in S : t = n - i
  BY DEF T
<1>5. ASSUME NEW j \in S PROVE j <= i
  <2>1. t <= n - j
    BY <1>3 DEF T
  <2>2. i \in 0 .. n - 1 /\ j \in 0 .. n - 1
    OBVIOUS
  <2>3. QED
    BY <1>4, <2>1, <2>2
<1>6. QED
  BY <1>5

(* Quotients: the blocks of D numbers, and which one a number is in.         *)
LEMMA DivIs ==
  ASSUME NEW D \in Nat \ {0}, NEW x \in Nat, NEW q \in Nat
  PROVE  (x \div D) = q <=> D * q <= x /\ x < D * q + D
<1> DEFINE p == x \div D
           s == x % D
<1>1. x = D * p + s /\ p \in Nat /\ s \in 0 .. D - 1
  BY DivMod
<1> HIDE DEF p, s
<1>2. D * p \in Int /\ D * q \in Int
  BY <1>1
<1>3. p = q => D * q <= x /\ x < D * q + D
  BY <1>1, <1>2
<1>4. p < q => D * p + D <= D * q
  BY <1>1, MultipleApart
<1>5. q < p => D * q + D <= D * p
  BY <1>1, MultipleApart
<1>6. p = q <=> D * q <= x /\ x < D * q + D
  BY <1>1, <1>2, <1>3, <1>4, <1>5
<1>7. QED
  BY <1>6 DEF p

(* Multiples keep their order. *)
LEMMA MultiplesOrdered ==
  ASSUME NEW D \in Nat \ {0}, NEW p \in Int, NEW q \in Int
  PROVE  p <= q <=> D * p <= D * q
<1>1. D * p \in Int /\ D * q \in Int
  OBVIOUS
<1>2. p < q => D * p + D <= D * q
  BY MultipleApart
<1>3. q < p => D * q + D <= D * p
  BY MultipleApart
<1>4. QED
  BY <1>1, <1>2, <1>3

(* A block of M blocks holds each of them whole. *)
LEMMA BlockOfBlocks ==
  ASSUME NEW D \in Nat \ {0}, NEW M \in Nat \ {0}, NEW x \in Nat, NEW k \in 0 .. D - 1
  PROVE  ((x \div D) * D + k) \div (D * M) = x \div (D * M)
<1> DEFINE t == x \div D
           E == D * M
           b == x \div E
<1>1. E \in Nat \ {0}
  BY SMTT(30)
<1>2. t \in Nat /\ D * t <= x /\ x < D * t + D
  <2>1. t \in Nat
    BY DivMod
  <2>2. QED
    BY <2>1, DivIs
<1> HIDE DEF E
<1>3. b \in Nat /\ E * b <= x /\ x < E * b + E
  <2>1. b \in Nat
    BY <1>1, DivMod
  <2>2. QED
    BY <1>1, <2>1, DivIs
<1> HIDE DEF t, b
<1>4. E * b = D * (M * b) /\ E * b + E = D * (M * b + M)
  BY <1>2, <1>3, SMTT(30) DEF E
<1>5. M * b \in Int /\ D * t \in Int /\ E * b \in Int /\ D * (t + 1) = D * t + D
  BY <1>1, <1>2, <1>3, SMTT(30)
<1>6. M * b <= t
  <2>1. ~(D * (t + 1) <= D * (M * b))
    BY <1>2, <1>3, <1>4, <1>5
  <2>2. ~(t + 1 <= M * b)
    BY <1>2, <1>5, <2>1, MultiplesOrdered
  <2>3. QED
    BY <1>2, <1>5, <2>2
<1>7. t + 1 <= M * b + M
  <2>1. ~(D * (M * b + M) <= D * t)
    BY <1>1, <1>2, <1>3, <1>4, <1>5
  <2>2. ~(M * b + M <= t)
    BY <1>2, <1>5, <2>1, MultiplesOrdered
  <2>3. QED
    BY <1>2, <1>5, <2>2
<1>8. D * (M * b) <= D * t
  BY <1>2, <1>5, <1>6, MultiplesOrdered
<1>9. D * (t + 1) <= D * (M * b + M)
  <2>1. M * b + M \in Int /\ t + 1 \in Int
    BY <1>2, <1>5
  <2>2. QED
    BY <1>7, <2>1, MultiplesOrdered
<1>10. D * t + k \in Nat /\ E * b <= D * t + k /\ D * t + k < E * b + E
  BY <1>1, <1>2, <1>3, <1>4, <1>5, <1>8, <1>9
<1>11. (D * t + k) \div E = b
  BY <1>1, <1>3, <1>10, DivIs
<1>12. D * t = t * D
  BY <1>2
<1>13. QED
  BY <1>11, <1>12 DEF t, b, E
=============================================================================
