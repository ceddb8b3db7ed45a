---------------------------- MODULE WholeNumbers ----------------------------
(***************************************************************************)
(* What the proofs need of whole numbers: that of some there is a least    *)
(* one, that what a step keeps holds of all, and what division gives.      *)
(***************************************************************************)
EXTENDS Integers, WellFoundedInduction, TLAPS

\* Every set of natural numbers has a least one.
LEMMA LeastNat ==
    ASSUME NEW S \in SUBSET Nat, S # {}
    PROVE  \E n \in S : \A m \in S : n <= m
<1> DEFINE R == {ss \in Nat \X Nat : ss[1] < ss[2]}
<1>1. IsWellFoundedOn(R, Nat)
  <2>1. OpToRel(<, Nat) = R
    BY Zenon DEF OpToRel
  <2>2. QED
    BY <2>1, NatLessThanWellFounded, Zenon
<1>2. PICK n \in S : \A m \in S : ~ (<<m, n>> \in R)
  <2> HIDE DEF R
  <2> QED
    BY <1>1, WFMin
<1>3. ASSUME NEW m \in S, m < n PROVE FALSE
  <2>1. <<m, n>> \in Nat \X Nat /\ <<m, n>>[1] = m /\ <<m, n>>[2] = n
    OBVIOUS
  <2>2. <<m, n>> \in R
    BY <2>1, <1>3, Zenon
  <2>3. QED
    BY <2>2, <1>2
<1>4. QED
  BY <1>3

\* What a step from 0 keeps holds of every natural number.
LEMMA CountingUp ==
    ASSUME NEW S, 0 \in S, \A n \in Nat : n \in S => n + 1 \in S
    PROVE  Nat \subseteq S
<1> SUFFICES ASSUME NEW x \in Nat, x \notin S PROVE FALSE
  OBVIOUS
<1> DEFINE T == {n \in Nat : n \notin S}
<1>1. PICK n \in T : \A m \in T : n <= m
  <2>1. T \in SUBSET Nat /\ T # {}
    OBVIOUS
  <2> HIDE DEF T
  <2>2. QED
    BY <2>1, LeastNat
<1>2. n \in Nat /\ n # 0 /\ n \notin S
  OBVIOUS
<1>3. n - 1 \in Nat /\ (n - 1) + 1 = n /\ ~ (n <= n - 1)
  BY <1>2
<1>4. n - 1 \in S
  BY <1>1, <1>3
<1>5. QED
  BY <1>2, <1>3, <1>4

\* A quotient is what it takes to get under, and the only one.
LEMMA QuotientIs ==
    ASSUME NEW a \in Nat, NEW c \in Nat, c > 0
    PROVE  /\ a \div c \in Nat
           /\ c * (a \div c) \in Nat
           /\ c * (a \div c) <= a /\ a < c * (a \div c) + c
OBVIOUS

LEMMA QuotientOnly ==
    ASSUME NEW a \in Nat, NEW c \in Nat, c > 0, NEW q \in Nat, c * q <= a, a < c * q + c
    PROVE  a \div c = q
<1>1. c * q \in Nat
  OBVIOUS
<1>2. ASSUME NEW x \in Nat, NEW y \in Nat, x < y PROVE c * x + c <= c * y
  <2>1. y - x \in Nat /\ y - x >= 1
    BY <1>2
  <2>2. c * y = c * x + c * (y - x)
    BY <2>1
  <2>3. c * (y - x) >= c
    BY <2>1
  <2>4. QED
    BY <2>2, <2>3
<1> DEFINE r == a \div c
<1>3. r \in Nat /\ c * r \in Nat /\ c * r <= a /\ a < c * r + c
  BY QuotientIs
<1> HIDE DEF r
<1>4. ~ (r < q)
  BY <1>1, <1>2, <1>3
<1>5. ~ (q < r)
  BY <1>1, <1>2, <1>3
<1>6. QED
  BY <1>3, <1>4, <1>5 DEF r

LEMMA QuotientGrows ==
    ASSUME NEW a \in Nat, NEW b \in Nat, a <= b, NEW c \in Nat, c > 0
    PROVE  a \div c <= b \div c
<1> DEFINE r == a \div c
           s == b \div c
<1>1. r \in Nat /\ c * r \in Nat /\ c * r <= a /\ a < c * r + c
  BY QuotientIs
<1>2. s \in Nat /\ c * s \in Nat /\ c * s <= b /\ b < c * s + c
  BY QuotientIs
<1> HIDE DEF r, s
<1>3. ASSUME s < r PROVE FALSE
  <2>1. r - s \in Nat /\ r - s >= 1
    BY <1>1, <1>2, <1>3
  <2>2. c * r = c * s + c * (r - s) /\ c * (r - s) >= c
    BY <1>1, <1>2, <2>1
  <2>3. QED
    BY <1>1, <1>2, <2>2
<1>4. QED
  BY <1>1, <1>2, <1>3 DEF r, s

\* To divide by a product is to divide twice.
LEMMA QuotientTwice ==
    ASSUME NEW a \in Nat, NEW c \in Nat, c > 0, NEW d \in Nat, d > 0
    PROVE  a \div (d * c) = (a \div c) \div d
<1> DEFINE q == a \div c
           r == q \div d
<1>1. q \in Nat /\ c * q \in Nat /\ c * q <= a /\ a < c * q + c
  BY QuotientIs
<1>2. r \in Nat /\ d * r \in Nat /\ d * r <= q /\ q < d * r + d
  <2> HIDE DEF q
  <2> QED
    BY <1>1, QuotientIs
<1> HIDE DEF q, r
<1> DEFINE x == d * r
<1>3. x \in Nat /\ x <= q /\ q <= x + d - 1
  BY <1>1, <1>2
<1> HIDE DEF x
<1>4. c * x <= c * q /\ c * q + c <= c * x + c * d
  <2>1. q - x \in Nat /\ x + d - 1 - q \in Nat
    BY <1>1, <1>3
  <2>2. c * q = c * x + c * (q - x) /\ c * (q - x) \in Nat
    BY <1>1, <1>3, <2>1
  <2>3. /\ c * (x + d - 1 - q) \in Nat
        /\ c * (x + d - 1 - q) = c * x + c * d - c - c * q
    BY <1>1, <1>3, <2>1
  <2>4. c * x \in Nat /\ c * d \in Nat
    BY <1>3
  <2>5. QED
    BY <1>1, <2>2, <2>3, <2>4
<1>5. c * x = (d * c) * r /\ c * d = d * c /\ d * c \in Nat /\ d * c > 0
  BY <1>2 DEF x
<1>6. (d * c) * r <= a /\ a < (d * c) * r + d * c
  <2>1. c * x \in Nat /\ c * d \in Nat
    BY <1>3
  <2>2. c * x <= a /\ a < c * x + c * d
    BY <1>1, <1>4, <2>1
  <2>3. QED
    BY <1>5, <2>2
<1>7. a \div (d * c) = r
  <2> DEFINE e == d * c
  <2>1. e \in Nat /\ e > 0 /\ e * r <= a /\ a < e * r + e
    BY <1>5, <1>6
  <2> HIDE DEF e
  <2>2. a \div e = r
    BY <1>2, <2>1, QuotientOnly
  <2>3. QED
    BY <2>2 DEF e
<1>8. QED
  BY <1>7 DEF q, r
=============================================================================
