-------------------------- MODULE OrderKeysProofs --------------------------
(***************************************************************************)
(* A key made between two keys sorts between them, with any number of      *)
(* digits and for keys of any length; keys spread evenly are keys and sort *)
(* one way, however many there are; and the midpoint of two keys is what   *)
(* the recursion of the code computes.                                     *)
(***************************************************************************)
EXTENDS OrderKeys, WholeNumbers, TLAPS

LEMMA KeyTypes ==
    ASSUME NEW k \in Ends
    PROVE  /\ k \in Seq(Digits)
           /\ Len(k) \in Nat
           /\ \A i \in Nat : i > 0 => Digit(k, i) \in Digits
           /\ \A i \in Nat : i > Len(k) => Digit(k, i) = 0
<1>1. 0 \in Digits
  BY BaseAssumption DEF Digits
<1>2. k \in Seq(Digits)
  <2>1. CASE k = << >>
    BY <2>1
  <2>2. CASE k \in Keys
    BY <2>2 DEF Keys
  <2>3. QED
    BY <2>1, <2>2 DEF Ends, NoKey
<1>3. Len(k) \in Nat
  BY <1>2
<1>4. ASSUME NEW i \in Nat, i > 0 PROVE Digit(k, i) \in Digits
  <2>1. CASE i <= Len(k)
    <3>1. i \in 1..Len(k)
      BY <1>3, <1>4, <2>1
    <3>2. k[i] \in Digits
      BY <1>2, <3>1
    <3>3. QED
      BY <2>1, <3>2 DEF Digit
  <2>2. CASE ~ (i <= Len(k))
    BY <1>1, <2>2 DEF Digit
  <2>3. QED
    BY <2>1, <2>2
<1>5. ASSUME NEW i \in Nat, i > Len(k) PROVE Digit(k, i) = 0
  BY <1>3, <1>5 DEF Digit
<1>6. QED
  BY <1>2, <1>3, <1>4, <1>5

\* A halfway digit is above the low one, and below the high one but where they
\* are neighbours.
LEMMA HalfwayBetween ==
    ASSUME NEW l \in Nat, NEW h \in Nat, h > l
    PROVE  /\ Halfway(l, h) \in Nat
           /\ Halfway(l, h) > l
           /\ h > l + 1 => Halfway(l, h) < h
BY DEF Halfway

\* What Upto makes is a key unless its last digit is the lowest.
LEMMA UptoIsKey ==
    ASSUME NEW k \in Ends, NEW n \in Nat, NEW d \in Digits, d # 0
    PROVE  /\ Upto(k, n, d) \in Keys
           /\ Len(Upto(k, n, d)) = n + 1
           /\ \A i \in 1..n : Upto(k, n, d)[i] = Digit(k, i)
           /\ Upto(k, n, d)[n + 1] = d
<1> DEFINE r == Upto(k, n, d)
<1>1. \A i \in 1..(n + 1) : (IF i <= n THEN Digit(k, i) ELSE d) \in Digits
  BY KeyTypes
<1>2. r \in [1..(n + 1) -> Digits]
  BY <1>1 DEF Upto
<1>3. r \in Seq(Digits) /\ Len(r) = n + 1
  BY <1>2
<1>4. /\ \A i \in 1..n : r[i] = Digit(k, i)
      /\ r[n + 1] = d
  BY DEF Upto
<1>5. QED
  BY <1>3, <1>4 DEF Keys

\* The first digits of a key and a higher one sort after it.
LEMMA UptoSortsAfter ==
    ASSUME NEW k \in Ends, NEW n \in Nat, NEW d \in Digits, d > Digit(k, n + 1)
    PROVE  Less(k, Upto(k, n, d))
<1> DEFINE r == Upto(k, n, d)
<1>0. d # 0
  BY KeyTypes DEF Digits
<1>1. /\ Len(r) = n + 1
      /\ \A i \in 1..n : r[i] = Digit(k, i)
      /\ r[n + 1] = d
  BY <1>0, UptoIsKey
<1> HIDE DEF r
<1>2. CASE n + 1 <= Len(k)
  <2>1. /\ \A i \in 1..n : i <= Len(k) /\ k[i] = r[i]
        /\ k[n + 1] < r[n + 1]
    BY <1>1, <1>2, KeyTypes DEF Digit
  <2>2. QED
    BY <1>1, <2>1 DEF Less, r
<1>3. CASE n + 1 > Len(k)
  <2>1. Len(k) + 1 \in 1..Len(r)
    BY <1>1, <1>3, KeyTypes
  <2>2. \A i \in 1..Len(k) : i <= Len(k) /\ k[i] = r[i]
    BY <1>1, <1>3, KeyTypes DEF Digit
  <2>3. Len(k) + 1 > Len(k) /\ (Len(k) + 1) - 1 = Len(k)
    BY KeyTypes
  <2>4. QED
    BY <2>1, <2>2, <2>3 DEF Less, r
<1>4. QED
  BY <1>2, <1>3, KeyTypes

\* Less needs no more than a place where the digits first go apart.
LEMMA LessAt ==
    ASSUME NEW k \in Keys, NEW l \in Keys, NEW n \in 1..Len(l),
           \A i \in 1..(n - 1) : i <= Len(k) /\ k[i] = l[i],
           n > Len(k) \/ k[n] < l[n]
    PROVE  Less(k, l)
BY DEF Less

\* Room leaves at least the digits it is asked to leave.
LEMMA RoomIs ==
    ASSUME NEW k \in Ends, NEW n \in Nat
    PROVE  /\ Room(k, n) \in n..(n + Len(k))
           /\ Digit(k, Room(k, n) + 1) # Base - 1
<1> DEFINE S == {m \in Nat : m >= n /\ Digit(k, m + 1) # Base - 1}
<1>1. n + Len(k) \in S
  BY KeyTypes, BaseAssumption
<1>2. PICK m \in S : \A j \in S : m <= j
  BY <1>1, LeastNat
<1>3. m \in n..(n + Len(k)) /\ Digit(k, m + 1) # Base - 1
  <2>1. Len(k) \in Nat
    BY KeyTypes
  <2>2. m \in Nat /\ m >= n /\ Digit(k, m + 1) # Base - 1
    OBVIOUS
  <2>3. m <= n + Len(k)
    BY <1>1, <1>2
  <2>4. QED
    BY <2>1, <2>2, <2>3
<1>4. \A i \in (n + 1)..m : Digit(k, i) = Base - 1
  <2>1. SUFFICES ASSUME NEW i \in (n + 1)..m PROVE Digit(k, i) = Base - 1
    OBVIOUS
  <2>2. i - 1 \in Nat /\ i - 1 >= n /\ i - 1 < m /\ (i - 1) + 1 = i
    BY <1>3
  <2>3. i - 1 \notin S
    BY <1>2, <2>2
  <2>4. QED
    BY <2>2, <2>3
<1>5. QED
  <2> DEFINE P(q) == /\ Digit(k, q + 1) # Base - 1
                     /\ \A i \in (n + 1)..q : Digit(k, i) = Base - 1
  <2>1. Room(k, n) = CHOOSE q \in n..(n + Len(k)) : P(q)
    BY DEF Room
  <2>2. \E q \in n..(n + Len(k)) : P(q)
    BY <1>3, <1>4
  <2> HIDE DEF P
  <2>3. Room(k, n) \in n..(n + Len(k)) /\ P(Room(k, n))
    BY <2>1, <2>2
  <2>4. QED
    BY <2>3 DEF P

\* A key made above another keeps its first digits and sorts after it.
LEMMA AboveIs ==
    ASSUME NEW k \in Ends, NEW n \in Nat
    PROVE  /\ Above(k, n) \in Keys
           /\ Less(k, Above(k, n))
           /\ Len(Above(k, n)) > n
           /\ \A i \in 1..n : Above(k, n)[i] = Digit(k, i)
<1> DEFINE m == Room(k, n)
<1>1. m \in Nat /\ m >= n /\ Digit(k, m + 1) # Base - 1
  <2>1. Len(k) \in Nat
    BY KeyTypes
  <2>2. Room(k, n) \in n..(n + Len(k)) /\ Digit(k, Room(k, n) + 1) # Base - 1
    BY RoomIs
  <2>3. QED
    BY <2>1, <2>2
<1> HIDE DEF m
<1> DEFINE c == Digit(k, m + 1)
           d == Halfway(c, Base)
<1>2. c \in Digits
  <2>1. m + 1 \in Nat /\ m + 1 > 0
    BY <1>1
  <2>2. QED
    BY <2>1, KeyTypes
<1>3. c \in Nat /\ c < Base - 1 /\ Base \in Nat
  BY <1>1, <1>2, BaseAssumption DEF Digits
<1>4. Above(k, n) = Upto(k, m, d)
  BY DEF Above, m
<1>5. d \in Digits /\ d > c /\ d # 0
  <2> HIDE DEF c
  <2>1. d \in Nat /\ d > c /\ d < Base
    BY <1>3, HalfwayBetween
  <2>2. QED
    BY <2>1, <1>3 DEF Digits
<1>6. Less(k, Upto(k, m, d))
  <2> HIDE DEF d
  <2> QED
    BY <1>1, <1>5, UptoSortsAfter
<1>7. Upto(k, m, d) \in Keys /\ Len(Upto(k, m, d)) = m + 1
      /\ \A i \in 1..m : Upto(k, m, d)[i] = Digit(k, i)
  <2> HIDE DEF d
  <2> QED
    BY <1>1, <1>5, UptoIsKey
<1>8. QED
  BY <1>1, <1>4, <1>6, <1>7

\* A key that is one has a last digit above the lowest.
LEMMA LastDigit ==
    ASSUME NEW k \in Keys
    PROVE  /\ Len(k) \in Nat /\ Len(k) > 0
           /\ k[Len(k)] \in Digits /\ k[Len(k)] # 0
           /\ \A i \in 1..Len(k) : k[i] \in Digits /\ Digit(k, i) = k[i]
<1>1. k \in Seq(Digits) /\ Len(k) > 0 /\ k[Len(k)] # 0
  BY DEF Keys
<1>2. Len(k) \in Nat /\ \A i \in 1..Len(k) : k[i] \in Digits
  BY <1>1
<1>3. QED
  BY <1>1, <1>2 DEF Digit

\* Where two keys in order go apart, the first has the lower digit.
LEMMA SharedIs ==
    ASSUME NEW low \in Ends, NEW high \in Keys, Less(low, high)
    PROVE  /\ Shared(low, high) \in 0..(Len(high) - 1)
           /\ \A i \in 1..Shared(low, high) : Digit(low, i) = high[i]
           /\ Digit(low, Shared(low, high) + 1) < high[Shared(low, high) + 1]
<1>1. /\ Len(high) \in Nat /\ Len(high) > 0 /\ high[Len(high)] # 0
      /\ \A i \in 1..Len(high) : high[i] \in Nat
  BY LastDigit DEF Digits
<1>2. Len(low) \in Nat /\ \A i \in Nat : i > Len(low) => Digit(low, i) = 0
  BY KeyTypes
<1>3. PICK q \in 1..Len(high) :
         /\ \A i \in 1..(q - 1) : i <= Len(low) /\ low[i] = high[i]
         /\ q > Len(low) \/ low[q] < high[q]
  BY DEF Less
<1>4. \A i \in 1..(q - 1) : Digit(low, i) = high[i]
  BY <1>3 DEF Digit
<1> DEFINE P(j) == /\ \A i \in 1..j : Digit(low, i) = high[i]
                   /\ Digit(low, j + 1) # high[j + 1]
           S == {j \in Nat : j < Len(high) /\ Digit(low, j + 1) # high[j + 1]}
<1>5. S # {}
  <2>1. CASE q > Len(low)
    <3>1. Len(high) - 1 \in Nat /\ Len(high) - 1 < Len(high)
      BY <1>1
    <3>2. Digit(low, Len(high)) = 0 /\ (Len(high) - 1) + 1 = Len(high)
      BY <1>1, <1>2, <2>1
    <3>3. Len(high) - 1 \in S
      BY <1>1, <3>1, <3>2
    <3>4. QED
      BY <3>3
  <2>2. CASE q <= Len(low)
    <3>1. q - 1 \in Nat /\ q - 1 < Len(high) /\ (q - 1) + 1 = q
      BY <1>1
    <3>2. Digit(low, q) = low[q]
      BY <2>2 DEF Digit
    <3>3. low[q] < high[q]
      BY <1>1, <1>2, <1>3, <2>2
    <3>4. high[q] \in Nat /\ low[q] # high[q]
      <4>1. q \in Nat /\ q > 0
        BY <1>1
      <4>2. Digit(low, q) \in Nat
        BY <4>1, KeyTypes DEF Digits
      <4>3. QED
        BY <1>1, <3>2, <3>3, <4>2
    <3>5. q - 1 \in S
      BY <3>1, <3>2, <3>4
    <3>6. QED
      BY <3>5
  <2>3. QED
    BY <1>1, <1>2, <2>1, <2>2
<1>6. PICK n \in S : \A m \in S : n <= m
  <2> HIDE DEF S
  <2>1. S \in SUBSET Nat
    BY DEF S
  <2>2. QED
    BY <1>5, <2>1, LeastNat
<1>7. n \in 0..(Len(high) - 1) /\ P(n)
  <2>1. n \in Nat /\ n < Len(high) /\ Digit(low, n + 1) # high[n + 1]
    OBVIOUS
  <2>2. ASSUME NEW i \in 1..n PROVE Digit(low, i) = high[i]
    <3>1. i - 1 \in Nat /\ i - 1 < n /\ (i - 1) + 1 = i /\ i - 1 < Len(high)
      BY <1>1, <2>1
    <3>2. i - 1 \notin S
      BY <1>6, <2>1, <3>1
    <3>3. QED
      BY <3>1, <3>2
  <2>3. QED
    BY <1>1, <2>1, <2>2
<1>8. Shared(low, high) \in 0..(Len(high) - 1) /\ P(Shared(low, high))
  <2>1. Shared(low, high) = CHOOSE j \in 0..(Len(high) - 1) : P(j)
    BY DEF Shared
  <2> HIDE DEF P
  <2>2. QED
    BY <1>7, <2>1
<1>9. ASSUME NEW j \in 0..(Len(high) - 1), P(j)
      PROVE  Digit(low, j + 1) < high[j + 1]
  <2>1. j \in Nat /\ j + 1 \in 1..Len(high) /\ j + 1 > 0
    BY <1>1
  <2>2. Digit(low, j + 1) \in Nat /\ high[j + 1] \in Nat
    BY <1>1, <2>1, KeyTypes DEF Digits
  <2>3. Digit(low, j + 1) # high[j + 1]
    BY <1>9
  <2>4. j + 1 >= q
    <3>1. SUFFICES ASSUME j + 1 < q PROVE FALSE
      BY <2>1
    <3>2. j + 1 \in 1..(q - 1)
      BY <2>1, <3>1
    <3>3. QED
      BY <1>4, <2>3, <3>2
  <2>5. CASE q > Len(low)
    <3>1. Digit(low, j + 1) = 0
      BY <1>2, <2>1, <2>4, <2>5
    <3>2. QED
      BY <2>2, <2>3, <3>1
  <2>6. CASE q <= Len(low)
    <3>1. Digit(low, q) = low[q]
      BY <2>6 DEF Digit
    <3>2. low[q] < high[q]
      BY <1>2, <1>3, <2>6
    <3>3. q \in Nat /\ q > 0 /\ Digit(low, q) \in Nat /\ high[q] \in Nat
      BY <1>1, KeyTypes DEF Digits
    <3>4. Digit(low, q) # high[q]
      BY <3>1, <3>2, <3>3
    <3>5. ~ (q < j + 1)
      <4>1. SUFFICES ASSUME q < j + 1 PROVE FALSE
        OBVIOUS
      <4>2. q \in 1..j
        BY <2>1, <4>1
      <4>3. QED
        BY <1>9, <3>4, <4>2
    <3>6. q = j + 1
      BY <2>1, <2>4, <3>5
    <3>7. QED
      BY <3>1, <3>2, <3>6
  <2>7. QED
    BY <1>1, <1>2, <2>5, <2>6
<1>10. QED
  <2> HIDE DEF S
  <2>1. P(Shared(low, high)) => Digit(low, Shared(low, high) + 1) < high[Shared(low, high) + 1]
    BY <1>8, <1>9
  <2>2. QED
    BY <1>8, <2>1

\* What Upto makes depends on no more than the digits it keeps.
LEMMA UptoSame ==
    ASSUME NEW k, NEW l, NEW n \in Nat, NEW d,
           \A i \in 1..n : Digit(k, i) = Digit(l, i)
    PROVE  Upto(k, n, d) = Upto(l, n, d)
<1>1. \A i \in 1..(n + 1) : (IF i <= n THEN Digit(k, i) ELSE d)
                               = (IF i <= n THEN Digit(l, i) ELSE d)
  OBVIOUS
<1>2. QED
  BY <1>1 DEF Upto

\* A key with fewer digits than another, or with the first one that differs
\* lower, sorts before it.
LEMMA SortsBefore ==
    ASSUME NEW k \in Keys, NEW l \in Keys, NEW n \in Nat, n < Len(l),
           \A i \in 1..n : i <= Len(k) /\ k[i] = l[i],
           n = Len(k) \/ k[n + 1] < l[n + 1]
    PROVE  Less(k, l)
<1>1. Len(k) \in Nat /\ Len(l) \in Nat
  BY LastDigit
<1>2. n + 1 \in 1..Len(l) /\ (n + 1) - 1 = n
  BY <1>1
<1>3. n + 1 > Len(k) \/ k[n + 1] < l[n + 1]
  BY <1>1
<1>4. QED
  BY <1>2, <1>3 DEF Less

\* midpoint: a key, after the low one and before the high one.
LEMMA MidpointBetween ==
    ASSUME NEW low \in Ends, NEW high \in Ends, high = NoKey \/ Less(low, high)
    PROVE  /\ Midpoint(low, high) \in Keys
           /\ Less(low, Midpoint(low, high))
           /\ high # NoKey => Less(Midpoint(low, high), high)
<1>1. CASE high = NoKey
  BY <1>1, AboveIs DEF Midpoint
<1>2. CASE high # NoKey
  <2> DEFINE n == Shared(low, high)
             l == Digit(low, n + 1)
             h == high[n + 1]
  <2>1. high \in Keys /\ Less(low, high)
    BY <1>2 DEF Ends
  <2>2. /\ n \in 0..(Len(high) - 1)
        /\ \A i \in 1..n : Digit(low, i) = high[i]
        /\ l < h
    BY <2>1, SharedIs
  <2>3. Midpoint(low, high) = IF h - l > 1 THEN Upto(high, n, Halfway(l, h))
                              ELSE IF Len(high) > n + 1 THEN Upto(high, n, h)
                              ELSE Above(low, n + 1)
    BY <1>2 DEF Midpoint
  <2> HIDE DEF n
  <2>4. /\ Len(high) \in Nat
        /\ \A i \in 1..Len(high) : high[i] \in Digits /\ Digit(high, i) = high[i]
    BY <2>1, LastDigit
  <2>5. n \in Nat /\ n < Len(high) /\ n + 1 \in 1..Len(high)
    BY <2>2, <2>4
  <2>6. l \in Digits /\ h \in Digits
    BY <2>4, <2>5, KeyTypes
  <2>7. \A i \in 1..n : Digit(high, i) = high[i] /\ Digit(high, i) = Digit(low, i)
    BY <2>2, <2>4, <2>5
  <2> HIDE DEF l, h
  <2>8. l \in Nat /\ h \in Nat /\ h < Base /\ Base \in Nat
    BY <2>6, BaseAssumption DEF Digits
  <2>9. ASSUME NEW d \in Digits, d > l,
               d < h \/ (d = h /\ Len(high) > n + 1)
        PROVE  /\ Upto(high, n, d) \in Keys
               /\ Less(low, Upto(high, n, d))
               /\ Less(Upto(high, n, d), high)
    <3> DEFINE r == Upto(high, n, d)
    <3>1. d # 0 /\ d \in Nat
      BY <2>8, <2>9 DEF Digits
    <3>2. /\ r \in Keys /\ Len(r) = n + 1
          /\ \A i \in 1..n : r[i] = high[i]
          /\ r[n + 1] = d
      <4>1. /\ r \in Keys /\ Len(r) = n + 1
            /\ \A i \in 1..n : r[i] = Digit(high, i)
            /\ r[n + 1] = d
        BY <2>5, <3>1, UptoIsKey
      <4>2. QED
        BY <4>1, <2>7
    <3>3. Upto(high, n, d) = Upto(low, n, d)
      BY <2>5, <2>7, UptoSame
    <3>4. Less(low, Upto(low, n, d))
      BY <2>5, <2>9, UptoSortsAfter DEF l
    <3> HIDE DEF r
    <3>5. CASE d < h
      <4>1. \A i \in 1..n : i <= Len(r) /\ r[i] = high[i]
        BY <2>5, <3>2
      <4>2. r[n + 1] < high[n + 1]
        BY <3>2, <3>5 DEF h
      <4>3. Less(r, high)
        BY <2>1, <2>5, <3>2, <4>1, <4>2, SortsBefore
      <4>4. QED
        BY <3>2, <3>3, <3>4, <4>3 DEF r
    <3>6. CASE d = h /\ Len(high) > n + 1
      <4>1. \A i \in 1..(n + 1) : i <= Len(r) /\ r[i] = high[i]
        BY <2>5, <3>2, <3>6 DEF h
      <4>2. n + 1 \in Nat /\ n + 1 < Len(high) /\ n + 1 = Len(r)
        BY <2>5, <3>2, <3>6
      <4>3. Less(r, high)
        BY <2>1, <3>2, <4>1, <4>2, SortsBefore
      <4>4. QED
        BY <3>2, <3>3, <3>4, <4>3 DEF r
    <3>7. QED
      BY <2>9, <3>5, <3>6
  <2>10. CASE h - l > 1
    <3>1. Halfway(l, h) \in Nat /\ Halfway(l, h) > l /\ Halfway(l, h) < h
      BY <2>2, <2>8, <2>10, HalfwayBetween DEF l, h
    <3>2. Halfway(l, h) \in Digits
      BY <2>8, <3>1 DEF Digits
    <3>3. QED
      BY <2>3, <2>9, <2>10, <3>1, <3>2
  <2>11. CASE ~ (h - l > 1) /\ Len(high) > n + 1
    <3>1. h > l
      BY <2>2, <2>8 DEF l, h
    <3>2. Midpoint(low, high) = Upto(high, n, h)
      BY <2>3, <2>11
    <3>3. QED
      BY <2>6, <2>9, <2>11, <3>1, <3>2
  <2>12. CASE ~ (h - l > 1) /\ ~ (Len(high) > n + 1)
    <3> DEFINE r == Above(low, n + 1)
    <3>1. Midpoint(low, high) = r
      BY <2>3, <2>12
    <3>2. /\ r \in Keys /\ Less(low, r) /\ Len(r) > n + 1
          /\ \A i \in 1..(n + 1) : r[i] = Digit(low, i)
      BY <2>5, AboveIs
    <3> HIDE DEF r
    <3>3. Len(r) \in Nat
      BY <3>2, LastDigit
    <3>4. \A i \in 1..n : i <= Len(r) /\ r[i] = high[i]
      BY <2>2, <2>5, <3>2, <3>3
    <3>5. r[n + 1] < high[n + 1]
      BY <2>2, <2>5, <3>2 DEF l, h
    <3>6. Less(r, high)
      BY <2>1, <2>5, <3>2, <3>4, <3>5, SortsBefore
    <3>7. QED
      BY <3>1, <3>2, <3>6
  <2>13. QED
    BY <2>10, <2>11, <2>12
<1>3. QED
  BY <1>1, <1>2

\* next: a key after the one it is made from.
LEMMA NextAbove ==
    ASSUME NEW k \in Keys
    PROVE  NextKey(k) \in Keys /\ Less(k, NextKey(k))
<1> DEFINE n == Len(k)
<1>1. n \in Nat /\ n > 0 /\ k[n] \in Digits /\ Digit(k, n) = k[n] /\ k \in Ends
  BY LastDigit DEF Ends
<1>2. NextKey(k) = IF k[n] < Base - 1 THEN Upto(k, n - 1, k[n] + 1)
                   ELSE Upto(k, n, Halfway(0, Base))
  BY DEF NextKey
<1> HIDE DEF n
<1>3. CASE k[n] < Base - 1
  <2>1. k[n] + 1 \in Digits /\ k[n] + 1 # 0 /\ k[n] + 1 > Digit(k, (n - 1) + 1)
    BY <1>1, <1>3, BaseAssumption DEF Digits
  <2>2. n - 1 \in Nat
    BY <1>1
  <2>3. QED
    BY <1>1, <1>2, <1>3, <2>1, <2>2, UptoIsKey, UptoSortsAfter
<1>4. CASE ~ (k[n] < Base - 1)
  <2> DEFINE d == Halfway(0, Base)
  <2>1. d \in Nat /\ d > 0 /\ d < Base
    BY BaseAssumption, HalfwayBetween
  <2> HIDE DEF d
  <2>2. d \in Digits /\ d # 0
    BY <2>1, BaseAssumption DEF Digits
  <2>3. Digit(k, n + 1) = 0
    BY <1>1, KeyTypes DEF n
  <2>4. Upto(k, n, d) \in Keys /\ Less(k, Upto(k, n, d))
    BY <1>1, <2>1, <2>2, <2>3, UptoIsKey, UptoSortsAfter
  <2>5. QED
    BY <1>2, <1>4, <2>4 DEF d
<1>5. QED
  BY <1>3, <1>4

\* previous: a key before the one it is made from.
LEMMA PreviousBelow ==
    ASSUME NEW k \in Keys
    PROVE  /\ PreviousKey(k) \in Keys
           /\ Less(NoKey, PreviousKey(k))
           /\ Less(PreviousKey(k), k)
<1> DEFINE n == Len(k)
<1>1. /\ n \in Nat /\ n > 0 /\ k[n] \in Digits
      /\ \A i \in 1..n : Digit(k, i) = k[i]
      /\ k \in Ends /\ NoKey \in Ends
  BY LastDigit DEF Ends
<1>2. PreviousKey(k) = IF k[n] > 1 THEN Upto(k, n - 1, k[n] - 1)
                       ELSE Midpoint(NoKey, k)
  BY DEF PreviousKey
<1>3. \A l \in Keys : Less(NoKey, l)
  <2>1. SUFFICES ASSUME NEW l \in Keys PROVE Less(NoKey, l)
    OBVIOUS
  <2>2. Len(l) \in Nat /\ Len(l) > 0 /\ Len(NoKey) = 0
    BY LastDigit DEF NoKey
  <2>3. 1 \in 1..Len(l) /\ 1 > Len(NoKey) /\ \A i \in 1..(1 - 1) : FALSE
    BY <2>2
  <2>4. QED
    BY <2>3 DEF Less
<1> HIDE DEF n
<1>4. CASE k[n] > 1
  <2> DEFINE d == k[n] - 1
             r == Upto(k, n - 1, d)
  <2>1. n - 1 \in Nat /\ (n - 1) + 1 = n
    BY <1>1
  <2>2. d \in Digits /\ d # 0 /\ d < k[n]
    BY <1>1, <1>4, BaseAssumption DEF Digits
  <2> HIDE DEF d
  <2>3. /\ r \in Keys /\ Len(r) = n
        /\ \A i \in 1..(n - 1) : r[i] = Digit(k, i)
        /\ r[n] = d
    <3> DEFINE q == n - 1
    <3>1. q \in Nat /\ q + 1 = n
      BY <2>1
    <3> HIDE DEF q
    <3>2. /\ Upto(k, q, d) \in Keys /\ Len(Upto(k, q, d)) = q + 1
          /\ \A i \in 1..q : Upto(k, q, d)[i] = Digit(k, i)
          /\ Upto(k, q, d)[q + 1] = d
      BY <1>1, <2>2, <3>1, UptoIsKey
    <3>3. QED
      BY <3>1, <3>2 DEF q
  <2> HIDE DEF r
  <2>4. \A i \in 1..(n - 1) : i <= Len(r) /\ r[i] = k[i]
    BY <1>1, <2>3
  <2>5. Less(r, k)
    <3>1. n - 1 < Len(k) /\ r[(n - 1) + 1] < k[(n - 1) + 1]
      BY <1>1, <2>1, <2>2, <2>3 DEF n
    <3>2. QED
      BY <2>1, <2>3, <2>4, <3>1, SortsBefore
  <2>6. QED
    BY <1>2, <1>3, <1>4, <2>3, <2>5 DEF r, d
<1>5. CASE ~ (k[n] > 1)
  <2>1. k # NoKey
    BY <1>1 DEF n, NoKey
  <2>2. QED
    BY <1>1, <1>2, <1>3, <1>5, <2>1, MidpointBetween
<1>6. QED
  BY <1>4, <1>5

\* OrderKeyBetween answers a key, and it sorts after the one before and before
\* the one after: with any number of digits, for neighbours of any length, and
\* at either end of the order.
THEOREM BetweenSorts ==
    ASSUME NEW before \in Ends, NEW after \in Ends, ~ OutOfOrder(before, after)
    PROVE  LET key == OrderKeyBetween(before, after) IN
           /\ key \in Keys
           /\ Less(before, key)
           /\ after # NoKey => Less(key, after)
<1>1. after = NoKey \/ Less(before, after)
  BY DEF OutOfOrder
<1>2. CASE after = NoKey /\ before # NoKey
  <2>1. before \in Keys
    BY <1>2 DEF Ends
  <2>2. QED
    BY <1>2, <2>1, NextAbove DEF OrderKeyBetween
<1>3. CASE before = NoKey /\ after # NoKey
  <2>1. after \in Keys
    BY <1>3 DEF Ends
  <2>2. QED
    BY <1>3, <2>1, PreviousBelow DEF OrderKeyBetween
<1>4. CASE ~ (after = NoKey /\ before # NoKey) /\ ~ (before = NoKey /\ after # NoKey)
  <2>1. OrderKeyBetween(before, after) = Midpoint(before, after)
    BY <1>4 DEF OrderKeyBetween
  <2>2. QED
    BY <1>1, <2>1, MidpointBetween
<1>5. QED
  BY <1>2, <1>3, <1>4

\* Keys sort one way.
LEMMA LessTransitive ==
    ASSUME NEW k \in Keys, NEW l \in Keys, NEW m \in Keys, Less(k, l), Less(l, m)
    PROVE  Less(k, m)
<1>1. /\ Len(k) \in Nat /\ Len(l) \in Nat /\ Len(m) \in Nat
      /\ \A i \in 1..Len(k) : k[i] \in Nat
      /\ \A i \in 1..Len(l) : l[i] \in Nat
      /\ \A i \in 1..Len(m) : m[i] \in Nat
  BY LastDigit DEF Digits
<1>2. PICK p \in 1..Len(l) : /\ \A i \in 1..(p - 1) : i <= Len(k) /\ k[i] = l[i]
                             /\ p > Len(k) \/ k[p] < l[p]
  BY DEF Less
<1>3. PICK q \in 1..Len(m) : /\ \A i \in 1..(q - 1) : i <= Len(l) /\ l[i] = m[i]
                             /\ q > Len(l) \/ l[q] < m[q]
  BY DEF Less
<1>4. p \in Nat /\ q \in Nat /\ p > 0 /\ q > 0 /\ p <= Len(l) /\ q <= Len(m)
  BY <1>1
<1>5. CASE p < q
  <2>1. p \in 1..Len(m) /\ p \in 1..(q - 1)
    BY <1>1, <1>4, <1>5
  <2>2. \A i \in 1..(p - 1) : i <= Len(k) /\ k[i] = m[i]
    BY <1>2, <1>3, <1>4, <1>5
  <2>3. p > Len(k) \/ k[p] < m[p]
    BY <1>2, <1>3, <2>1
  <2>4. QED
    BY <2>1, <2>2, <2>3 DEF Less
<1>6. CASE p = q
  <2>1. \A i \in 1..(q - 1) : i <= Len(k) /\ k[i] = m[i]
    BY <1>2, <1>3, <1>6
  <2>2. q > Len(k) \/ k[q] < m[q]
    <3>1. CASE q > Len(k)
      BY <3>1
    <3>2. CASE q <= Len(k)
      <4>1. k[q] \in Nat /\ l[q] \in Nat /\ m[q] \in Nat
        BY <1>1, <1>4, <1>6, <3>2
      <4>2. k[q] < l[q] /\ l[q] < m[q]
        BY <1>1, <1>2, <1>3, <1>4, <1>6, <3>2
      <4>3. QED
        BY <4>1, <4>2
    <3>3. QED
      BY <1>1, <1>4, <3>1, <3>2
  <2>3. QED
    BY <2>1, <2>2 DEF Less
<1>7. CASE p > q
  <2>1. q \in 1..(p - 1) /\ q <= Len(k) /\ k[q] = l[q]
    BY <1>2, <1>4, <1>7
  <2>2. l[q] < m[q]
    BY <1>1, <1>3, <1>4, <1>7
  <2>3. \A i \in 1..(q - 1) : i <= Len(k) /\ k[i] = m[i]
    BY <1>2, <1>3, <1>4, <1>7
  <2>4. QED
    BY <2>1, <2>2, <2>3 DEF Less
<1>8. QED
  BY <1>4, <1>5, <1>6, <1>7

----------------------------------------------------------------------------
(* Keys spread evenly. *)

\* The powers of the base up to one of them.
PowersTo(n, g) ==
    \A w \in 0..n : g[w] = IF w = 0 THEN 1 ELSE Base * g[w - 1]

LEMMA PowersAgree ==
    ASSUME NEW m \in Nat, NEW n \in Nat, NEW g, NEW h, PowersTo(m, g), PowersTo(n, h)
    PROVE  \A w \in Nat : w <= m /\ w <= n => g[w] = h[w]
<1> DEFINE S == {w \in Nat : w <= m /\ w <= n => g[w] = h[w]}
<1>1. 0 \in S
  BY DEF PowersTo
<1>2. ASSUME NEW w \in Nat, w \in S PROVE w + 1 \in S
  <2> SUFFICES ASSUME w + 1 <= m, w + 1 <= n PROVE g[w + 1] = h[w + 1]
    OBVIOUS
  <2>1. w + 1 \in 0..m /\ w + 1 \in 0..n /\ w + 1 # 0 /\ (w + 1) - 1 = w
    OBVIOUS
  <2>2. g[w + 1] = Base * g[w] /\ h[w + 1] = Base * h[w]
    BY <2>1 DEF PowersTo
  <2>3. g[w] = h[w]
    BY <1>2
  <2>4. QED
    BY <2>2, <2>3
<1> HIDE DEF S
<1>3. Nat \subseteq S
  BY <1>1, <1>2, CountingUp
<1>4. QED
  BY <1>3 DEF S

LEMMA PowersExist == \A n \in Nat : \E g : PowersTo(n, g)
<1> DEFINE S == {n \in Nat : \E g : PowersTo(n, g)}
<1>1. 0 \in S
  <2>1. PowersTo(0, [w \in {0} |-> 1])
    BY DEF PowersTo
  <2>2. QED
    BY <2>1
<1>2. ASSUME NEW n \in Nat, n \in S PROVE n + 1 \in S
  <2>1. PICK g : PowersTo(n, g)
    BY <1>2
  <2> DEFINE h == [w \in 0..(n + 1) |-> IF w = n + 1 THEN Base * g[n] ELSE g[w]]
  <2>2. ASSUME NEW w \in 0..(n + 1)
        PROVE  h[w] = IF w = 0 THEN 1 ELSE Base * h[w - 1]
    <3>1. CASE w = n + 1
      BY <3>1
    <3>2. CASE w # n + 1
      <4>1. w \in 0..n /\ (w # 0 => w - 1 \in 0..n)
        BY <3>2
      <4>2. g[w] = IF w = 0 THEN 1 ELSE Base * g[w - 1]
        BY <2>1, <4>1 DEF PowersTo
      <4>3. h[w] = g[w] /\ (w # 0 => h[w - 1] = g[w - 1])
        BY <3>2, <4>1
      <4>4. QED
        BY <4>2, <4>3
    <3>3. QED
      BY <3>1, <3>2
  <2> HIDE DEF h
  <2>3. PowersTo(n + 1, h)
    BY <2>2 DEF PowersTo
  <2>4. QED
    BY <2>3
<1> HIDE DEF S
<1>3. Nat \subseteq S
  BY <1>1, <1>2, CountingUp
<1>4. QED
  BY <1>3 DEF S

\* So many digits have room for as many keys as the base to that power.
LEMMA CapacityIs ==
    /\ Capacity[0] = 1
    /\ \A w \in Nat : Capacity[w + 1] = Base * Capacity[w]
<1> DEFINE G(n) == CHOOSE g : PowersTo(n, g)
           f == [n \in Nat |-> G(n)[n]]
           Is(g) == g = [w \in Nat |-> IF w = 0 THEN 1 ELSE Base * g[w - 1]]
<1>1. \A n \in Nat : PowersTo(n, G(n))
  BY PowersExist
<1> HIDE DEF G
<1>2. ASSUME NEW w \in Nat PROVE f[w] = IF w = 0 THEN 1 ELSE Base * f[w - 1]
  <2>1. G(w)[w] = IF w = 0 THEN 1 ELSE Base * G(w)[w - 1]
    BY <1>1 DEF PowersTo
  <2>2. w # 0 => G(w)[w - 1] = G(w - 1)[w - 1]
    <3>1. SUFFICES ASSUME w # 0 PROVE G(w)[w - 1] = G(w - 1)[w - 1]
      OBVIOUS
    <3>2. w - 1 \in Nat /\ w - 1 <= w /\ w - 1 <= w - 1
      BY <3>1
    <3>3. QED
      BY <1>1, <3>2, PowersAgree
  <2>3. w # 0 => f[w - 1] = G(w - 1)[w - 1]
    OBVIOUS
  <2>4. QED
    BY <2>1, <2>2, <2>3
<1>3. Is(f)
  <2> DEFINE r == [w \in Nat |-> IF w = 0 THEN 1 ELSE Base * f[w - 1]]
  <2>1. f \in [Nat -> {f[w] : w \in Nat}] /\ DOMAIN f = Nat /\ DOMAIN r = Nat
    OBVIOUS
  <2>2. \A w \in Nat : f[w] = r[w]
    BY <1>2
  <2>3. f = [w \in DOMAIN f |-> f[w]] /\ r = [w \in DOMAIN r |-> r[w]]
    OBVIOUS
  <2> HIDE DEF f, r
  <2>4. f = r
    BY <2>1, <2>2, <2>3
  <2>5. QED
    BY <2>4 DEF r
<1>4. Capacity = CHOOSE g : Is(g)
  BY DEF Capacity
<1> HIDE DEF f
<1>5. Is(Capacity)
  <2> HIDE DEF Is
  <2> QED
    BY <1>3, <1>4
<1>6. \A w \in Nat : Capacity[w] = IF w = 0 THEN 1 ELSE Base * Capacity[w - 1]
  BY <1>5
<1>7. ASSUME NEW w \in Nat PROVE Capacity[w + 1] = Base * Capacity[w]
  <2>1. w + 1 \in Nat /\ w + 1 # 0 /\ (w + 1) - 1 = w
    OBVIOUS
  <2>2. QED
    BY <1>6, <2>1
<1>8. QED
  BY <1>6, <1>7

LEMMA CapacityGrows ==
    ASSUME NEW w \in Nat
    PROVE  Capacity[w] \in Nat /\ Capacity[w] > w
<1> DEFINE S == {v \in Nat : Capacity[v] \in Nat /\ Capacity[v] > v}
<1>1. 0 \in S
  BY CapacityIs
<1>2. ASSUME NEW v \in Nat, v \in S PROVE v + 1 \in S
  <2> DEFINE c == Capacity[v]
  <2>1. c \in Nat /\ c > v /\ Capacity[v + 1] = Base * c
    BY <1>2, CapacityIs
  <2> HIDE DEF c
  <2>2. Base * c \in Nat /\ Base * c >= 2 * c
    BY <2>1, BaseAssumption
  <2>3. QED
    BY <2>1, <2>2
<1> HIDE DEF S
<1>3. Nat \subseteq S
  BY <1>1, <1>2, CountingUp
<1>4. QED
  BY <1>3 DEF S

\* There is a fewest number of digits.
LEMMA WidthIs ==
    ASSUME NEW count \in Nat
    PROVE  /\ Width(count) \in Nat \ {0}
           /\ Capacity[Width(count)] > 2 * (count + 1)
<1> DEFINE Fits == {w \in 1..(2 * count + 3) : Capacity[w] > 2 * (count + 1)}
           P(w) == /\ Capacity[w] > 2 * (count + 1)
                   /\ w = 1 \/ Capacity[w - 1] <= 2 * (count + 1)
<1>1. 2 * count + 3 \in Fits
  BY CapacityGrows
<1>2. Fits \in SUBSET Nat /\ Fits # {}
  BY <1>1
<1>3. PICK w \in Fits : \A v \in Fits : w <= v
  <2> HIDE DEF Fits
  <2> QED
    BY <1>2, LeastNat
<1>4. w \in 1..(2 * count + 3) /\ Capacity[w] > 2 * (count + 1)
  OBVIOUS
<1>5. w = 1 \/ Capacity[w - 1] <= 2 * (count + 1)
  <2> SUFFICES ASSUME w # 1 PROVE Capacity[w - 1] <= 2 * (count + 1)
    OBVIOUS
  <2>1. w - 1 \in 1..(2 * count + 3) /\ ~ (w <= w - 1) /\ Capacity[w - 1] \in Nat
    BY <1>4, CapacityGrows
  <2>2. w - 1 \notin Fits
    BY <1>3, <2>1
  <2>3. QED
    BY <2>1, <2>2
<1>6. P(w)
  BY <1>4, <1>5
<1>7. Width(count) = CHOOSE v \in 1..(2 * count + 3) : P(v)
  BY DEF Width
<1> HIDE DEF P
<1>8. Width(count) \in 1..(2 * count + 3) /\ P(Width(count))
  BY <1>4, <1>6, <1>7
<1>9. QED
  BY <1>8 DEF P

\* What the keys are the digits of: multiples of a step, all within the width.
ValueOf(count, i) == i * (Capacity[Width(count)] \div (count + 1))

LEMMA ValuesIn ==
    ASSUME NEW count \in Nat, NEW i \in 1..count
    PROVE  /\ ValueOf(count, i) \in Nat
           /\ ValueOf(count, i) < Capacity[Width(count)]
           /\ \A j \in 1..count : i < j => ValueOf(count, i) < ValueOf(count, j)
           /\ i + 1 \in 1..count => ValueOf(count, i) + 2 <= ValueOf(count, i + 1)
<1> DEFINE room == Capacity[Width(count)]
           step == room \div (count + 1)
<1>1. room \in Nat /\ room > 2 * (count + 1)
  BY WidthIs, CapacityGrows
<1> HIDE DEF room
<1>2. /\ step \in Nat /\ (count + 1) * step \in Nat
      /\ (count + 1) * step <= room /\ room < (count + 1) * step + (count + 1)
  BY <1>1, QuotientIs
<1> HIDE DEF step
<1>3. step >= 2
  <2> SUFFICES ASSUME step <= 1 PROVE FALSE
    BY <1>2
  <2>1. step = 0 \/ step = 1
    BY <1>2
  <2>2. (count + 1) * 0 = 0 /\ (count + 1) * 1 = count + 1
    OBVIOUS
  <2>3. QED
    BY <1>1, <1>2, <2>1, <2>2
<1>4. ASSUME NEW x \in Nat, NEW y \in Nat, x < y
      PROVE  x * step \in Nat /\ y * step \in Nat /\ x * step < y * step
  <2>1. y * step = x * step + (y - x) * step /\ (y - x) * step >= y - x
    BY <1>2, <1>3, <1>4
  <2>2. QED
    BY <1>2, <1>4, <2>1
<1>5. ValueOf(count, i) = i * step /\ \A j \in 1..count : ValueOf(count, j) = j * step
  BY DEF ValueOf, step, room
<1>6. i * step \in Nat /\ i * step < (count + 1) * step
  BY <1>4
<1>7. (i + 1) * step = i * step + step
  BY <1>2
<1>8. i + 1 \in 1..count => ValueOf(count, i) + 2 <= ValueOf(count, i + 1)
  BY <1>2, <1>3, <1>5, <1>6, <1>7
<1>9. QED
  BY <1>1, <1>2, <1>4, <1>5, <1>6, <1>8 DEF room

\* The number the first m digits make.
Leading(count, i, m) == ValueOf(count, i) \div Capacity[Width(count) - m]

LEMMA LeadingIs ==
    ASSUME NEW count \in Nat, NEW i \in 1..count
    PROVE  /\ \A m \in 0..Width(count) : Leading(count, i, m) \in Nat
           /\ Leading(count, i, 0) = 0
           /\ Leading(count, i, Width(count)) = ValueOf(count, i)
           /\ \A m \in 1..Width(count) :
                 Leading(count, i, m) \div Base = Leading(count, i, m - 1)
<1> DEFINE w == Width(count)
           v == ValueOf(count, i)
<1>1. w \in Nat /\ v \in Nat /\ v < Capacity[w]
  BY WidthIs, ValuesIn
<1>2. \A m \in 0..w : w - m \in Nat /\ Capacity[w - m] \in Nat /\ Capacity[w - m] > 0
  BY <1>1, CapacityGrows
<1>3. \A m \in 0..w : Leading(count, i, m) = v \div Capacity[w - m]
  BY DEF Leading
<1> HIDE DEF w, v
<1>4. \A m \in 0..w : v \div Capacity[w - m] \in Nat
  BY <1>1, <1>2, QuotientIs
<1>5. v \div Capacity[w - 0] = 0
  <2>1. w - 0 = w /\ Capacity[w] \in Nat /\ Capacity[w] > 0
    BY <1>1, CapacityGrows
  <2> DEFINE c == Capacity[w]
  <2> HIDE DEF c
  <2>2. c \in Nat /\ c > 0 /\ c * 0 <= v /\ v < c * 0 + c
    BY <1>1, <2>1 DEF c
  <2>3. v \div c = 0
    BY <1>1, <2>2, QuotientOnly
  <2>4. QED
    BY <2>1, <2>3 DEF c
<1>6. v \div Capacity[w - w] = v
  <2>1. w - w = 0 /\ Capacity[0] = 1
    BY <1>1, CapacityIs
  <2>2. v \div 1 = v
    BY <1>1
  <2>3. QED
    BY <2>1, <2>2
<1>7. ASSUME NEW m \in 1..w
      PROVE  (v \div Capacity[w - m]) \div Base = v \div Capacity[w - (m - 1)]
  <2>1. w - m \in Nat /\ w - (m - 1) = (w - m) + 1
    BY <1>1
  <2>2. Capacity[w - (m - 1)] = Base * Capacity[w - m]
    BY <2>1, CapacityIs
  <2>3. Capacity[w - m] \in Nat /\ Capacity[w - m] > 0
    BY <1>2
  <2> DEFINE c == Capacity[w - m]
  <2> HIDE DEF c
  <2>4. c \in Nat /\ c > 0 /\ Base \in Nat /\ Base > 0
    BY <2>3, BaseAssumption DEF c
  <2>5. v \div (Base * c) = (v \div c) \div Base
    BY <1>1, <2>4, QuotientTwice
  <2>6. QED
    BY <2>2, <2>5 DEF c
<1>8. \A m \in 1..w : m \in 0..w /\ m - 1 \in 0..w
  BY <1>1
<1>9. 0 \in 0..w /\ w \in 0..w
  BY <1>1
<1>10. QED
  BY <1>3, <1>4, <1>5, <1>6, <1>7, <1>8, <1>9 DEF w, v

\* Every one of the keys spread evenly is a key, and starts with those digits.
LEMMA EvenKeyIs ==
    ASSUME NEW count \in Nat, NEW i \in 1..count
    PROVE  LET k == EvenKeys(count)[i] IN
           /\ k \in Keys
           /\ Len(k) >= Width(count)
           /\ \A m \in 1..Width(count) : k[m] = Leading(count, i, m) % Base
<1> DEFINE w == Width(count)
           s == Spread(count, i)
           k == IF s[Len(s)] = 0 THEN Append(s, Base \div 2) ELSE s
<1>1. w \in Nat \ {0}
  BY WidthIs
<1>2. s = [m \in 1..w |-> Leading(count, i, m) % Base]
  BY DEF Spread, Leading, ValueOf
<1>3. \A m \in 1..w : Leading(count, i, m) % Base \in Digits
  <2>1. \A m \in 1..w : Leading(count, i, m) \in Nat
    BY <1>1, LeadingIs
  <2>2. QED
    BY <2>1, BaseAssumption DEF Digits
<1>4. EvenKeys(count)[i] = k
  BY DEF EvenKeys
<1> HIDE DEF w, s
<1>5. s \in Seq(Digits) /\ Len(s) = w
  BY <1>1, <1>2, <1>3
<1>6. Base \div 2 \in Digits /\ Base \div 2 # 0
  BY BaseAssumption DEF Digits
<1>7. CASE s[Len(s)] = 0
  <2>1. k = Append(s, Base \div 2)
    BY <1>7
  <2>2. /\ k \in Seq(Digits) /\ Len(k) = w + 1 /\ k[w + 1] = Base \div 2
        /\ \A m \in 1..w : k[m] = s[m]
    BY <1>1, <1>5, <1>6, <2>1
  <2> HIDE DEF k
  <2>3. k \in Keys /\ Len(k) >= w
    BY <1>1, <1>6, <2>2 DEF Keys
  <2>4. \A m \in 1..w : k[m] = Leading(count, i, m) % Base
    BY <1>2, <2>2
  <2>5. QED
    BY <1>4, <2>3, <2>4 DEF w
<1>8. CASE s[Len(s)] # 0
  BY <1>1, <1>2, <1>4, <1>5, <1>8 DEF Keys, w
<1>9. QED
  BY <1>7, <1>8

\* Where two of them go apart is within the width, and the later has the higher
\* digit there.
LEMMA EvenKeysPart ==
    ASSUME NEW count \in Nat, NEW i \in 1..count, NEW j \in 1..count, i < j
    PROVE  \E n \in 1..Width(count) :
              /\ \A m \in 1..(n - 1) : EvenKeys(count)[i][m] = EvenKeys(count)[j][m]
              /\ EvenKeys(count)[i][n] < EvenKeys(count)[j][n]
              /\ Leading(count, i, n - 1) = Leading(count, j, n - 1)
<1> DEFINE even == EvenKeys(count)
           w == Width(count)
           a(m) == Leading(count, i, m)
           b(m) == Leading(count, j, m)
           T == {m \in 0..w : a(m) # b(m)}
<1>1. w \in Nat /\ ValueOf(count, i) \in Nat /\ ValueOf(count, j) \in Nat
      /\ ValueOf(count, i) < ValueOf(count, j)
  BY WidthIs, ValuesIn
<1>2. /\ \A m \in 0..w : a(m) \in Nat /\ b(m) \in Nat
      /\ a(0) = 0 /\ b(0) = 0
      /\ a(w) = ValueOf(count, i) /\ b(w) = ValueOf(count, j)
      /\ \A m \in 1..w : a(m) \div Base = a(m - 1) /\ b(m) \div Base = b(m - 1)
  BY LeadingIs
<1>3. /\ \A m \in 1..w : even[i][m] = a(m) % Base
      /\ \A m \in 1..w : even[j][m] = b(m) % Base
  BY EvenKeyIs
<1>4. \A m \in 0..w : a(m) <= b(m)
  <2> SUFFICES ASSUME NEW m \in 0..w PROVE a(m) <= b(m)
    OBVIOUS
  <2>1. w - m \in Nat /\ Capacity[w - m] \in Nat /\ Capacity[w - m] > 0
    BY <1>1, CapacityGrows
  <2> DEFINE c == Capacity[w - m]
  <2> HIDE DEF c
  <2>2. ValueOf(count, i) \div c <= ValueOf(count, j) \div c
    BY <1>1, <2>1, QuotientGrows DEF c
  <2>3. QED
    BY <2>2 DEF Leading, c
<1> HIDE DEF even, w, a, b
<1>5. PICK n \in T : \A m \in T : n <= m
  <2>1. w \in T
    BY <1>1, <1>2
  <2>2. T \in SUBSET Nat /\ T # {}
    BY <1>1, <2>1
  <2> HIDE DEF T
  <2>3. QED
    BY <2>2, LeastNat
<1>6. n \in 1..w /\ a(n) # b(n) /\ n - 1 \in 0..w
  BY <1>1, <1>2
<1>7. \A m \in 0..(n - 1) : a(m) = b(m)
  BY <1>1, <1>5, <1>6
<1>8. \A m \in 1..(n - 1) : even[i][m] = even[j][m]
  BY <1>1, <1>3, <1>6, <1>7
<1>9. even[i][n] < even[j][n]
  <2>1. a(n) \in Nat /\ b(n) \in Nat /\ a(n) < b(n) /\ a(n) \div Base = b(n) \div Base
    BY <1>1, <1>2, <1>4, <1>6, <1>7
  <2>2. \A x \in Nat : x = Base * (x \div Base) + (x % Base) /\ x % Base \in Nat
                       /\ Base * (x \div Base) \in Nat
    BY BaseAssumption
  <2>3. a(n) % Base < b(n) % Base
    BY <2>1, <2>2
  <2>4. QED
    BY <1>3, <1>6, <2>3
<1>10. a(n - 1) = b(n - 1)
  BY <1>1, <1>6, <1>7
<1>11. QED
  BY <1>6, <1>8, <1>9, <1>10 DEF even, w, a, b

\* The keys rewriteKeys gives a collection are keys, and sort one way: whatever
\* the base, and however many elements there are.
THEOREM EvenKeysInOrder ==
    ASSUME NEW count \in Nat
    PROVE  LET even == EvenKeys(count) IN
           /\ even \in Seq(Keys) /\ Len(even) = count
           /\ \A i, j \in 1..count : i < j => Less(even[i], even[j])
<1> DEFINE even == EvenKeys(count)
           w == Width(count)
<1>1. even \in Seq(Keys) /\ Len(even) = count
  <2>1. even = [i \in 1..count |-> even[i]]
    BY DEF EvenKeys
  <2>2. \A i \in 1..count : even[i] \in Keys
    BY EvenKeyIs
  <2> HIDE DEF even
  <2>3. QED
    BY <2>1, <2>2
<1>2. ASSUME NEW i \in 1..count, NEW j \in 1..count, i < j PROVE Less(even[i], even[j])
  <2>1. w \in Nat /\ even[i] \in Keys /\ even[j] \in Keys
        /\ Len(even[i]) >= w /\ Len(even[j]) >= w
    BY WidthIs, EvenKeyIs
  <2>2. PICK n \in 1..w : /\ \A m \in 1..(n - 1) : even[i][m] = even[j][m]
                          /\ even[i][n] < even[j][n]
    BY <1>2, EvenKeysPart
  <2> HIDE DEF even, w
  <2>3. Len(even[i]) \in Nat /\ Len(even[j]) \in Nat
    BY <2>1, LastDigit
  <2>4. n \in 1..Len(even[j]) /\ \A m \in 1..(n - 1) : m <= Len(even[i])
    BY <2>1, <2>3
  <2>5. QED
    BY <2>2, <2>4 DEF Less
<1>3. QED
  BY <1>1, <1>2

\* Between two neighbours spread evenly there is a key no longer than they are
\* wide: they are two steps or more apart.
LEMMA EvenKeysHaveRoom ==
    ASSUME NEW count \in Nat, NEW i \in 1..(count - 1)
    PROVE  Len(OrderKeyBetween(EvenKeys(count)[i], EvenKeys(count)[i + 1])) <= Width(count)
<1> DEFINE low == EvenKeys(count)[i]
           high == EvenKeys(count)[i + 1]
           w == Width(count)
           n == Shared(low, high)
           l == Digit(low, n + 1)
           h == high[n + 1]
<1>0. i \in 1..count /\ i + 1 \in 1..count /\ i < i + 1
  OBVIOUS
<1>1. /\ w \in Nat \ {0}
      /\ low \in Keys /\ Len(low) >= w /\ high \in Keys /\ Len(high) >= w
      /\ \A m \in 1..w : low[m] = Leading(count, i, m) % Base
      /\ \A m \in 1..w : high[m] = Leading(count, i + 1, m) % Base
  BY <1>0, WidthIs, EvenKeyIs
<1>2. Less(low, high)
  BY <1>0, EvenKeysInOrder
<1>3. PICK a \in 1..w : /\ \A m \in 1..(a - 1) : low[m] = high[m]
                        /\ low[a] < high[a]
                        /\ Leading(count, i, a - 1) = Leading(count, i + 1, a - 1)
  BY <1>0, EvenKeysPart
<1> HIDE DEF low, high, w
<1>4. /\ n \in 0..(Len(high) - 1)
      /\ \A m \in 1..n : Digit(low, m) = high[m]
      /\ l < h
  BY <1>1, <1>2, SharedIs DEF Ends
<1>5. /\ Len(low) \in Nat /\ \A m \in 1..Len(low) : low[m] \in Digits /\ Digit(low, m) = low[m]
      /\ Len(high) \in Nat /\ \A m \in 1..Len(high) : high[m] \in Digits
  BY <1>1, LastDigit
<1>6. n < a
  <2> SUFFICES ASSUME a <= n PROVE FALSE
    BY <1>1, <1>4, <1>5
  <2>1. a \in 1..n /\ a \in 1..Len(low) /\ a \in 1..Len(high)
    BY <1>1, <1>4, <1>5
  <2>2. low[a] = high[a] /\ low[a] \in Nat
    BY <1>4, <1>5, <2>1 DEF Digits
  <2>3. QED
    BY <1>3, <2>2
<1>7. OrderKeyBetween(low, high) = Midpoint(low, high)
  BY <1>1 DEF OrderKeyBetween, Keys, NoKey
<1>8. Midpoint(low, high) = IF h - l > 1 THEN Upto(high, n, Halfway(l, h))
                            ELSE IF Len(high) > n + 1 THEN Upto(high, n, h)
                            ELSE Above(low, n + 1)
  BY <1>1 DEF Midpoint, Keys, NoKey
<1>9. n \in Nat /\ n + 1 <= w /\ n + 1 \in 1..Len(high)
  BY <1>1, <1>4, <1>5, <1>6
<1>10. l \in Digits /\ h \in Digits
  BY <1>1, <1>5, <1>9, KeyTypes DEF Ends
<1>11. \A d : Len(Upto(high, n, d)) = n + 1
  BY <1>9 DEF Upto
<1>12. h - l > 1 \/ Len(high) > n + 1
  <2> SUFFICES ASSUME ~ (h - l > 1), ~ (Len(high) > n + 1) PROVE FALSE
    OBVIOUS
  <2>1. h = l + 1
    BY <1>4, <1>10, BaseAssumption DEF Digits
  <2>2. n + 1 = w /\ a = w
    BY <1>1, <1>5, <1>6, <1>9
  <2>3. w \in 1..w /\ w \in 1..Len(low)
    BY <1>1, <1>5
  <2> DEFINE x == Leading(count, i, w)
             y == Leading(count, i + 1, w)
  <2>4. h = y % Base /\ l = x % Base
    BY <1>1, <1>5, <2>2, <2>3
  <2>5. /\ x \in Nat /\ y \in Nat /\ x + 2 <= y
        /\ x \div Base = Leading(count, i, w - 1)
        /\ y \div Base = Leading(count, i + 1, w - 1)
    <3>1. 0 \in 0..w /\ w \in 0..w /\ w \in 1..w
      BY <1>1
    <3>2. /\ x \in Nat /\ y \in Nat
          /\ x = ValueOf(count, i) /\ y = ValueOf(count, i + 1)
          /\ x \div Base = Leading(count, i, w - 1)
          /\ y \div Base = Leading(count, i + 1, w - 1)
      BY <1>0, <3>1, LeadingIs DEF w
    <3>3. ValueOf(count, i) + 2 <= ValueOf(count, i + 1)
      BY <1>0, ValuesIn
    <3>4. QED
      BY <3>2, <3>3
  <2>6. x \div Base = y \div Base
    BY <1>3, <2>2, <2>5
  <2> HIDE DEF x, y, l, h
  <2>7. \A z \in Nat : z = Base * (z \div Base) + (z % Base) /\ z % Base \in Nat
                       /\ Base * (z \div Base) \in Nat
    BY BaseAssumption
  <2>8. y - x = h - l
    <3> DEFINE c == Base * (x \div Base)
               d == Base * (y \div Base)
    <3>1. c \in Nat /\ x = c + l /\ l \in Nat
      BY <2>4, <2>5, <2>7
    <3>2. d \in Nat /\ y = d + h /\ h \in Nat
      BY <2>4, <2>5, <2>7
    <3>3. c = d
      BY <2>6
    <3> HIDE DEF c, d
    <3>4. QED
      BY <3>1, <3>2, <3>3
  <2>9. QED
    BY <1>10, <2>1, <2>5, <2>8 DEF Digits
<1>13. Len(OrderKeyBetween(low, high)) = n + 1
  BY <1>7, <1>8, <1>11, <1>12
<1>14. QED
  BY <1>9, <1>13 DEF low, high, w

----------------------------------------------------------------------------
(***************************************************************************)
(* midpoint, call by call.  A function that answers every call of the      *)
(* recursion is there (MadeAnswers) and is the only one (AnswersAreMade,   *)
(* by counting digits), so the recursive definition has a value, which is  *)
(* the midpoint the models use.                                            *)
(***************************************************************************)

\* What is left of a key is one, or nothing, and has the digits that follow.
LEMMA TailIs ==
    ASSUME NEW k \in Ends, NEW n \in Nat
    PROVE  LET t == TailOf(k, n) IN
           /\ t \in Ends
           /\ Len(t) = IF n >= Len(k) THEN 0 ELSE Len(k) - n
           /\ \A i \in Nat : i > 0 => Digit(t, i) = Digit(k, n + i)
<1> DEFINE t == TailOf(k, n)
<1>1. k \in Seq(Digits) /\ Len(k) \in Nat /\ \A i \in Nat : i > Len(k) => Digit(k, i) = 0
  BY KeyTypes
<1>2. CASE n >= Len(k)
  <2>1. t = << >> /\ Len(t) = 0
    BY <1>2 DEF TailOf, NoKey
  <2>2. \A i \in Nat : i > 0 => Digit(t, i) = 0
    BY <2>1 DEF Digit
  <2>3. \A i \in Nat : i > 0 => Digit(k, n + i) = 0
    BY <1>1, <1>2
  <2>4. QED
    BY <1>2, <2>1, <2>2, <2>3 DEF Ends, NoKey
<1>3. CASE ~ (n >= Len(k))
  <2>1. t = SubSeq(k, n + 1, Len(k))
    BY <1>3 DEF TailOf
  <2>2. t \in Seq(Digits) /\ Len(t) = Len(k) - n /\ \A i \in 1..(Len(k) - n) : t[i] = k[n + i]
    BY <1>1, <1>3, <2>1
  <2> HIDE DEF t
  <2>3. Len(k) - n \in 1..(Len(k) - n) /\ n + (Len(k) - n) = Len(k)
    BY <1>1, <1>3
  <2>4. k # << >> /\ k[Len(k)] # 0
    BY <1>1, <1>3 DEF Ends, NoKey, Keys
  <2>5. t \in Keys
    <3>1. t[Len(t)] = k[Len(k)] /\ Len(t) > 0
      BY <1>1, <1>3, <2>2, <2>3
    <3>2. QED
      BY <2>2, <2>4, <3>1 DEF Keys
  <2>6. ASSUME NEW i \in Nat, i > 0 PROVE Digit(t, i) = Digit(k, n + i)
    <3>1. CASE i <= Len(k) - n
      BY <1>1, <1>3, <2>2, <2>6, <3>1 DEF Digit
    <3>2. CASE ~ (i <= Len(k) - n)
      BY <1>1, <1>3, <2>2, <2>6, <3>2 DEF Digit
    <3>3. QED
      BY <3>1, <3>2
  <2>7. QED
    BY <1>3, <2>2, <2>5, <2>6 DEF Ends, t
<1>4. QED
  BY <1>2, <1>3

\* A tail of a tail is a tail.
LEMMA TailOfTail ==
    ASSUME NEW k \in Ends, NEW n \in Nat, NEW m \in Nat
    PROVE  /\ TailOf(TailOf(k, n), m) = TailOf(k, n + m)
           /\ TailOf(k, 0) = k
<1>1. k \in Seq(Digits) /\ Len(k) \in Nat
  BY KeyTypes
<1> DEFINE t == TailOf(k, n)
           a == TailOf(t, m)
           b == TailOf(k, n + m)
<1>2. /\ t \in Ends /\ Len(t) = (IF n >= Len(k) THEN 0 ELSE Len(k) - n)
      /\ \A i \in Nat : i > 0 => Digit(t, i) = Digit(k, n + i)
  BY TailIs
<1> HIDE DEF t
<1>3. /\ a \in Ends /\ Len(a) = (IF m >= Len(t) THEN 0 ELSE Len(t) - m)
      /\ \A i \in Nat : i > 0 => Digit(a, i) = Digit(t, m + i)
  BY <1>2, TailIs
<1>4. /\ b \in Ends /\ Len(b) = (IF n + m >= Len(k) THEN 0 ELSE Len(k) - (n + m))
      /\ \A i \in Nat : i > 0 => Digit(b, i) = Digit(k, n + m + i)
  <2>1. n + m \in Nat
    OBVIOUS
  <2>2. QED
    BY <2>1, TailIs
<1> HIDE DEF a, b
<1>5. a \in Seq(Digits) /\ b \in Seq(Digits) /\ Len(a) = Len(b) /\ Len(a) \in Nat
  <2>1. a \in Seq(Digits) /\ b \in Seq(Digits) /\ Len(a) \in Nat
    BY <1>3, <1>4, KeyTypes
  <2>2. Len(a) = Len(b)
    <3>1. ASSUME NEW K \in Nat, NEW T, T = IF n >= K THEN 0 ELSE K - n
          PROVE  (IF m >= T THEN 0 ELSE T - m) = IF n + m >= K THEN 0 ELSE K - (n + m)
      BY <3>1
    <3>2. QED
      BY <1>1, <1>2, <1>3, <1>4, <3>1, Zenon
  <2>3. QED
    BY <2>1, <2>2
<1>6. \A i \in 1..Len(a) : a[i] = b[i]
  <2>1. \A i \in 1..Len(a) : Digit(a, i) = a[i] /\ Digit(b, i) = b[i]
    BY <1>5 DEF Digit
  <2>2. ASSUME NEW i \in 1..Len(a) PROVE Digit(a, i) = Digit(b, i)
    <3>1. i \in Nat /\ i > 0 /\ m + i \in Nat /\ m + i > 0 /\ n + (m + i) = n + m + i
      BY <1>5
    <3>2. QED
      BY <1>2, <1>3, <1>4, <3>1
  <2>3. QED
    BY <2>1, <2>2
<1>7. a = b
  BY <1>5, <1>6
<1>8. TailOf(k, 0) = k
  <2>1. CASE k = << >>
    BY <2>1 DEF TailOf, NoKey
  <2>2. CASE k # << >>
    <3>1. TailOf(k, 0) = SubSeq(k, 1, Len(k))
      BY <1>1, <2>2 DEF TailOf
    <3>2. QED
      BY <1>1, <3>1
  <2>3. QED
    BY <2>1, <2>2
<1>9. QED
  BY <1>7, <1>8 DEF a, b, t

\* There is one number of digits that leaves room.
LEMMA RoomOnly ==
    ASSUME NEW k \in Ends, NEW n \in Nat
    PROVE  /\ Room(k, n) \in Nat /\ Room(k, n) >= n
           /\ Digit(k, Room(k, n) + 1) # Base - 1
           /\ \A i \in (n + 1)..Room(k, n) : Digit(k, i) = Base - 1
           /\ \A m \in Nat :
                 /\ m >= n
                 /\ Digit(k, m + 1) # Base - 1
                 /\ \A i \in (n + 1)..m : Digit(k, i) = Base - 1
                 => m = Room(k, n)
<1> DEFINE r == Room(k, n)
           P(q) == /\ Digit(k, q + 1) # Base - 1
                   /\ \A i \in (n + 1)..q : Digit(k, i) = Base - 1
<1>1. Len(k) \in Nat
  BY KeyTypes
<1>2. \E q \in n..(n + Len(k)) : P(q)
  <2> DEFINE S == {m \in Nat : m >= n /\ Digit(k, m + 1) # Base - 1}
  <2>1. n + Len(k) \in S
    BY KeyTypes, BaseAssumption
  <2>2. PICK m \in S : \A j \in S : m <= j
    BY <2>1, LeastNat
  <2>3. m \in n..(n + Len(k)) /\ Digit(k, m + 1) # Base - 1
    <3>1. m \in Nat /\ m >= n /\ Digit(k, m + 1) # Base - 1
      OBVIOUS
    <3>2. m <= n + Len(k)
      BY <2>1, <2>2
    <3>3. QED
      BY <1>1, <3>1, <3>2
  <2>4. ASSUME NEW i \in (n + 1)..m PROVE Digit(k, i) = Base - 1
    <3>1. i - 1 \in Nat /\ i - 1 >= n /\ i - 1 < m /\ (i - 1) + 1 = i
      BY <2>3
    <3>2. i - 1 \notin S
      BY <2>2, <3>1
    <3>3. QED
      BY <3>1, <3>2
  <2>5. QED
    BY <2>3, <2>4
<1>3. r = CHOOSE q \in n..(n + Len(k)) : P(q)
  BY DEF Room
<1> HIDE DEF P
<1>4. r \in n..(n + Len(k)) /\ P(r)
  BY <1>2, <1>3
<1> HIDE DEF r
<1>5. r \in Nat /\ r >= n
  BY <1>1, <1>4
<1>6. ASSUME NEW m \in Nat, m >= n, P(m) PROVE m = r
  <2>1. ASSUME m < r PROVE FALSE
    <3>1. m + 1 \in (n + 1)..r
      BY <1>5, <1>6, <2>1
    <3>2. QED
      BY <1>4, <1>6, <3>1 DEF P
  <2>2. ASSUME r < m PROVE FALSE
    <3>1. r + 1 \in (n + 1)..m
      BY <1>5, <1>6, <2>2
    <3>2. QED
      BY <1>4, <1>6, <3>1 DEF P
  <2>3. QED
    BY <1>5, <2>1, <2>2
<1>7. QED
  BY <1>4, <1>5, <1>6 DEF P, r

\* The first digits of a key.
First(k, n) == [i \in 1..n |-> Digit(k, i)]

\* Two sequences, one after the other.
LEMMA Joined ==
    ASSUME NEW S, NEW a \in Seq(S), NEW b \in Seq(S)
    PROVE  /\ a \o b \in Seq(S) /\ Len(a \o b) = Len(a) + Len(b)
           /\ \A i \in 1..Len(a) : (a \o b)[i] = a[i]
           /\ \A i \in 1..Len(b) : (a \o b)[Len(a) + i] = b[i]
<1>1. a \o b \in Seq(S) /\ Len(a \o b) = Len(a) + Len(b)
  OBVIOUS
<1>2. \A i \in 1..Len(a) : (a \o b)[i] = a[i]
  OBVIOUS
<1>3. ASSUME NEW i \in 1..Len(b) PROVE (a \o b)[Len(a) + i] = b[i]
  <2>1. Len(a) \in Nat /\ Len(b) \in Nat
    OBVIOUS
  <2>2. Len(a) + i \in 1..(Len(a) + Len(b)) /\ ~ (Len(a) + i <= Len(a)) /\ (Len(a) + i) - Len(a) = i
    BY <2>1
  <2>3. QED
    BY <2>1, <2>2
<1>4. QED
  BY <1>1, <1>2, <1>3

\* What joins two sequences is the sequence with their elements.
LEMMA JoinedOnly ==
    ASSUME NEW S, NEW a \in Seq(S), NEW b \in Seq(S), NEW c \in Seq(S),
           Len(c) = Len(a) + Len(b),
           \A i \in 1..Len(a) : c[i] = a[i],
           \A i \in 1..Len(b) : c[Len(a) + i] = b[i]
    PROVE  c = a \o b
<1> DEFINE d == a \o b
<1>1. /\ d \in Seq(S) /\ Len(d) = Len(a) + Len(b)
      /\ \A i \in 1..Len(a) : d[i] = a[i]
      /\ \A i \in 1..Len(b) : d[Len(a) + i] = b[i]
  BY Joined
<1> HIDE DEF d
<1>2. Len(a) \in Nat /\ Len(b) \in Nat
  OBVIOUS
<1>3. ASSUME NEW i \in 1..Len(c) PROVE c[i] = d[i]
  <2>1. CASE i <= Len(a)
    BY <1>1, <1>2, <2>1
  <2>2. CASE ~ (i <= Len(a))
    <3>1. i - Len(a) \in 1..Len(b) /\ Len(a) + (i - Len(a)) = i
      BY <1>2, <2>2
    <3>2. QED
      BY <1>1, <3>1
  <2>3. QED
    BY <2>1, <2>2
<1>4. c = d
  BY <1>1, <1>3
<1>5. QED
  BY <1>4 DEF d

\* The first digits are digits.
LEMMA FirstIs ==
    ASSUME NEW k \in Ends, NEW n \in Nat
    PROVE  /\ First(k, n) \in Seq(Digits) /\ Len(First(k, n)) = n
           /\ \A i \in 1..n : First(k, n)[i] = Digit(k, i)
<1>1. \A i \in 1..n : Digit(k, i) \in Digits
  BY KeyTypes
<1>2. First(k, n) \in [1..n -> Digits]
  BY <1>1 DEF First
<1>3. First(k, n) \in Seq(Digits) /\ Len(First(k, n)) = n
  BY <1>2
<1>4. QED
  BY <1>3 DEF First

\* What Upto makes, digit by digit, whatever its last is.
LEMMA UptoIs ==
    ASSUME NEW k \in Ends, NEW n \in Nat, NEW d \in Digits
    PROVE  /\ Upto(k, n, d) \in Seq(Digits) /\ Len(Upto(k, n, d)) = n + 1
           /\ \A i \in 1..n : Upto(k, n, d)[i] = Digit(k, i)
           /\ Upto(k, n, d)[n + 1] = d
<1> DEFINE r == Upto(k, n, d)
<1>1. \A i \in 1..(n + 1) : (IF i <= n THEN Digit(k, i) ELSE d) \in Digits
  BY KeyTypes
<1>2. r \in [1..(n + 1) -> Digits]
  BY <1>1 DEF Upto
<1>3. r \in Seq(Digits) /\ Len(r) = n + 1
  BY <1>2
<1>4. QED
  BY <1>3 DEF Upto

\* A key up to some digit is its first digits and what is left up to that digit.
LEMMA UptoJoins ==
    ASSUME NEW k \in Ends, NEW n \in Nat, NEW m \in Nat, NEW d \in Digits
    PROVE  Upto(k, n + m, d) = First(k, n) \o Upto(TailOf(k, n), m, d)
<1> DEFINE a == First(k, n)
           t == TailOf(k, n)
           b == Upto(t, m, d)
           c == Upto(k, n + m, d)
<1>1. a \in Seq(Digits) /\ Len(a) = n /\ \A i \in 1..n : a[i] = Digit(k, i)
  BY FirstIs
<1>2. t \in Ends /\ \A i \in Nat : i > 0 => Digit(t, i) = Digit(k, n + i)
  BY TailIs
<1> HIDE DEF a, t
<1>3. /\ b \in Seq(Digits) /\ Len(b) = m + 1
      /\ \A i \in 1..m : b[i] = Digit(t, i)
      /\ b[m + 1] = d
  BY <1>2, UptoIs
<1>4. /\ c \in Seq(Digits) /\ Len(c) = n + m + 1
      /\ \A i \in 1..(n + m) : c[i] = Digit(k, i)
      /\ c[n + m + 1] = d
  <2>1. n + m \in Nat
    OBVIOUS
  <2>2. QED
    BY <2>1, UptoIs
<1> HIDE DEF b, c
<1>5. \A i \in 1..Len(a) : c[i] = a[i]
  BY <1>1, <1>4
<1>6. ASSUME NEW i \in 1..Len(b) PROVE c[Len(a) + i] = b[i]
  <2>1. CASE i = m + 1
    <3>1. Len(a) + i = n + m + 1
      BY <1>1, <2>1
    <3>2. QED
      BY <1>3, <1>4, <2>1, <3>1
  <2>2. CASE i # m + 1
    <3>1. i \in 1..m /\ n + i \in 1..(n + m)
      BY <1>3, <2>2
    <3>2. i \in Nat /\ i > 0
      BY <3>1
    <3>3. QED
      BY <1>1, <1>2, <1>3, <1>4, <3>1, <3>2
  <2>3. QED
    BY <2>1, <2>2
<1>7. Len(c) = Len(a) + Len(b)
  BY <1>1, <1>3, <1>4
<1>8. c = a \o b
  BY <1>1, <1>3, <1>4, <1>5, <1>6, <1>7, JoinedOnly
<1>9. QED
  BY <1>8 DEF a, b, c, t

\* A key past another that keeps some digits is those and one past what is left.
LEMMA AboveJoins ==
    ASSUME NEW k \in Ends, NEW n \in Nat
    PROVE  Above(k, n) = First(k, n) \o Above(TailOf(k, n), 0)
<1> DEFINE r == Room(k, n)
           t == TailOf(k, n)
           m == r - n
           c == Digit(k, r + 1)
           d == Halfway(c, Base)
<1>1. /\ r \in Nat /\ r >= n /\ Digit(k, r + 1) # Base - 1
      /\ \A i \in (n + 1)..r : Digit(k, i) = Base - 1
  BY RoomOnly
<1>2. t \in Ends /\ \A i \in Nat : i > 0 => Digit(t, i) = Digit(k, n + i)
  BY TailIs
<1> HIDE DEF r, t
<1>3. m \in Nat /\ n + m = r /\ n + (m + 1) = r + 1
  BY <1>1
<1> HIDE DEF m
<1>4. Digit(t, m + 1) = c
  BY <1>2, <1>3
<1>5. m = Room(t, 0)
  <2>1. Digit(t, m + 1) # Base - 1
    BY <1>1, <1>4
  <2>2. ASSUME NEW i \in (0 + 1)..m PROVE Digit(t, i) = Base - 1
    <3>1. i \in Nat /\ i > 0 /\ n + i \in (n + 1)..r
      BY <1>3
    <3>2. QED
      BY <1>1, <1>2, <3>1
  <2>3. QED
    BY <1>2, <1>3, <2>1, <2>2, RoomOnly
<1>6. d \in Digits
  <2>1. r + 1 \in Nat /\ r + 1 > 0
    BY <1>1
  <2>2. c \in Digits /\ c # Base - 1
    BY <1>1, <2>1, KeyTypes
  <2>3. c \in Nat /\ c < Base - 1
    BY <2>2, BaseAssumption DEF Digits
  <2> HIDE DEF c
  <2>4. d \in Nat /\ d < Base
    BY <2>3, BaseAssumption, HalfwayBetween
  <2>5. QED
    BY <2>4, BaseAssumption DEF Digits
<1>7. Above(k, n) = Upto(k, n + m, d)
  BY <1>3 DEF Above, r
<1>8. Above(t, 0) = Upto(t, m, d)
  BY <1>4, <1>5 DEF Above
<1> HIDE DEF d
<1>9. Upto(k, n + m, d) = First(k, n) \o Upto(t, m, d)
  BY <1>3, <1>6, UptoJoins DEF t
<1>10. QED
  BY <1>7, <1>8, <1>9 DEF t

\* A key past another, as midpoint goes about it where there is no higher key.
LEMMA AboveUnfolds ==
    ASSUME NEW k \in Ends
    PROVE  Above(k, 0) = IF Base - Digit(k, 1) > 1 THEN <<Halfway(Digit(k, 1), Base)>>
                         ELSE <<Digit(k, 1)>> \o Above(TailOf(k, 1), 0)
<1> DEFINE c == Digit(k, 1)
<1>1. c \in Digits /\ c \in Nat /\ Base \in Nat
  BY KeyTypes, BaseAssumption DEF Digits
<1>2. Base - c > 1 <=> c # Base - 1
  BY <1>1 DEF Digits
<1>3. CASE c # Base - 1
  <2>1. Room(k, 0) = 0
    <3>1. Digit(k, 0 + 1) # Base - 1 /\ \A i \in (0 + 1)..0 : Digit(k, i) = Base - 1
      BY <1>3
    <3>2. QED
      BY <3>1, RoomOnly
  <2>2. Above(k, 0) = Upto(k, 0, Halfway(c, Base))
    BY <2>1 DEF Above
  <2>3. \A x : Upto(k, 0, x) = <<x>>
    BY DEF Upto
  <2>4. QED
    BY <1>2, <1>3, <2>2, <2>3
<1>4. CASE c = Base - 1
  <2>1. Room(k, 1) = Room(k, 0)
    <3>1. /\ Room(k, 1) \in Nat /\ Room(k, 1) >= 1 /\ Digit(k, Room(k, 1) + 1) # Base - 1
          /\ \A i \in 2..Room(k, 1) : Digit(k, i) = Base - 1
      BY RoomOnly
    <3>2. ASSUME NEW i \in 1..Room(k, 1) PROVE Digit(k, i) = Base - 1
      <4>1. i = 1 \/ i \in 2..Room(k, 1)
        BY <3>1
      <4>2. QED
        BY <1>4, <3>1, <4>1
    <3>3. QED
      BY <3>1, <3>2, RoomOnly
  <2>2. Above(k, 0) = Above(k, 1)
    BY <2>1 DEF Above
  <2>3. Above(k, 1) = First(k, 1) \o Above(TailOf(k, 1), 0)
    BY AboveJoins
  <2>4. First(k, 1) = <<c>>
    BY DEF First
  <2>5. QED
    BY <1>2, <1>4, <2>2, <2>3, <2>4
<1>5. QED
  BY <1>3, <1>4

\* One goes on like another for so many digits and no more.
SharesOnly(low, high, n) ==
    /\ \A i \in 1..n : Digit(low, i) = high[i]
    /\ n = Len(high) \/ Digit(low, n + 1) # high[n + 1]

\* How far a key goes on like another is one number.
LEMMA AlikeIs ==
    ASSUME NEW low \in Ends, NEW high \in Ends
    PROVE  /\ Alike(low, high) \in 0..Len(high) /\ SharesOnly(low, high, Alike(low, high))
           /\ \A n \in 0..Len(high) : SharesOnly(low, high, n) => n = Alike(low, high)
<1> DEFINE a == Alike(low, high)
<1>1. Len(high) \in Nat
  BY KeyTypes
<1>2. \E n \in 0..Len(high) : SharesOnly(low, high, n)
  <2> DEFINE S == {n \in 0..Len(high) : n = Len(high) \/ Digit(low, n + 1) # high[n + 1]}
  <2>1. S \in SUBSET Nat /\ Len(high) \in S
    BY <1>1
  <2>2. PICK n \in S : \A m \in S : n <= m
    <3> HIDE DEF S
    <3>1. QED
      BY <2>1, LeastNat
  <2>3. ASSUME NEW i \in 1..n PROVE Digit(low, i) = high[i]
    <3>1. i - 1 \in 0..Len(high) /\ i - 1 < n /\ (i - 1) + 1 = i /\ i - 1 # Len(high)
      BY <1>1
    <3>2. n \in Nat /\ i - 1 \in Nat
      BY <1>1, <3>1
    <3>3. i - 1 \notin S
      <4> HIDE DEF S
      <4>1. QED
        BY <2>2, <3>1, <3>2
    <3>4. QED
      BY <3>1, <3>3
  <2>4. QED
    BY <2>3 DEF SharesOnly
<1>3. a = CHOOSE n \in 0..Len(high) : SharesOnly(low, high, n)
  BY DEF Alike, SharesOnly
<1>4. a \in 0..Len(high) /\ SharesOnly(low, high, a)
  BY <1>2, <1>3
<1> HIDE DEF a
<1>5. ASSUME NEW n \in 0..Len(high), SharesOnly(low, high, n) PROVE n = a
  <2>1. ASSUME n < a PROVE FALSE
    <3>1. n + 1 \in 1..a /\ n # Len(high)
      BY <1>1, <1>4, <2>1
    <3>2. QED
      BY <1>4, <1>5, <3>1 DEF SharesOnly
  <2>2. ASSUME a < n PROVE FALSE
    <3>1. a + 1 \in 1..n /\ a # Len(high)
      BY <1>1, <1>4, <2>2
    <3>2. QED
      BY <1>4, <1>5, <3>1 DEF SharesOnly
  <2>3. QED
    BY <1>1, <1>4, <2>1, <2>2
<1>6. QED
  BY <1>4, <1>5 DEF a

\* Nothing goes on like the end of the order.
LEMMA AlikeEnd ==
    ASSUME NEW low \in Ends
    PROVE  Alike(low, NoKey) = 0
<1>1. NoKey \in Ends /\ Len(NoKey) = 0
  BY DEF Ends, NoKey
<1>2. Alike(low, NoKey) \in 0..Len(NoKey)
  BY <1>1, AlikeIs
<1>3. QED
  BY <1>1, <1>2

\* Past what two share they go apart at once.
LEMMA AlikeTails ==
    ASSUME NEW low \in Ends, NEW high \in Ends
    PROVE  LET n == Alike(low, high) IN Alike(TailOf(low, n), TailOf(high, n)) = 0
<1> DEFINE n == Alike(low, high)
           r == TailOf(low, n)
           t == TailOf(high, n)
<1>1. n \in 0..Len(high) /\ SharesOnly(low, high, n) /\ Len(high) \in Nat
  BY AlikeIs, KeyTypes
<1> HIDE DEF n
<1>2. n \in Nat
  BY <1>1
<1>3. /\ r \in Ends /\ Digit(r, 1) = Digit(low, n + 1)
      /\ t \in Ends /\ Digit(t, 1) = Digit(high, n + 1)
      /\ Len(t) = IF n >= Len(high) THEN 0 ELSE Len(high) - n
  BY <1>2, TailIs
<1> HIDE DEF r, t
<1>4. Len(t) \in Nat
  BY <1>3, KeyTypes
<1>5. SharesOnly(r, t, 0)
  <2>1. CASE n = Len(high)
    <3>1. Len(t) = 0
      BY <1>1, <1>3, <2>1
    <3>2. QED
      BY <3>1 DEF SharesOnly
  <2>2. CASE n # Len(high)
    <3>1. 1 <= Len(t) /\ n + 1 <= Len(high)
      BY <1>1, <1>3, <2>2
    <3>2. Digit(t, 1) = t[1] /\ Digit(high, n + 1) = high[n + 1]
      BY <3>1 DEF Digit
    <3>3. QED
      BY <1>1, <1>3, <2>2, <3>2 DEF SharesOnly
  <2>3. QED
    BY <2>1, <2>2
<1>6. 0 \in 0..Len(t)
  BY <1>4
<1>7. Alike(r, t) = 0
  BY <1>3, <1>5, <1>6, AlikeIs
<1>8. QED
  BY <1>7 DEF n, r, t

\* Of two in order, what is shared is less than the higher one.
LEMMA AlikeIsShared ==
    ASSUME NEW low \in Ends, NEW high \in Keys, Less(low, high)
    PROVE  Alike(low, high) = Shared(low, high)
<1> DEFINE s == Shared(low, high)
<1>1. /\ s \in 0..(Len(high) - 1)
      /\ \A i \in 1..s : Digit(low, i) = high[i]
      /\ Digit(low, s + 1) < high[s + 1]
  BY SharedIs
<1> HIDE DEF s
<1>2. Len(high) \in Nat /\ s \in 0..Len(high) /\ high \in Ends /\ s + 1 \in 1..Len(high) /\ s + 1 \in Nat /\ s + 1 > 0
  BY <1>1, LastDigit DEF Ends
<1>3. Digit(low, s + 1) # high[s + 1]
  <2>1. Digit(low, s + 1) \in Nat /\ high[s + 1] \in Nat
    BY <1>2, KeyTypes, LastDigit DEF Digits
  <2>2. QED
    BY <1>1, <2>1
<1>4. SharesOnly(low, high, s)
  BY <1>1, <1>3 DEF SharesOnly
<1>5. QED
  BY <1>2, <1>4, AlikeIs DEF s

\* midpoint of two that share nothing, and of any two, by Above.
Apart(low, high) ==
    LET l == Digit(low, 1)
        h == IF high = NoKey THEN Base ELSE high[1]
    IN  IF h - l > 1 THEN <<Halfway(l, h)>>
        ELSE IF Len(high) > 1 THEN <<h>>
        ELSE <<l>> \o Above(TailOf(low, 1), 0)

MadeOf(low, high) ==
    LET n == Alike(low, high)
    IN  IF n > 0 THEN SubSeq(high, 1, n) \o Apart(TailOf(low, n), TailOf(high, n))
        ELSE Apart(low, high)

\* One call of midpoint, its own calls answered by a function.
Call(f, pair) ==
    LET low == pair[1]
        high == pair[2]
        shared == Alike(low, high)
        l == Digit(low, 1)
        h == IF high = NoKey THEN Base ELSE high[1]
    IN  IF shared > 0
        THEN SubSeq(high, 1, shared) \o f[<<TailOf(low, shared), TailOf(high, shared)>>]
        ELSE IF h - l > 1 THEN <<Halfway(l, h)>>
        ELSE IF Len(high) > 1 THEN <<h>>
        ELSE <<l>> \o f[<<TailOf(low, 1), NoKey>>]

\* What midpoint may be called on, and a function that answers every call.
Pairs == Ends \X Ends

Answers(f) == \A pair \in Pairs : f[pair] = Call(f, pair)

\* What is made of a key and the end of the order.
LEMMA MadeOfEnd ==
    ASSUME NEW k \in Ends
    PROVE  MadeOf(k, NoKey) = Above(k, 0)
<1>1. Alike(k, NoKey) = 0 /\ Len(NoKey) = 0
  BY AlikeEnd DEF NoKey
<1>2. MadeOf(k, NoKey) = Apart(k, NoKey)
  BY <1>1 DEF MadeOf
<1>3. QED
  BY <1>1, <1>2, AboveUnfolds DEF Apart

\* That is an answer to every call.
LEMMA MadeAnswers == Answers([pair \in Pairs |-> MadeOf(pair[1], pair[2])])
<1> DEFINE g == [pair \in Pairs |-> MadeOf(pair[1], pair[2])]
<1>1. \A low, high \in Ends : g[<<low, high>>] = MadeOf(low, high)
  BY DEF Pairs
<1> HIDE DEF g
<1>2. NoKey \in Ends
  BY DEF Ends
<1>3. ASSUME NEW low \in Ends, NEW high \in Ends PROVE MadeOf(low, high) = Call(g, <<low, high>>)
  <2> DEFINE n == Alike(low, high)
  <2>1. n \in Nat
    BY AlikeIs, KeyTypes
  <2>2. TailOf(low, n) \in Ends /\ TailOf(high, n) \in Ends /\ TailOf(low, 1) \in Ends
    BY <2>1, TailIs
  <2>3. Alike(TailOf(low, n), TailOf(high, n)) = 0
    BY AlikeTails
  <2> HIDE DEF n
  <2>4. g[<<TailOf(low, n), TailOf(high, n)>>] = Apart(TailOf(low, n), TailOf(high, n))
    BY <1>1, <2>2, <2>3 DEF MadeOf
  <2>5. g[<<TailOf(low, 1), NoKey>>] = Above(TailOf(low, 1), 0)
    BY <1>1, <1>2, <2>2, MadeOfEnd
  <2>6. CASE n > 0
    BY <2>4, <2>6 DEF MadeOf, Call, n
  <2>7. CASE ~ (n > 0)
    BY <2>5, <2>7 DEF MadeOf, Call, Apart, n
  <2>8. QED
    BY <2>6, <2>7
<1>4. ASSUME NEW pair \in Pairs PROVE g[pair] = Call(g, pair)
  <2>1. PICK low \in Ends, high \in Ends : pair = <<low, high>>
    BY DEF Pairs
  <2>2. QED
    BY <1>1, <1>3, <2>1
<1>5. QED
  BY <1>4 DEF Answers, g

\* And it is the only one: each call leaves less to be done.
LEMMA AnswersAreMade ==
    ASSUME NEW f, Answers(f), NEW low \in Ends, NEW high \in Ends
    PROVE  f[<<low, high>>] = MadeOf(low, high)
<1> DEFINE Deep(l, h) == SubSeq(h, 1, Alike(l, h))
                             \o f[<<TailOf(l, Alike(l, h)), TailOf(h, Alike(l, h))>>]
           Flat(l, h) ==
               LET d == Digit(l, 1)
                   e == IF h = NoKey THEN Base ELSE h[1]
               IN  IF e - d > 1 THEN <<Halfway(d, e)>>
                   ELSE IF Len(h) > 1 THEN <<e>>
                   ELSE <<d>> \o f[<<TailOf(l, 1), NoKey>>]
<1>1. ASSUME NEW l \in Ends, NEW h \in Ends
      PROVE  f[<<l, h>>] = IF Alike(l, h) > 0 THEN Deep(l, h) ELSE Flat(l, h)
  <2>1. <<l, h>> \in Pairs /\ <<l, h>>[1] = l /\ <<l, h>>[2] = h
    BY DEF Pairs
  <2>2. f[<<l, h>>] = Call(f, <<l, h>>)
    BY <2>1 DEF Answers
  <2>3. QED
    BY <2>1, <2>2 DEF Call
<1> HIDE DEF Deep, Flat
<1>2. NoKey \in Ends /\ Len(NoKey) = 0
  BY DEF Ends, NoKey
<1>3. \A k \in Ends : f[<<k, NoKey>>] = Above(k, 0)
  <2> DEFINE S == {n \in Nat : \A k \in Ends : Len(k) <= n => f[<<k, NoKey>>] = Above(k, 0)}
  <2>1. ASSUME NEW k \in Ends,
               Digit(k, 1) # Base - 1 \/ f[<<TailOf(k, 1), NoKey>>] = Above(TailOf(k, 1), 0)
        PROVE  f[<<k, NoKey>>] = Above(k, 0)
    <3>1. f[<<k, NoKey>>] = IF Base - Digit(k, 1) > 1 THEN <<Halfway(Digit(k, 1), Base)>>
                            ELSE <<Digit(k, 1)>> \o f[<<TailOf(k, 1), NoKey>>]
      <4>1. f[<<k, NoKey>>] = Flat(k, NoKey)
        BY <1>1, <1>2, AlikeEnd
      <4>2. QED
        BY <1>2, <4>1 DEF Flat
    <3>2. Digit(k, 1) # Base - 1 => Base - Digit(k, 1) > 1
      <4>1. Digit(k, 1) \in Digits
        BY KeyTypes
      <4>2. QED
        BY <4>1, BaseAssumption DEF Digits
    <3>3. QED
      BY <2>1, <3>1, <3>2, AboveUnfolds
  <2>2. 0 \in S
    <3>1. SUFFICES ASSUME NEW k \in Ends, Len(k) <= 0 PROVE f[<<k, NoKey>>] = Above(k, 0)
      OBVIOUS
    <3>2. Digit(k, 1) = 0
      BY <3>1, KeyTypes
    <3>3. 0 # Base - 1
      BY BaseAssumption
    <3>4. QED
      BY <2>1, <3>2, <3>3
  <2>3. ASSUME NEW n \in Nat, n \in S PROVE n + 1 \in S
    <3>1. SUFFICES ASSUME NEW k \in Ends, Len(k) <= n + 1 PROVE f[<<k, NoKey>>] = Above(k, 0)
      OBVIOUS
    <3>2. TailOf(k, 1) \in Ends /\ Len(TailOf(k, 1)) <= n
      <4>1. Len(k) \in Nat
        BY KeyTypes
      <4>2. TailOf(k, 1) \in Ends /\ Len(TailOf(k, 1)) = IF 1 >= Len(k) THEN 0 ELSE Len(k) - 1
        BY TailIs
      <4>3. QED
        BY <3>1, <4>1, <4>2
    <3>3. f[<<TailOf(k, 1), NoKey>>] = Above(TailOf(k, 1), 0)
      BY <2>3, <3>2
    <3>4. QED
      BY <2>1, <3>3
  <2> HIDE DEF S
  <2>4. Nat \subseteq S
    BY <2>2, <2>3, CountingUp
  <2>5. QED
    <3>1. SUFFICES ASSUME NEW k \in Ends PROVE f[<<k, NoKey>>] = Above(k, 0)
      OBVIOUS
    <3>2. Len(k) \in Nat /\ Len(k) <= Len(k)
      BY KeyTypes
    <3>3. QED
      BY <2>4, <3>2 DEF S
<1>4. ASSUME NEW l \in Ends, NEW h \in Ends, Alike(l, h) = 0
      PROVE  f[<<l, h>>] = Apart(l, h)
  <2>1. TailOf(l, 1) \in Ends
    BY TailIs
  <2>2. QED
    <3>1. f[<<l, h>>] = Flat(l, h)
      BY <1>1, <1>4
    <3>2. f[<<TailOf(l, 1), NoKey>>] = Above(TailOf(l, 1), 0)
      BY <1>3, <2>1
    <3>3. QED
      BY <3>1, <3>2 DEF Apart, Flat
<1> DEFINE n == Alike(low, high)
<1>5. n \in Nat
  BY AlikeIs, KeyTypes
<1>6. TailOf(low, n) \in Ends /\ TailOf(high, n) \in Ends
  BY <1>5, TailIs
<1>7. Alike(TailOf(low, n), TailOf(high, n)) = 0
  BY AlikeTails
<1> HIDE DEF n
<1>8. CASE n > 0
  <2>1. f[<<low, high>>] = SubSeq(high, 1, n) \o f[<<TailOf(low, n), TailOf(high, n)>>]
    BY <1>1, <1>8 DEF n, Deep
  <2>2. f[<<TailOf(low, n), TailOf(high, n)>>] = Apart(TailOf(low, n), TailOf(high, n))
    BY <1>4, <1>6, <1>7
  <2>3. QED
    BY <1>8, <2>1, <2>2 DEF MadeOf, n
<1>9. CASE ~ (n > 0)
  <2>1. n = 0
    BY <1>5, <1>9
  <2>2. QED
    BY <1>4, <2>1 DEF MadeOf, n
<1>10. QED
  BY <1>8, <1>9

\* So the recursion answers what is made, whatever it is called on.
LEMMA WrittenIs ==
    ASSUME NEW low \in Ends, NEW high \in Ends
    PROVE  MidpointWritten[<<low, high>>] = MadeOf(low, high)
<1> DEFINE Is(f) == f = [pair \in Pairs |-> Call(f, pair)]
           g == [pair \in Pairs |-> MadeOf(pair[1], pair[2])]
<1>1. MidpointWritten = CHOOSE f : Is(f)
  BY DEF MidpointWritten, Call, Pairs
<1>2. Is(g)
  <2>1. \A pair \in Pairs : g[pair] = Call(g, pair)
    BY MadeAnswers DEF Answers
  <2>2. g = [pair \in Pairs |-> g[pair]]
    OBVIOUS
  <2> HIDE DEF g
  <2>3. [pair \in Pairs |-> g[pair]] = [pair \in Pairs |-> Call(g, pair)]
    BY <2>1
  <2>4. QED
    BY <2>2, <2>3
<1> HIDE DEF g, Is
<1>3. Is(MidpointWritten)
  BY <1>1, <1>2
<1>4. Answers(MidpointWritten)
  <2> DEFINE f == MidpointWritten
  <2>1. Is(f)
    BY <1>3
  <2> HIDE DEF f
  <2>2. \A pair \in Pairs : f[pair] = Call(f, pair)
    BY <2>1 DEF Is
  <2>3. Answers(f)
    BY <2>2 DEF Answers
  <2>4. QED
    BY <2>3 DEF f
<1>5. QED
  BY <1>4, AnswersAreMade

\* What is shared, and then what is made of the rest, is the midpoint of two in
\* order.
LEMMA MidpointIsMade ==
    ASSUME NEW low \in Ends, NEW high \in Ends, high = NoKey \/ Less(low, high)
    PROVE  Midpoint(low, high) = MadeOf(low, high)
<1>1. CASE high = NoKey
  BY <1>1, MadeOfEnd DEF Midpoint
<1>2. CASE high # NoKey
  <2> DEFINE n == Shared(low, high)
             r == TailOf(low, n)
             t == TailOf(high, n)
             l == Digit(low, n + 1)
             h == high[n + 1]
             s == SubSeq(high, 1, n)
  <2>1. high \in Keys /\ Less(low, high)
    BY <1>2 DEF Ends
  <2>2. /\ n \in 0..(Len(high) - 1)
        /\ \A i \in 1..n : Digit(low, i) = high[i]
        /\ Digit(low, n + 1) < high[n + 1]
        /\ n = Alike(low, high)
    BY <2>1, SharedIs, AlikeIsShared
  <2> HIDE DEF n
  <2>3. /\ Len(high) \in Nat /\ high \in Seq(Digits) /\ n \in Nat /\ n + 1 \in 1..Len(high)
        /\ n + 1 \in Nat /\ n + 1 > 0 /\ n <= Len(high)
        /\ \A i \in 1..Len(high) : Digit(high, i) = high[i]
    BY <2>1, <2>2, LastDigit DEF Keys
  <2>4. l \in Digits /\ h \in Digits
    BY <2>3, KeyTypes
  <2>5. /\ r \in Ends /\ Digit(r, 1) = l
        /\ t \in Ends /\ Digit(t, 1) = h /\ Len(t) = Len(high) - n
    <3>1. /\ r \in Ends /\ t \in Ends
          /\ \A i \in Nat : i > 0 => Digit(r, i) = Digit(low, n + i) /\ Digit(t, i) = Digit(high, n + i)
          /\ Len(t) = IF n >= Len(high) THEN 0 ELSE Len(high) - n
      BY <2>3, TailIs
    <3> HIDE DEF r, t
    <3>2. ~ (n >= Len(high))
      BY <2>2, <2>3
    <3>3. QED
      BY <2>3, <3>1, <3>2
  <2> HIDE DEF r, t
  <2>6. t # NoKey /\ t[1] = h
    <3>1. Len(t) >= 1
      BY <2>2, <2>3, <2>5
    <3>2. t # NoKey
      BY <3>1 DEF NoKey
    <3>3. Digit(t, 1) = t[1]
      BY <3>1 DEF Digit
    <3>4. QED
      BY <2>5, <3>2, <3>3
  <2>7. Apart(r, t) = IF h - l > 1 THEN <<Halfway(l, h)>>
                      ELSE IF Len(high) > n + 1 THEN <<h>>
                      ELSE <<l>> \o Above(TailOf(low, n + 1), 0)
    <3>1. Len(t) > 1 <=> Len(high) > n + 1
      BY <2>3, <2>5
    <3>2. TailOf(r, 1) = TailOf(low, n + 1)
      BY <2>3, TailOfTail DEF r
    <3> HIDE DEF l, h
    <3>3. QED
      BY <2>5, <2>6, <3>1, <3>2 DEF Apart
  <2>8. MadeOf(low, high) = s \o Apart(r, t)
    <3>1. CASE n > 0
      <4>1. Alike(low, high) = n
        BY <2>2
      <4> HIDE DEF l, h, s
      <4>2. MadeOf(low, high) = SubSeq(high, 1, n) \o Apart(TailOf(low, n), TailOf(high, n))
        BY <3>1, <4>1 DEF MadeOf
      <4>3. QED
        BY <4>2 DEF r, t, s
    <3>2. CASE ~ (n > 0)
      <4>1. n = 0
        BY <2>3, <3>2
      <4>2. r = low /\ t = high
        BY <4>1, TailOfTail DEF r, t
      <4>3. MadeOf(low, high) = Apart(r, t)
        BY <2>2, <3>2, <4>2 DEF MadeOf
      <4>4. Apart(r, t) \in Seq(Digits)
        <5>1. l \in Nat /\ h \in Nat /\ h > l /\ h < Base
          BY <2>2, <2>4, BaseAssumption DEF Digits
        <5> HIDE DEF l, h
        <5>2. h - l > 1 => Halfway(l, h) \in Digits
          <6>1. SUFFICES ASSUME h - l > 1 PROVE Halfway(l, h) \in Digits
            OBVIOUS
          <6>2. Halfway(l, h) \in Nat /\ Halfway(l, h) < h
            BY <5>1, <6>1, HalfwayBetween
          <6>3. QED
            BY <5>1, <6>2, BaseAssumption DEF Digits
        <5>3. TailOf(low, n + 1) \in Ends
          BY <2>3, TailIs
        <5>4. Above(TailOf(low, n + 1), 0) \in Seq(Digits)
          BY <5>3, AboveIs DEF Keys
        <5>5. <<l>> \o Above(TailOf(low, n + 1), 0) \in Seq(Digits)
          BY <2>4, <5>4
        <5>6. QED
          BY <2>4, <2>7, <5>2, <5>5
      <4>5. s = << >>
        BY <2>3, <4>1
      <4>6. \A x \in Seq(Digits) : << >> \o x = x
        OBVIOUS
      <4>7. QED
        BY <4>3, <4>4, <4>5, <4>6, Zenon
    <3>3. QED
      BY <3>1, <3>2
  <2>9. Midpoint(low, high) = IF h - l > 1 THEN Upto(high, n, Halfway(l, h))
                              ELSE IF Len(high) > n + 1 THEN Upto(high, n, h)
                              ELSE Above(low, n + 1)
    BY <1>2 DEF Midpoint, n
  <2>10. /\ s \in Seq(Digits) /\ Len(s) = n /\ \A i \in 1..n : s[i] = high[i]
    BY <2>3
  <2> HIDE DEF s
  <2>11. ASSUME NEW d \in Digits PROVE Upto(high, n, d) = s \o <<d>>
    <3>1. /\ Upto(high, n, d) \in Seq(Digits) /\ Len(Upto(high, n, d)) = n + 1
          /\ \A i \in 1..n : Upto(high, n, d)[i] = Digit(high, i)
          /\ Upto(high, n, d)[n + 1] = d
      BY <2>3, UptoIs
    <3>2. <<d>> \in Seq(Digits) /\ Len(<<d>>) = 1 /\ <<d>>[1] = d
      OBVIOUS
    <3> DEFINE c == Upto(high, n, d)
               b == <<d>>
    <3> HIDE DEF c, b
    <3>3. \A i \in 1..Len(s) : c[i] = s[i]
      BY <2>3, <2>10, <3>1 DEF c
    <3>4. \A i \in 1..Len(b) : c[Len(s) + i] = b[i]
      BY <2>3, <2>10, <3>1, <3>2 DEF c, b
    <3>5. c \in Seq(Digits) /\ b \in Seq(Digits) /\ Len(c) = Len(s) + Len(b)
      BY <2>3, <2>10, <3>1, <3>2 DEF c, b
    <3>6. c = s \o b
      BY <2>10, <3>3, <3>4, <3>5, JoinedOnly
    <3>7. QED
      BY <3>6 DEF c, b
  <2>12. Above(low, n + 1) = s \o (<<l>> \o Above(TailOf(low, n + 1), 0))
    <3> DEFINE a == Above(TailOf(low, n + 1), 0)
               f == First(low, n + 1)
    <3>1. Above(low, n + 1) = f \o a
      BY <2>3, AboveJoins
    <3>2. a \in Seq(Digits)
      BY <2>3, TailIs, AboveIs DEF Keys
    <3> HIDE DEF a
    <3>3. /\ f \in Seq(Digits) /\ Len(f) = n + 1
          /\ \A i \in 1..(n + 1) : f[i] = Digit(low, i)
      BY <2>3, FirstIs
    <3> DEFINE b == <<l>>
    <3>4. b \in Seq(Digits) /\ Len(b) = 1 /\ b[1] = Digit(low, n + 1)
      BY <2>4
    <3> HIDE DEF f, b
    <3>5. f = s \o b
      <4>1. \A i \in 1..Len(s) : f[i] = s[i]
        BY <2>2, <2>3, <2>10, <3>3
      <4>2. \A i \in 1..Len(b) : f[Len(s) + i] = b[i]
        BY <2>3, <2>10, <3>3, <3>4
      <4>3. Len(f) = Len(s) + Len(b)
        BY <2>3, <2>10, <3>3, <3>4
      <4>4. QED
        BY <2>10, <3>3, <3>4, <4>1, <4>2, <4>3, JoinedOnly
    <3>6. (s \o b) \o a = s \o (b \o a)
      BY <2>10, <3>2, <3>4
    <3>7. QED
      BY <3>1, <3>5, <3>6 DEF a, b
  <2>13. h - l > 1 => Halfway(l, h) \in Digits
    <3>1. l \in Nat /\ h \in Nat /\ h > l /\ h < Base
      BY <2>2, <2>4, BaseAssumption DEF Digits
    <3> HIDE DEF l, h
    <3>2. SUFFICES ASSUME h - l > 1 PROVE Halfway(l, h) \in Digits
      OBVIOUS
    <3>3. Halfway(l, h) \in Nat /\ Halfway(l, h) < h
      BY <3>1, <3>2, HalfwayBetween
    <3>4. QED
      BY <3>1, <3>3, BaseAssumption DEF Digits
  <2> HIDE DEF l, h
  <2>14. CASE h - l > 1
    <3>1. Midpoint(low, high) = Upto(high, n, Halfway(l, h)) /\ Apart(r, t) = <<Halfway(l, h)>>
      BY <2>7, <2>9, <2>14
    <3>2. QED
      BY <2>8, <2>11, <2>13, <2>14, <3>1
  <2>15. CASE ~ (h - l > 1) /\ Len(high) > n + 1
    BY <2>4, <2>7, <2>8, <2>9, <2>11, <2>15
  <2>16. CASE ~ (h - l > 1) /\ ~ (Len(high) > n + 1)
    BY <2>7, <2>8, <2>9, <2>12, <2>16
  <2>17. QED
    BY <2>14, <2>15, <2>16
<1>3. QED
  BY <1>1, <1>2

\* The midpoint the models use, which recurs on nothing, is what the recursive
\* function of order_keys.go answers: of every key and every one after it, or the
\* end of the order, whatever their lengths and the number of digits.
THEOREM MidpointIsWritten ==
    ASSUME NEW low \in Ends, NEW high \in Ends, high = NoKey \/ Less(low, high)
    PROVE  Midpoint(low, high) = MidpointWritten[<<low, high>>]
BY MidpointIsMade, WrittenIs
=============================================================================
