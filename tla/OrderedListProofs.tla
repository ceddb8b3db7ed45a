------------------------- MODULE OrderedListProofs -------------------------
(***************************************************************************)
(* A list that elements are put in, wherever and however often, and whose  *)
(* keys are rewritten when they grow too long, stays in order.             *)
(***************************************************************************)
EXTENDS OrderKeysProofs, OrderedList

\* While the keys sort the way the elements stand no place is refused a key.
LEMMA NoPlaceRefused ==
    ASSUME keys \in Seq(Keys), InOrder, NEW i \in 0..Len(keys)
    PROVE  /\ ~ OutOfOrder(Before(i), After(i))
           /\ Before(i) \in Ends /\ After(i) \in Ends
<1>1. Len(keys) \in Nat /\ i \in Nat
  OBVIOUS
<1>2. /\ i # 0 => i \in 1..Len(keys)
      /\ i # Len(keys) => i + 1 \in 1..Len(keys)
  BY <1>1
<1>3. Before(i) \in Ends /\ After(i) \in Ends
  BY <1>2 DEF Before, After, Ends, InOrder
<1>4. ASSUME After(i) # NoKey PROVE Less(Before(i), After(i))
  <2>1. i # Len(keys) /\ After(i) = keys[i + 1] /\ After(i) \in Keys
    BY <1>2, <1>4 DEF After, InOrder
  <2>2. CASE i = 0
    <3>1. Len(After(i)) \in Nat /\ Len(After(i)) > 0
      BY <2>1, LastDigit
    <3>2. Before(i) = NoKey /\ Len(NoKey) = 0
      BY <2>2 DEF Before, NoKey
    <3>3. 1 \in 1..Len(After(i)) /\ 1 > Len(Before(i)) /\ \A j \in 1..(1 - 1) : FALSE
      BY <3>1, <3>2
    <3>4. QED
      BY <3>3 DEF Less
  <2>3. CASE i # 0
    BY <1>1, <1>2, <2>1, <2>3 DEF Before, InOrder
  <2>4. QED
    BY <2>2, <2>3
<1>5. QED
  BY <1>3, <1>4 DEF OutOfOrder

\* An element put anywhere in a list that is in order leaves it in order.
LEMMA PutInOrder ==
    ASSUME keys \in Seq(Keys), InOrder, NEW i \in 0..Len(keys), Put(i)
    PROVE  keys' \in Seq(Keys) /\ InOrder' /\ Len(keys') = Len(keys) + 1
<1> DEFINE key == OrderKeyBetween(Before(i), After(i))
           n == Len(keys)
<1>1. /\ key \in Keys
      /\ Less(Before(i), key)
      /\ After(i) # NoKey => Less(key, After(i))
  BY NoPlaceRefused, BetweenSorts
<1>2. keys' = SubSeq(keys, 1, i) \o <<key>> \o SubSeq(keys, i + 1, n)
  BY DEF Put
<1> HIDE DEF key
<1>3. n \in Nat /\ i \in Nat /\ i <= n
  OBVIOUS
<1>4. /\ keys' \in Seq(Keys)
      /\ Len(keys') = n + 1
      /\ \A j \in 1..(n + 1) : keys'[j] = IF j <= i THEN keys[j]
                                          ELSE IF j = i + 1 THEN key ELSE keys[j - 1]
  <2> DEFINE a == SubSeq(keys, 1, i)
             b == SubSeq(keys, i + 1, n)
             s == a \o <<key>>
  <2>1. a \in Seq(Keys) /\ Len(a) = i /\ \A j \in 1..i : a[j] = keys[j]
    BY <1>3
  <2>2. b \in Seq(Keys) /\ Len(b) = n - i /\ \A j \in 1..(n - i) : b[j] = keys[i + j]
    BY <1>3
  <2>3. keys' = s \o b
    BY <1>2
  <2> HIDE DEF a, b
  <2>4. /\ s \in Seq(Keys) /\ Len(s) = i + 1
        /\ \A j \in 1..i : s[j] = keys[j]
        /\ s[i + 1] = key
    <3>1. <<key>> \in Seq(Keys) /\ Len(<<key>>) = 1 /\ <<key>>[1] = key
      BY <1>1
    <3>2. s \in Seq(Keys) /\ Len(s) = i + 1
      BY <1>3, <2>1, <3>1
    <3>3. \A j \in 1..i : s[j] = a[j]
      BY <1>3, <2>1, <3>1
    <3>4. s[i + 1] = key
      BY <1>3, <2>1, <3>1
    <3>5. QED
      BY <2>1, <3>2, <3>3, <3>4
  <2> HIDE DEF s
  <2>5. keys' \in Seq(Keys) /\ Len(keys') = n + 1
    BY <1>3, <2>2, <2>3, <2>4
  <2>6. \A j \in 1..(i + 1) : keys'[j] = s[j]
    BY <1>3, <2>2, <2>3, <2>4
  <2>7. ASSUME NEW j \in (i + 2)..(n + 1) PROVE keys'[j] = keys[j - 1]
    <3>1. j - (i + 1) \in 1..(n - i) /\ i + (j - (i + 1)) = j - 1 /\ j > i + 1
      BY <1>3
    <3>2. keys'[j] = b[j - (i + 1)]
      <4>1. j \in 1..(Len(s) + Len(b)) /\ j > Len(s)
        BY <1>3, <2>2, <2>4
      <4>2. (s \o b)[j] = b[j - Len(s)]
        BY <2>2, <2>4, <4>1
      <4>3. QED
        BY <2>3, <2>4, <4>2
    <3>3. QED
      BY <2>2, <3>1, <3>2
  <2>8. ASSUME NEW j \in 1..(n + 1)
        PROVE  keys'[j] = IF j <= i THEN keys[j]
                          ELSE IF j = i + 1 THEN key ELSE keys[j - 1]
    <3>1. CASE j <= i
      BY <1>3, <2>4, <2>6, <3>1
    <3>2. CASE j = i + 1
      BY <1>3, <2>4, <2>6, <3>2
    <3>3. CASE j > i + 1
      BY <1>3, <2>7, <3>3
    <3>4. QED
      BY <1>3, <3>1, <3>2, <3>3
  <2>9. QED
    BY <2>5, <2>8
<1>5. ASSUME NEW j \in 1..i PROVE Less(keys[j], key)
  <2>1. keys[j] \in Keys /\ keys[i] \in Keys /\ Before(i) = keys[i] /\ j <= i
    BY <1>3 DEF InOrder, Before
  <2>2. j = i \/ Less(keys[j], keys[i])
    BY <1>3, <2>1 DEF InOrder
  <2>3. QED
    BY <1>1, <2>1, <2>2, LessTransitive
<1>6. ASSUME NEW j \in (i + 1)..n PROVE Less(key, keys[j])
  <2>1. keys[j] \in Keys /\ keys[i + 1] \in Keys /\ After(i) = keys[i + 1]
    BY <1>3 DEF InOrder, After
  <2>2. After(i) # NoKey
    BY <2>1, LastDigit DEF NoKey
  <2>3. j = i + 1 \/ Less(keys[i + 1], keys[j])
    BY <1>3 DEF InOrder
  <2>4. QED
    BY <1>1, <2>1, <2>2, <2>3, LessTransitive
<1>7. ASSUME NEW j \in 1..Len(keys') PROVE keys'[j] \in Keys
  BY <1>4
<1>8. ASSUME NEW j \in 1..Len(keys'), NEW l \in 1..Len(keys'), j < l
      PROVE  Less(keys'[j], keys'[l])
  <2>1. CASE l <= i
    <3>1. keys'[j] = keys[j] /\ keys'[l] = keys[l] /\ j \in 1..n /\ l \in 1..n
      BY <1>3, <1>4, <1>8, <2>1
    <3>2. QED
      BY <1>8, <3>1 DEF InOrder
  <2>2. CASE l = i + 1
    <3>1. j \in 1..i /\ keys'[j] = keys[j] /\ keys'[l] = key
      BY <1>3, <1>4, <1>8, <2>2
    <3>2. QED
      BY <1>5, <3>1
  <2>3. CASE l > i + 1
    <3>1. l - 1 \in (i + 1)..n /\ keys'[l] = keys[l - 1]
      BY <1>3, <1>4, <2>3
    <3>2. CASE j = i + 1
      BY <1>4, <1>6, <3>1, <3>2
    <3>3. CASE j <= i
      <4>1. keys'[j] = keys[j] /\ j \in 1..n /\ l - 1 \in 1..n /\ j < l - 1
        BY <1>3, <1>4, <3>1, <3>3
      <4>2. QED
        BY <3>1, <4>1 DEF InOrder
    <3>4. CASE j > i + 1
      <4>1. keys'[j] = keys[j - 1] /\ j - 1 \in 1..n /\ l - 1 \in 1..n /\ j - 1 < l - 1
        BY <1>3, <1>4, <1>8, <3>1, <3>4
      <4>2. QED
        BY <3>1, <4>1 DEF InOrder
    <3>5. QED
      BY <1>3, <3>2, <3>3, <3>4
  <2>4. QED
    BY <1>3, <1>4, <2>1, <2>2, <2>3
<1>9. QED
  BY <1>4, <1>7, <1>8 DEF InOrder

\* A step keeps the list in order: what rewriting makes is as good as what
\* putting elements one by one does.
LEMMA OneStepKeeps ==
    ASSUME keys \in Seq(Keys), InOrder, [Next]_keys
    PROVE  keys' \in Seq(Keys) /\ InOrder'
<1>1. ASSUME NEW i \in 0..Len(keys), Put(i) PROVE keys' \in Seq(Keys) /\ InOrder'
  BY <1>1, PutInOrder
<1>2. ASSUME Rewrite PROVE keys' \in Seq(Keys) /\ InOrder'
  <2>1. keys' = EvenKeys(Len(keys)) /\ Len(keys) \in Nat
    BY <1>2 DEF Rewrite
  <2> DEFINE even == EvenKeys(Len(keys))
  <2>2. /\ even \in Seq(Keys) /\ Len(even) = Len(keys)
        /\ \A i, j \in 1..Len(keys) : i < j => Less(even[i], even[j])
    BY <2>1, EvenKeysInOrder
  <2> HIDE DEF even
  <2>3. keys' = even
    BY <2>1 DEF even
  <2>4. QED
    BY <2>1, <2>2, <2>3 DEF InOrder
<1>3. CASE UNCHANGED keys
  BY <1>3 DEF InOrder
<1>4. QED
  BY <1>1, <1>2, <1>3 DEF Next, Full

\* However many elements are put, and wherever, and however often the list is
\* rewritten, every key is one and the keys sort the way the elements stand.
THEOREM AlwaysInOrder == Spec => []InOrder
<1>1. Init => keys \in Seq(Keys) /\ InOrder
  BY DEF Init, InOrder
<1>2. (keys \in Seq(Keys) /\ InOrder) /\ [Next]_keys => (keys \in Seq(Keys) /\ InOrder)'
  BY OneStepKeeps
<1>3. QED
  BY <1>1, <1>2, PTL DEF Spec

\* Straight after the keys are rewritten every place between two of them takes
\* a key of their own width, however many there are.
THEOREM RewritingAlwaysMakesRoom == Spec => RewritingMakesRoom
<1> DEFINE Made == keys # << >> /\ Len(keys') = Len(keys) /\ keys' # keys =>
                      \A i \in 1..(Len(keys) - 1) :
                          Len(OrderKeyBetween(keys'[i], keys'[i + 1])) <= Width(Len(keys))
<1>1. Init => keys \in Seq(Keys) /\ InOrder
  BY DEF Init, InOrder
<1>2. (keys \in Seq(Keys) /\ InOrder) /\ [Next]_keys => (keys \in Seq(Keys) /\ InOrder)'
  BY OneStepKeeps
<1>3. (keys \in Seq(Keys) /\ InOrder) /\ [Next]_keys => [Made]_keys
  <2>1. ASSUME keys \in Seq(Keys), InOrder, NEW i \in 0..Len(keys), Put(i)
        PROVE  Len(keys') # Len(keys)
    <3>1. Len(keys') = Len(keys) + 1 /\ Len(keys) \in Nat
      BY <2>1, PutInOrder
    <3>2. QED
      BY <3>1
  <2>2. ASSUME keys \in Seq(Keys), Rewrite PROVE Made
    <3>1. keys' = EvenKeys(Len(keys)) /\ Len(keys) \in Nat
      BY <2>2 DEF Rewrite
    <3>2. QED
      BY <3>1, EvenKeysHaveRoom
  <2>3. QED
    BY <2>1, <2>2 DEF Next, Full
<1>4. QED
  BY <1>1, <1>2, <1>3, PTL DEF Spec, RewritingMakesRoom

\* Of any two keys of the list, and of one and an end of it, the recursive
\* midpoint of order_keys.go makes the key the list is given.
THEOREM MidpointIsAsWritten == Spec => []MidpointAsWritten
<1>1. keys \in Seq(Keys) /\ InOrder => MidpointAsWritten
  <2>1. SUFFICES ASSUME keys \in Seq(Keys), InOrder,
                        NEW i \in 0..(Len(keys) + 1), NEW j \in 0..(Len(keys) + 1), i < j,
                        NEW low, low = IF i = 0 THEN NoKey ELSE keys[i],
                        NEW high, high = IF j > Len(keys) THEN NoKey ELSE keys[j]
                 PROVE  Midpoint(low, high) = MidpointWritten[<<low, high>>]
    BY DEF MidpointAsWritten
  <2>2. /\ i # 0 => i \in 1..Len(keys)
        /\ high # NoKey => j \in 1..Len(keys) /\ high = keys[j]
    BY <2>1
  <2>3. low \in Ends /\ high \in Ends /\ (high # NoKey => high \in Keys)
    BY <2>1, <2>2 DEF InOrder, Ends
  <2>4. ASSUME high # NoKey PROVE Less(low, high)
    <3>1. CASE i = 0
      <4>1. Len(high) \in Nat /\ Len(high) > 0 /\ Len(low) = 0
        BY <2>1, <2>3, <2>4, <3>1, LastDigit DEF NoKey
      <4>2. 1 \in 1..Len(high) /\ 1 > Len(low) /\ \A m \in 1..(1 - 1) : FALSE
        BY <4>1
      <4>3. QED
        BY <4>2 DEF Less
    <3>2. CASE i # 0
      BY <2>1, <2>2, <2>4, <3>2 DEF InOrder
    <3>3. QED
      BY <3>1, <3>2
  <2>5. QED
    BY <2>3, <2>4, MidpointIsWritten
<1>2. Init => keys \in Seq(Keys) /\ InOrder
  BY DEF Init, InOrder
<1>3. (keys \in Seq(Keys) /\ InOrder) /\ [Next]_keys => (keys \in Seq(Keys) /\ InOrder)'
  BY OneStepKeeps
<1>4. QED
  BY <1>1, <1>2, <1>3, PTL DEF Spec
=============================================================================
