----------------------------- MODULE OrderKeys -----------------------------
(***************************************************************************)
(* Where an element stands in an order a person chose: OrderKeyBetween and *)
(* evenOrderKeys of sql/order_keys.go.                                     *)
(*                                                                         *)
(* A key is a sequence of digits 0..Base-1 (sixty-two in the code) which   *)
(* does not end in the lowest one; the empty sequence is no key, the start *)
(* of the order or its end.  The code's midpoint calls itself on what is   *)
(* left of its arguments (MidpointWritten).  Midpoint is the same without  *)
(* recursion, by where the digits first differ and where the first digit   *)
(* below the highest is: of any two keys in order they make one key.       *)
(***************************************************************************)
EXTENDS Naturals, Sequences

CONSTANT Base

ASSUME BaseAssumption == Base \in Nat /\ Base >= 2

Digits == 0..(Base - 1)

NoKey == << >>
Keys  == {k \in Seq(Digits) : Len(k) > 0 /\ k[Len(k)] # 0}
Ends  == Keys \cup {NoKey}

\* How a column compared byte by byte sorts.
Less(k, l) ==
    \E n \in 1..Len(l) :
        /\ \A i \in 1..(n - 1) : i <= Len(k) /\ k[i] = l[i]
        /\ n > Len(k) \/ k[n] < l[n]

\* digitAt: a key goes on in lowest digits for ever.
Digit(k, i) == IF i <= Len(k) THEN k[i] ELSE 0

\* The first n digits of a key, and then d.
Upto(k, n, d) == [i \in 1..(n + 1) |-> IF i <= n THEN Digit(k, i) ELSE d]

Halfway(low, high) == (low + high + 1) \div 2

\* Leaves at least n digits of a key, and as few more as have none above them.
Room(k, n) ==
    CHOOSE m \in n..(n + Len(k)) :
        /\ Digit(k, m + 1) # Base - 1
        /\ \A i \in (n + 1)..m : Digit(k, i) = Base - 1

\* Past a key, by a digit it has after its first n.
Above(k, n) ==
    LET m == Room(k, n) IN Upto(k, m, Halfway(Digit(k, m + 1), Base))

\* How many digits two keys share.
Shared(low, high) ==
    CHOOSE n \in 0..(Len(high) - 1) :
        /\ \A i \in 1..n : Digit(low, i) = high[i]
        /\ Digit(low, n + 1) # high[n + 1]

\* Mutant: under the key after even where that key ends there.
MidpointTouches(low, high) ==
    IF high = NoKey THEN Above(low, 0)
    ELSE LET n == Shared(low, high)
             l == Digit(low, n + 1)
             h == high[n + 1]
         IN  IF h - l > 1 THEN Upto(high, n, Halfway(l, h))
             ELSE Upto(high, n, h)

Midpoint(low, high) ==
    IF high = NoKey THEN Above(low, 0)
    ELSE LET n == Shared(low, high)
             l == Digit(low, n + 1)
             h == high[n + 1]
         IN  IF h - l > 1 THEN Upto(high, n, Halfway(l, h))
             ELSE IF Len(high) > n + 1 THEN Upto(high, n, h)
             ELSE Above(low, n + 1)

\* tail: what is left of a key after some digits.
TailOf(k, from) == IF from >= Len(k) THEN NoKey ELSE SubSeq(k, from + 1, Len(k))

\* midpoint's loop: how far a key goes on like another.
Alike(low, high) ==
    CHOOSE n \in 0..Len(high) :
        /\ \A i \in 1..n : Digit(low, i) = high[i]
        /\ n = Len(high) \/ Digit(low, n + 1) # high[n + 1]

\* midpoint, call by call: of a pair, the lower key first.
MidpointWritten[pair \in Ends \X Ends] ==
    LET low == pair[1]
        high == pair[2]
        shared == Alike(low, high)
        l == Digit(low, 1)
        h == IF high = NoKey THEN Base ELSE high[1]
    IN  IF shared > 0
        THEN SubSeq(high, 1, shared)
                 \o MidpointWritten[<<TailOf(low, shared), TailOf(high, shared)>>]
        ELSE IF h - l > 1 THEN <<Halfway(l, h)>>
        ELSE IF Len(high) > 1 THEN <<h>>
        ELSE <<l>> \o MidpointWritten[<<TailOf(low, 1), NoKey>>]

\* next: the last digit one higher, or a digit more.
NextKey(k) ==
    LET n == Len(k) IN
    IF k[n] < Base - 1 THEN Upto(k, n - 1, k[n] + 1)
    ELSE Upto(k, n, Halfway(0, Base))

\* Mutant: one lower, whatever is left.
PreviousToLowest(k) ==
    LET n == Len(k) IN
    IF k[n] > 0 THEN Upto(k, n - 1, k[n] - 1) ELSE Midpoint(NoKey, k)

\* previous: the last digit one lower, where that is not the lowest.
PreviousKey(k) ==
    LET n == Len(k) IN
    IF k[n] > 1 THEN Upto(k, n - 1, k[n] - 1) ELSE Midpoint(NoKey, k)

\* errOrderKeys: these are not a key and one after it.
OutOfOrder(before, after) ==
    \/ after # NoKey /\ ~Less(before, after)
    \/ before \notin Ends
    \/ after \notin Ends

OrderKeyBetween(before, after) ==
    IF after = NoKey /\ before # NoKey THEN NextKey(before)
    ELSE IF before = NoKey /\ after # NoKey THEN PreviousKey(after)
    ELSE Midpoint(before, after)

\* How many keys so many digits have room for.
Capacity[w \in Nat] == IF w = 0 THEN 1 ELSE Base * Capacity[w - 1]

\* Mutant: room for as many, and no more.
WidthTight(count) ==
    CHOOSE w \in 1..(count + 2) :
        /\ Capacity[w] > count + 1
        /\ w = 1 \/ Capacity[w - 1] <= count + 1

\* evenOrderKeys: the fewest digits with room for twice as many.
Width(count) ==
    CHOOSE w \in 1..(2 * count + 3) :
        /\ Capacity[w] > 2 * (count + 1)
        /\ w = 1 \/ Capacity[w - 1] <= 2 * (count + 1)

Spread(count, i) ==
    LET w == Width(count)
        value == i * (Capacity[w] \div (count + 1))
    IN  [j \in 1..w |-> (value \div Capacity[w - j]) % Base]

EvenKeys(count) ==
    [i \in 1..count |->
        LET k == Spread(count, i) IN
        IF k[Len(k)] = 0 THEN Append(k, Base \div 2) ELSE k]
=============================================================================
