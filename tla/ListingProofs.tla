--------------------------- MODULE ListingProofs ---------------------------
(***************************************************************************)
(* A listing of any rows, under any sorts, in pages of any size: whoever   *)
(* goes on from page to page while others write is shown every row that    *)
(* stays, and none twice; cursors say truly whether there is more; and     *)
(* there and back is where one was.                                        *)
(***************************************************************************)
EXTENDS Listing, WholeNumbers, FiniteSetTheorems, SequenceTheorems, TLAPS

-----------------------------------------------------------------------------
(* Orders. *)

\* What a column may hold.
Values == Ids \cup Ranks \cup {Null}

\* An order with a key in it tells any two rows apart.
Keyed(order) ==
    order \in Seq(Orderings) /\ \E d \in DOMAIN order : order[d].column = "id"

\* An order that says where nulls go, if there are any.
Definite(order) ==
    \A d \in DOMAIN order : order[d].nulls = "unstated" => order[d].column = "id"

LEMMA ValueTypes ==
    ASSUME NEW r \in Rows, NEW o \in Orderings
    PROVE  /\ Value(r, o) \in Values
           /\ o.column = "id" => Value(r, o) # Null
BY ListingAssumption DEF Value, Values, Rows, Orderings

LEMMA EarlierIsAnOrder ==
    ASSUME NEW o \in Orderings, NEW v \in Values, NEW w \in Values
    PROVE  /\ ~Earlier(o, v, v)
           /\ v # w => Earlier(o, v, w) \/ Earlier(o, w, v)
           /\ ~(Earlier(o, v, w) /\ Earlier(o, w, v))
           /\ \A x \in Values : Earlier(o, v, w) /\ Earlier(o, w, x) => Earlier(o, v, x)
<1>1. Ids \cup Ranks \subseteq Nat /\ \A x \in Values : x = Null \/ x \in Nat
  BY ListingAssumption DEF Values
<1>2. Null \notin Ids \cup Ranks /\ \A x \in Values : x # Null => x \in Nat
  BY <1>1, ListingAssumption
<1> DEFINE first == NullsFirst(o)
           down  == o.descending
<1>3. \A x, y \in Values : Earlier(o, x, y) <=>
           \/ x = Null /\ y # Null /\ first
           \/ x # Null /\ y = Null /\ ~first
           \/ x # Null /\ y # Null /\ down /\ x > y
           \/ x # Null /\ y # Null /\ ~down /\ x < y
  BY DEF Earlier
<1>4. first \in BOOLEAN /\ down \in BOOLEAN
  BY DEF NullsFirst, Orderings
<1> HIDE DEF first, down
<1>5. CASE first
  BY <1>2, <1>3, <1>4, <1>5
<1>6. CASE ~first
  BY <1>2, <1>3, <1>4, <1>6
<1>7. QED
  BY <1>4, <1>5, <1>6

\* Rows compared: never a row before itself, one of any two first, and in turn.
LEMMA SortedIsAnOrder ==
    ASSUME NEW order, Keyed(order), NEW r \in Rows, NEW s \in Rows
    PROVE  /\ ~Sorted(order, r, r)
           /\ r.id # s.id => Sorted(order, r, s) \/ Sorted(order, s, r)
           /\ \A t \in Rows : Sorted(order, r, s) /\ Sorted(order, s, t) => Sorted(order, r, t)
           /\ ~(Sorted(order, r, s) /\ Sorted(order, s, r))
<1> DEFINE V(x, d) == Value(x, order[d])
<1>0. /\ DOMAIN order \subseteq Nat
      /\ \A d \in DOMAIN order : order[d] \in Orderings /\ 1..d - 1 \subseteq DOMAIN order
      /\ \A d \in DOMAIN order : d \in Nat /\ d >= 1
  BY DEF Keyed
<1>1. \A x \in Rows : \A d \in DOMAIN order : V(x, d) \in Values
  BY <1>0, ValueTypes
<1>2. \A d \in DOMAIN order : \A v, w, x \in Values :
          /\ ~Earlier(order[d], v, v)
          /\ v # w => Earlier(order[d], v, w) \/ Earlier(order[d], w, v)
          /\ Earlier(order[d], v, w) /\ Earlier(order[d], w, x) => Earlier(order[d], v, x)
  BY <1>0, EarlierIsAnOrder
<1>3. \A x, y \in Rows : Sorted(order, x, y) <=>
          \E d \in DOMAIN order : /\ Earlier(order[d], V(x, d), V(y, d))
                                  /\ \A c \in 1..d - 1 : V(x, c) = V(y, c)
  BY DEF Sorted
<1> HIDE DEF V
<1>4. \A x \in Rows : ~Sorted(order, x, x)
  BY <1>1, <1>2, <1>3
<1>5. ASSUME r.id # s.id PROVE Sorted(order, r, s) \/ Sorted(order, s, r)
  <2> DEFINE D == {d \in DOMAIN order : V(r, d) # V(s, d)}
  <2>1. D # {}
    <3>1. PICK d \in DOMAIN order : order[d].column = "id"
      BY DEF Keyed
    <3>2. V(r, d) = r.id /\ V(s, d) = s.id
      BY <3>1 DEF V, Value
    <3>3. QED
      BY <3>2, <1>5
  <2>2. D \in SUBSET Nat
    BY <1>0
  <2>3. PICK d \in D : \A m \in D : d <= m
    BY <2>1, <2>2, LeastNat
  <2>4. \A c \in 1..d - 1 : V(r, c) = V(s, c)
    BY <2>3, <1>0
  <2>5. Earlier(order[d], V(r, d), V(s, d)) \/ Earlier(order[d], V(s, d), V(r, d))
    BY <2>3, <1>1, <1>2
  <2>6. QED
    BY <2>3, <2>4, <2>5, <1>3
<1>6. ASSUME NEW x \in Rows, NEW y \in Rows, NEW z \in Rows,
             Sorted(order, x, y), Sorted(order, y, z)
      PROVE  Sorted(order, x, z)
  <2>1. PICK d \in DOMAIN order : /\ Earlier(order[d], V(x, d), V(y, d))
                                  /\ \A c \in 1..d - 1 : V(x, c) = V(y, c)
    BY <1>6, <1>3
  <2>2. PICK e \in DOMAIN order : /\ Earlier(order[e], V(y, e), V(z, e))
                                  /\ \A c \in 1..e - 1 : V(y, c) = V(z, c)
    BY <1>6, <1>3
  <2>3. d \in Nat /\ e \in Nat /\ d >= 1 /\ e >= 1
    BY <1>0
  <2>4. CASE d < e
    <3>1. V(y, d) = V(z, d) /\ \A c \in 1..d - 1 : V(y, c) = V(z, c)
      BY <2>2, <2>3, <2>4
    <3>2. QED
      BY <2>1, <3>1, <1>3
  <2>5. CASE e < d
    <3>1. V(x, e) = V(y, e) /\ \A c \in 1..e - 1 : V(x, c) = V(y, c)
      BY <2>1, <2>3, <2>5
    <3>2. QED
      BY <2>2, <3>1, <1>3
  <2>6. CASE d = e
    BY <2>1, <2>2, <2>6, <1>1, <1>2, <1>3
  <2>7. QED
    BY <2>3, <2>4, <2>5, <2>6
<1>7. QED
  BY <1>4, <1>5, <1>6

LEMMA OrderIs ==
    ASSUME NEW sort \in DOMAIN Sorts
    PROVE  /\ Keyed(Order(sort))
           /\ Placed(sort) => Definite(Order(sort))
           /\ Order(sort) # << >>
<1> DEFINE given == Sorts[sort]
           key   == [column |-> "id", nulls |-> "unstated",
                     descending |-> given # << >> /\ Last(given).descending]
<1>1. given \in Seq(Orderings)
  BY ListingAssumption
<1>2. key \in Orderings
  BY <1>1 DEF Orderings, Placements
<1>3. Order(sort) = Append(given, key)
  BY DEF Order
<1>4. /\ Order(sort) \in Seq(Orderings)
      /\ Len(Order(sort)) = Len(given) + 1
      /\ Order(sort)[Len(given) + 1] = key
      /\ \A d \in 1..Len(given) : Order(sort)[d] = given[d]
  <2> HIDE DEF given, key
  <2> QED
    BY <1>1, <1>2, <1>3
<1>5. key.column = "id"
  OBVIOUS
<1> HIDE DEF key
<1>6. Keyed(Order(sort)) /\ Order(sort) # << >>
  <2>1. Len(given) + 1 \in DOMAIN Order(sort)
    BY <1>1, <1>4
  <2>2. QED
    BY <2>1, <1>4, <1>5 DEF Keyed
<1>7. ASSUME Placed(sort) PROVE Definite(Order(sort))
  <2>1. \A d \in 1..Len(given) : given[d].nulls # "unstated"
    BY <1>1, <1>7 DEF Placed
  <2>2. \A d \in DOMAIN Order(sort) : d \in 1..Len(given) \/ d = Len(given) + 1
    BY <1>1, <1>4
  <2>3. QED
    BY <2>1, <2>2, <1>4, <1>5 DEF Definite
<1>8. QED
  BY <1>6, <1>7

\* An order read the other way round is an order of the same columns.
LEMMA ReversedIs ==
    ASSUME NEW order, Keyed(order)
    PROVE  /\ Keyed(Reversed(order))
           /\ DOMAIN Reversed(order) = DOMAIN order
           /\ \A d \in DOMAIN order :
                /\ Reversed(order)[d].column = order[d].column
                /\ Reversed(order)[d].descending = ~order[d].descending
                /\ order[d].nulls = "unstated" => Reversed(order)[d].nulls = "unstated"
                /\ order[d].nulls = "first" => Reversed(order)[d].nulls = "last"
                /\ order[d].nulls = "last" => Reversed(order)[d].nulls = "first"
           /\ Definite(order) => Definite(Reversed(order))
<1>1. /\ order \in Seq(Orderings) /\ Len(order) \in Nat /\ DOMAIN order = 1..Len(order)
      /\ \A d \in DOMAIN order : order[d] \in Orderings
  BY DEF Keyed
<1>2. /\ DOMAIN Reversed(order) = DOMAIN order
      /\ \A d \in DOMAIN order :
           /\ Reversed(order)[d] \in Orderings
           /\ Reversed(order)[d].column = order[d].column
           /\ Reversed(order)[d].descending = ~order[d].descending
           /\ order[d].nulls = "unstated" => Reversed(order)[d].nulls = "unstated"
           /\ order[d].nulls = "first" => Reversed(order)[d].nulls = "last"
           /\ order[d].nulls = "last" => Reversed(order)[d].nulls = "first"
  <2>1. DOMAIN Reversed(order) = DOMAIN order
    BY DEF Reversed
  <2>2. ASSUME NEW d \in DOMAIN order
        PROVE  /\ Reversed(order)[d] \in Orderings
               /\ Reversed(order)[d].column = order[d].column
               /\ Reversed(order)[d].descending = ~order[d].descending
               /\ order[d].nulls = "unstated" => Reversed(order)[d].nulls = "unstated"
               /\ order[d].nulls = "first" => Reversed(order)[d].nulls = "last"
               /\ order[d].nulls = "last" => Reversed(order)[d].nulls = "first"
    <3>1. order[d] \in Orderings
      BY <1>1
    <3>2. Reversed(order)[d] =
            [order[d] EXCEPT !.descending = ~@,
                             !.nulls = CASE @ = "first" -> "last" [] @ = "last" -> "first"
                                         [] OTHER -> @]
      BY DEF Reversed
    <3>3. order[d].nulls \in {"unstated", "first", "last"} /\ order[d].descending \in BOOLEAN
      BY <3>1 DEF Orderings, Placements
    <3>4. CASE order[d].nulls = "unstated"
      BY <3>1, <3>2, <3>3, <3>4 DEF Orderings, Placements
    <3>5. CASE order[d].nulls = "first"
      BY <3>1, <3>2, <3>3, <3>5 DEF Orderings, Placements
    <3>6. CASE order[d].nulls = "last"
      BY <3>1, <3>2, <3>3, <3>6 DEF Orderings, Placements
    <3>7. QED
      BY <3>3, <3>4, <3>5, <3>6
  <2>3. QED
    BY <2>1, <2>2
<1>3. Reversed(order) \in Seq(Orderings)
  <2>1. Reversed(order) = [d \in 1..Len(order) |-> Reversed(order)[d]]
    BY <1>1 DEF Reversed
  <2>2. \A d \in 1..Len(order) : Reversed(order)[d] \in Orderings
    BY <1>1, <1>2
  <2> DEFINE e(d) == Reversed(order)[d]
  <2> HIDE DEF e
  <2>3. [d \in 1..Len(order) |-> e(d)] \in Seq(Orderings)
    BY <2>2, <1>1, IsASeq DEF e
  <2>4. QED
    BY <2>1, <2>3 DEF e
<1>4. QED
  BY <1>1, <1>2, <1>3 DEF Keyed, Definite, Orderings, Placements

LEMMA EarlierReversed ==
    ASSUME NEW o \in Orderings, NEW p \in Orderings, NEW v \in Values, NEW w \in Values,
           p.column = o.column, p.descending = ~o.descending,
           \/ o.nulls = "first" /\ p.nulls = "last"
           \/ o.nulls = "last" /\ p.nulls = "first"
           \/ v # Null /\ w # Null
    PROVE  Earlier(p, v, w) <=> Earlier(o, w, v)
<1>1. \A x \in Values : x # Null => x \in Nat
  BY ListingAssumption DEF Values
<1>2. o.descending \in BOOLEAN
  BY DEF Orderings
<1>3. CASE v # Null /\ w # Null
  BY <1>1, <1>2, <1>3 DEF Earlier
<1>4. CASE o.nulls = "first" /\ p.nulls = "last"
  <2>1. NullsFirst(o) /\ ~NullsFirst(p)
    BY <1>4 DEF NullsFirst
  <2>2. QED
    BY <2>1, <1>1, <1>2 DEF Earlier
<1>5. CASE o.nulls = "last" /\ p.nulls = "first"
  <2>1. ~NullsFirst(o) /\ NullsFirst(p)
    BY <1>5 DEF NullsFirst
  <2>2. QED
    BY <2>1, <1>1, <1>2 DEF Earlier
<1>6. QED
  BY <1>3, <1>4, <1>5

\* Reading back is reading the other way round, nulls and all.
LEMMA ReversedSorts ==
    ASSUME NEW order, Keyed(order), Definite(order), NEW r \in Rows, NEW s \in Rows
    PROVE  Sorted(Reversed(order), r, s) <=> Sorted(order, s, r)
<1> DEFINE other == Reversed(order)
<1>1. /\ Keyed(other) /\ DOMAIN other = DOMAIN order
      /\ \A d \in DOMAIN order :
                /\ other[d].column = order[d].column
                /\ other[d].descending = ~order[d].descending
                /\ order[d].nulls = "first" => other[d].nulls = "last"
                /\ order[d].nulls = "last" => other[d].nulls = "first"
  BY ReversedIs
<1> HIDE DEF other
<1>2. \A d \in DOMAIN order : order[d] \in Orderings /\ other[d] \in Orderings
  BY <1>1 DEF Keyed
<1>3. ASSUME NEW x \in Rows, NEW d \in DOMAIN order PROVE Value(x, other[d]) = Value(x, order[d])
  BY <1>1 DEF Value
<1>4. ASSUME NEW d \in DOMAIN order
      PROVE  Earlier(other[d], Value(r, order[d]), Value(s, order[d]))
                <=> Earlier(order[d], Value(s, order[d]), Value(r, order[d]))
  <2>1. order[d].nulls \in {"first", "last"} \/ order[d].column = "id"
    BY <1>2 DEF Definite, Orderings, Placements
  <2>2. Value(r, order[d]) \in Values /\ Value(s, order[d]) \in Values
    BY <1>2, ValueTypes
  <2>3. order[d].column = "id" => Value(r, order[d]) # Null /\ Value(s, order[d]) # Null
    BY <1>2, ValueTypes
  <2>4. QED
    BY <1>1, <1>2, <2>1, <2>2, <2>3, EarlierReversed
<1>5. \A d \in DOMAIN order : 1..d - 1 \subseteq DOMAIN order
  BY DEF Keyed
<1>6. QED
  BY <1>1, <1>3, <1>4, <1>5 DEF other, Sorted

LEMMA BeyondIsEarlier ==
    ASSUME NEW o \in Orderings, NEW x \in Rows, NEW r \in Rows,
           o.nulls = "unstated" => o.column = "id"
    PROVE  Beyond(o, r, Value(x, o)) <=> Earlier(o, Value(x, o), Value(r, o))
<1> DEFINE v == Value(x, o)
           w == Value(r, o)
<1>1. /\ v \in Values /\ w \in Values
      /\ o.column = "id" => v # Null /\ w # Null
  BY ValueTypes
<1>2. \A y \in Values : y # Null => y \in Nat
  BY ListingAssumption DEF Values
<1>3. Beyond(o, r, v) <=>
        IF v = Null THEN o.nulls # "last" /\ w # Null
        ELSE \/ w # Null /\ (IF o.descending THEN w < v ELSE w > v)
             \/ o.nulls = "last" /\ w = Null
  BY DEF Beyond, Compared
<1>4. o.descending \in BOOLEAN /\ o.nulls \in {"unstated", "first", "last"}
  BY DEF Orderings, Placements
<1>5. CASE o.nulls = "unstated"
  <2>1. v # Null /\ w # Null
    BY <1>1, <1>5
  <2> HIDE DEF v, w
  <2>2. QED
    BY <2>1, <1>1, <1>2, <1>3, <1>4, <1>5 DEF Earlier, v, w
<1>6. CASE o.nulls = "first"
  <2>1. NullsFirst(o)
    BY <1>6 DEF NullsFirst
  <2> HIDE DEF v, w
  <2>2. QED
    BY <2>1, <1>1, <1>2, <1>3, <1>4, <1>6 DEF Earlier, v, w
<1>7. CASE o.nulls = "last"
  <2>1. ~NullsFirst(o)
    BY <1>7 DEF NullsFirst
  <2> HIDE DEF v, w
  <2>2. QED
    BY <2>1, <1>1, <1>2, <1>3, <1>4, <1>7 DEF Earlier, v, w
<1>8. QED
  BY <1>4, <1>5, <1>6, <1>7

\* The criterion that continues after a place admits what sorts after it.
LEMMA AfterSorts ==
    ASSUME NEW order, Keyed(order), Definite(order), NEW x \in Rows, NEW r \in Rows,
           NEW at, at = [d \in DOMAIN order |-> Value(x, order[d])]
    PROVE  After(order, r, at) <=> Sorted(order, x, r)
<1>1. /\ DOMAIN at = DOMAIN order
      /\ \A d \in DOMAIN order : at[d] = Value(x, order[d])
      /\ \A d \in DOMAIN order : order[d] \in Orderings /\ 1..d - 1 \subseteq DOMAIN order
  BY DEF Keyed
<1>2. at # << >>
  <2>1. PICK d \in DOMAIN order : order[d].column = "id"
    BY DEF Keyed
  <2>2. d \in DOMAIN at
    BY <2>1, <1>1
  <2>3. DOMAIN << >> = {}
    OBVIOUS
  <2>4. QED
    BY <2>2, <2>3
<1>3. \A d \in DOMAIN order : Beyond(order[d], r, at[d])
                                 <=> Earlier(order[d], Value(x, order[d]), Value(r, order[d]))
  BY <1>1, BeyondIsEarlier DEF Definite
<1>4. \A d \in DOMAIN order : AtPosition(order[d], r, at[d])
                                 <=> Value(x, order[d]) = Value(r, order[d])
  BY <1>1 DEF AtPosition
<1>5. QED
  BY <1>1, <1>2, <1>3, <1>4 DEF After, Sorted

-----------------------------------------------------------------------------
(* Rows put in order. *)

\* No two of the rows have one key.
Apart(rows) == \A r, s \in rows : r.id = s.id => r = s

Increasing(order, s) == \A m, n \in DOMAIN s : m < n => Sorted(order, s[m], s[n])

LEMMA SomeRowIsLast ==
    ASSUME NEW order, Keyed(order),
           NEW rows \in SUBSET Rows, IsFiniteSet(rows), Apart(rows)
    PROVE  \A some \in SUBSET rows : some # {} =>
                \E m \in some : \A r \in some \ {m} : Sorted(order, r, m)
<1> DEFINE Has(some) == \E m \in some : \A r \in some \ {m} : Sorted(order, r, m)
           T == {n \in Nat : \A some \in SUBSET rows : Cardinality(some) = n + 1 => Has(some)}
<1>1. \A some \in SUBSET rows : IsFiniteSet(some) /\ Cardinality(some) \in Nat
  BY FS_Subset, FS_CardinalityType
<1>2. 0 \in T
  <2>1. ASSUME NEW some \in SUBSET rows, Cardinality(some) = 1 PROVE Has(some)
    <3>1. PICK x : some = {x}
      BY <1>1, <2>1, FS_Singleton
    <3>2. QED
      BY <3>1
  <2>2. QED
    BY <2>1
<1>3. ASSUME NEW n \in Nat, n \in T PROVE n + 1 \in T
  <2>1. ASSUME NEW some \in SUBSET rows, Cardinality(some) = (n + 1) + 1 PROVE Has(some)
    <3>1. some # {}
      BY <2>1, FS_EmptySet
    <3>2. PICK x \in some : TRUE
      BY <3>1
    <3>3. some \ {x} \in SUBSET rows /\ Cardinality(some \ {x}) = n + 1
      BY <1>1, <2>1, <3>2, FS_RemoveElement
    <3>4. Has(some \ {x})
      BY <1>3, <3>3
    <3>5. PICK m \in some \ {x} : \A r \in (some \ {x}) \ {m} : Sorted(order, r, m)
      BY <3>4
    <3>6. x.id # m.id /\ x \in Rows /\ m \in Rows
      BY <3>2, <3>5 DEF Apart
    <3>7. CASE Sorted(order, x, m)
      BY <3>5, <3>7
    <3>8. CASE Sorted(order, m, x)
      <4>1. \A r \in some \ {x} : Sorted(order, r, x)
        BY <3>5, <3>6, <3>8, SortedIsAnOrder
      <4>2. QED
        BY <3>2, <4>1
    <3>9. QED
      BY <3>6, <3>7, <3>8, SortedIsAnOrder
  <2>2. QED
    BY <2>1
<1>4. Nat \subseteq T
  <2> HIDE DEF T
  <2> QED
    BY <1>2, <1>3, CountingUp
<1>5. ASSUME NEW some \in SUBSET rows, some # {} PROVE Has(some)
  <2>1. Cardinality(some) # 0
    BY <1>1, <1>5, FS_EmptySet
  <2>2. Cardinality(some) - 1 \in Nat /\ (Cardinality(some) - 1) + 1 = Cardinality(some)
    BY <1>1, <2>1
  <2>3. Cardinality(some) - 1 \in T
    BY <1>4, <2>2
  <2>4. QED
    BY <2>2, <2>3
<1>6. QED
  BY <1>5

LEMMA OrderedExists ==
    ASSUME NEW order, Keyed(order),
           NEW rows \in SUBSET Rows, IsFiniteSet(rows), Apart(rows)
    PROVE  \E s \in [1..Cardinality(rows) -> rows] : Increasing(order, s)
<1> DEFINE Has(some) == \E s \in [1..Cardinality(some) -> some] : Increasing(order, s)
           T == {n \in Nat : \A some \in SUBSET rows : Cardinality(some) = n => Has(some)}
<1>1. \A some \in SUBSET rows : IsFiniteSet(some) /\ Cardinality(some) \in Nat
  BY FS_Subset, FS_CardinalityType
<1>2. 0 \in T
  <2>1. ASSUME NEW some \in SUBSET rows, Cardinality(some) = 0 PROVE Has(some)
    <3>1. [k \in 1..0 |-> NoRow] \in [1..0 -> some]
      OBVIOUS
    <3>2. Increasing(order, [k \in 1..0 |-> NoRow])
      BY DEF Increasing
    <3>3. QED
      BY <2>1, <3>1, <3>2
  <2>2. QED
    BY <2>1
<1>3. ASSUME NEW n \in Nat, n \in T PROVE n + 1 \in T
  <2>1. ASSUME NEW some \in SUBSET rows, Cardinality(some) = n + 1 PROVE Has(some)
    <3>1. some # {}
      BY <2>1, FS_EmptySet
    <3>2. PICK m \in some : \A r \in some \ {m} : Sorted(order, r, m)
      BY <3>1, SomeRowIsLast
    <3>3. some \ {m} \in SUBSET rows /\ Cardinality(some \ {m}) = n
      <4>1. m \in some /\ IsFiniteSet(some)
        BY <1>1, <3>2
      <4>2. Cardinality(some \ {m}) = Cardinality(some) - 1
        BY <4>1, FS_RemoveElement
      <4>3. QED
        BY <2>1, <4>2
    <3>4. PICK s \in [1..n -> some \ {m}] : Increasing(order, s)
      BY <1>3, <3>3
    <3> DEFINE t == [k \in 1..n + 1 |-> IF k = n + 1 THEN m ELSE s[k]]
    <3>5. t \in [1..n + 1 -> some]
      BY <3>2, <3>4
    <3>6. ASSUME NEW j \in 1..n + 1, NEW k \in 1..n + 1, j < k PROVE Sorted(order, t[j], t[k])
      <4>1. j \in 1..n /\ t[j] = s[j]
        BY <3>6
      <4>2. CASE k = n + 1
        <5>1. t[k] = m /\ s[j] \in some \ {m}
          BY <3>4, <4>1, <4>2
        <5>2. QED
          BY <3>2, <4>1, <5>1
      <4>3. CASE k # n + 1
        <5>1. k \in 1..n /\ t[k] = s[k]
          BY <4>3
        <5>2. Sorted(order, s[j], s[k])
          BY <3>4, <3>6, <4>1, <5>1 DEF Increasing
        <5>3. QED
          BY <4>1, <5>1, <5>2
      <4>4. QED
        BY <4>2, <4>3
    <3>7. DOMAIN t = 1..n + 1
      OBVIOUS
    <3> HIDE DEF t
    <3>8. Increasing(order, t)
      BY <3>6, <3>7 DEF Increasing
    <3>9. QED
      BY <2>1, <3>5, <3>8
  <2>2. QED
    BY <2>1
<1>4. Nat \subseteq T
  <2> HIDE DEF T
  <2> QED
    BY <1>2, <1>3, CountingUp
<1>5. Cardinality(rows) \in T /\ rows \in SUBSET rows
  BY <1>1, <1>4
<1>6. QED
  BY <1>5

\* The rows in order: each once, every one, and sorted.
LEMMA OrderedIs ==
    ASSUME NEW order, Keyed(order),
           NEW rows \in SUBSET Rows, IsFiniteSet(rows), Apart(rows)
    PROVE  LET s == Ordered(order, rows) IN
           /\ s \in Seq(rows)
           /\ Increasing(order, s)
           /\ \A r \in rows : \E n \in DOMAIN s : s[n] = r
<1> DEFINE s == Ordered(order, rows)
           n == Cardinality(rows)
<1>1. s \in [1..n -> rows] /\ Increasing(order, s)
  <2>1. \E t \in [1..n -> rows] : Increasing(order, t)
    BY OrderedExists
  <2>2. s = CHOOSE t \in [1..n -> rows] : Increasing(order, t)
    BY DEF Ordered, Increasing
  <2> HIDE DEF s
  <2>3. QED
    BY <2>1, <2>2
<1> HIDE DEF s
<1>2. n \in Nat
  BY FS_CardinalityType
<1>3. s \in Injection(1..n, rows)
  <2>1. ASSUME NEW j \in 1..n, NEW k \in 1..n, s[j] = s[k] PROVE j = k
    <3>1. j \in Int /\ k \in Int /\ DOMAIN s = 1..n /\ s[j] \in Rows
      BY <1>1, <1>2
    <3>2. ~(j < k)
      BY <1>1, <2>1, <3>1, SortedIsAnOrder DEF Increasing
    <3>3. ~(k < j)
      BY <1>1, <2>1, <3>1, SortedIsAnOrder DEF Increasing
    <3>4. QED
      BY <3>1, <3>2, <3>3
  <2>2. QED
    BY <1>1, <2>1 DEF Injection, IsInjective
<1>4. s \in Surjection(1..n, rows)
  <2>1. IsFiniteSet(1..n) /\ Cardinality(1..n) = n
    BY <1>2, FS_Interval
  <2>2. QED
    BY <1>3, <2>1, FS_Injection
<1>5. \A r \in rows : \E k \in 1..n : s[k] = r
  BY <1>4 DEF Surjection
<1>6. s \in Seq(rows)
  BY <1>1, <1>2
<1>7. QED
  BY <1>1, <1>5, <1>6 DEF s

\* The rows of a table: one of a key, under it.
LEMMA HeldIs ==
    ASSUME table \in Tables
    PROVE  /\ Held \subseteq Rows /\ IsFiniteSet(Held) /\ Apart(Held)
           /\ \A r \in Held : r.id \in Ids /\ table[r.id] = r
           /\ \A i \in Ids : table[i] # NoRow => table[i] \in Held /\ table[i].id = i
<1> DEFINE D == {i \in Ids : table[i] # NoRow}
           f == [i \in D |-> table[i]]
<1>1. \A i \in Ids : table[i] \in Rows \cup {NoRow} /\ (table[i] # NoRow => table[i].id = i)
  BY DEF Tables
<1>2. Held = {table[i] : i \in D}
  BY DEF Held
<1>3. Held \subseteq Rows
  BY <1>1, <1>2
<1>4. f \in Surjection(D, Held)
  BY <1>2 DEF Surjection
<1>5. IsFiniteSet(Held)
  <2>1. IsFiniteSet(D)
    BY FS_Subset, ListingAssumption
  <2> HIDE DEF D, f
  <2>2. QED
    BY <1>4, <2>1, FS_Surjection
<1>6. \A r \in Held : r.id \in Ids /\ table[r.id] = r
  BY <1>1, <1>2
<1>7. \A i \in Ids : table[i] # NoRow => table[i] \in Held /\ table[i].id = i
  BY <1>1, <1>2
<1>8. QED
  BY <1>3, <1>5, <1>6, <1>7 DEF Apart

-----------------------------------------------------------------------------
(* A page read. *)

\* The order a page is read in, either way.
Along(sort, back) == IF back THEN Reversed(Order(sort)) ELSE Order(sort)

\* The rows of a page as they were read, and the cursor that goes on that way.
Nth(items, back, k) == IF back THEN items[Len(items) + 1 - k] ELSE items[k]
Onward(p, back)     == IF back THEN p.previous ELSE p.next

\* A question the listing answers: a position is a row's place.
Answerable(asked) ==
    /\ asked.sort \in DOMAIN Sorts
    /\ Size(asked) \in 1..LargestSize
    /\ asked.number \in Nat
    /\ asked.after = Start \/ asked.before = Start
    /\ Given(asked) # Start =>
          asked.number = 0 /\ \E x \in Rows : Given(asked) = CursorAt(asked, x)

\* The rows past the position.
Candidates(asked) ==
    {r \in Admitted(asked) : After(Along(asked.sort, Back(asked)), r, At(asked))}

\* What a page says of the rows there are, and of what was asked.
Truthful(p, asked) ==
    LET back == Back(asked)
        order == Along(asked.sort, back)
        n == Len(p.items)
        Item(k) == Nth(p.items, back, k)
    IN  /\ p.asked = Kept(asked)
        /\ p.items \in Seq(Candidates(asked)) /\ n <= Size(asked)
        /\ \A j, k \in 1..n : j < k => Sorted(order, Item(j), Item(k))
        /\ \A r \in Candidates(asked) :
              \/ \E k \in 1..n : Item(k) = r
              \/ n > 0 /\ Sorted(order, Item(n), r)
              \/ asked.number > 1 /\ (n > 0 => Sorted(order, r, Item(1)))
        /\ Onward(p, back) # Start <=>
              n > 0 /\ \E r \in Candidates(asked) : Sorted(order, Item(n), r)
        /\ Onward(p, back) # Start => n = Size(asked)
        /\ Onward(p, ~back) # Start <=>
              n > 0 /\ (back \/ asked.after # Start \/ asked.number > 1)
        /\ p.next # Start => n > 0 /\ p.next = CursorAt(asked, Last(p.items))
        /\ p.previous # Start => n > 0 /\ p.previous = CursorAt(asked, Head(p.items))
        /\ asked.number > 1 /\ n > 0 =>
              \E r \in Candidates(asked) : Sorted(order, r, Item(1))

LEMMA AlongIs ==
    ASSUME NEW sort \in DOMAIN Sorts, NEW back \in BOOLEAN
    PROVE  Keyed(Along(sort, back)) /\ (Placed(sort) => Definite(Along(sort, back)))
BY OrderIs, ReversedIs DEF Along

LEMMA CandidatesAre ==
    ASSUME table \in Tables, NEW asked
    PROVE  /\ Candidates(asked) \subseteq Admitted(asked)
           /\ Candidates(asked) \subseteq Rows
           /\ IsFiniteSet(Candidates(asked)) /\ Apart(Candidates(asked))
<1>1. Candidates(asked) \subseteq Admitted(asked) /\ Admitted(asked) \subseteq Held
  BY DEF Candidates, Admitted
<1>2. QED
  BY <1>1, HeldIs, FS_Subset DEF Apart

LEMMA ReadingIs ==
    ASSUME table \in Tables, NEW asked, Answerable(asked)
    PROVE  \E from \in Nat : \E rows \in Seq(Candidates(asked)) :
              /\ Increasing(Along(asked.sort, Back(asked)), rows)
              /\ \A r \in Candidates(asked) : \E n \in DOMAIN rows : rows[n] = r
              /\ asked.number > 1 <=> from >= 1
              /\ Reading(asked) \in Seq(Candidates(asked))
              /\ Len(Reading(asked)) = IF Len(rows) <= from THEN 0
                                       ELSE IF Len(rows) - from <= Size(asked) + 1
                                            THEN Len(rows) - from ELSE Size(asked) + 1
              /\ \A k \in 1..Len(Reading(asked)) : Reading(asked)[k] = rows[from + k]
<1> DEFINE order == Along(asked.sort, Back(asked))
           C     == Candidates(asked)
           rows  == Ordered(order, C)
           size  == Size(asked)
           from  == IF asked.number > 0 THEN (asked.number - 1) * size ELSE 0
           upto  == from + size + 1
           end   == IF upto < Len(rows) THEN upto ELSE Len(rows)
<1>1. Reading(asked) = SubSeq(rows, from + 1, end)
  BY DEF Reading, Candidates, Along
<1>2. Keyed(order) /\ C \in SUBSET Rows /\ IsFiniteSet(C) /\ Apart(C)
  BY AlongIs, CandidatesAre DEF Answerable, Back
<1>3. /\ rows \in Seq(C) /\ Increasing(order, rows)
      /\ \A r \in C : \E n \in DOMAIN rows : rows[n] = r
  <2> HIDE DEF order, C
  <2> QED
    BY <1>2, OrderedIs
<1>4. asked.number \in Nat /\ size \in Nat /\ size >= 1
  BY ListingAssumption DEF Answerable
<1> HIDE DEF size
<1>5. from \in Nat /\ (asked.number > 1 <=> from >= 1)
  <2>1. CASE asked.number = 0
    BY <2>1, <1>4
  <2>2. CASE asked.number = 1
    BY <2>2, <1>4
  <2>3. CASE asked.number > 1
    <3>1. asked.number - 1 \in Nat /\ asked.number - 1 >= 1
      BY <2>3, <1>4
    <3>2. \A a, b \in Nat : a >= 1 /\ b >= 1 => a * b \in Nat /\ a * b >= 1
      OBVIOUS
    <3>3. QED
      BY <2>3, <3>1, <3>2, <1>4
  <2>4. QED
    BY <2>1, <2>2, <2>3, <1>4
<1> HIDE DEF rows, C, from, order
<1>6. Len(rows) \in Nat /\ end \in Int /\ end <= Len(rows)
  BY <1>3, <1>4, <1>5
<1>7. \A k \in from + 1..end : rows[k] \in C
  BY <1>3, <1>5, <1>6
<1> HIDE DEF end
<1>8. /\ SubSeq(rows, from + 1, end) \in Seq(C)
      /\ Len(SubSeq(rows, from + 1, end)) = IF from + 1 <= end THEN end - (from + 1) + 1 ELSE 0
      /\ \A k \in 1..end - (from + 1) + 1 : SubSeq(rows, from + 1, end)[k] = rows[(from + 1) + k - 1]
  BY <1>5, <1>6, <1>7, SubSeqProperties
<1>9. end - (from + 1) + 1 = end - from /\ \A k \in Nat : (from + 1) + k - 1 = from + k
  BY <1>5, <1>6
<1>10. /\ Len(Reading(asked)) = IF from + 1 <= end THEN end - from ELSE 0
       /\ \A k \in 1..Len(Reading(asked)) : Reading(asked)[k] = rows[from + k]
  BY <1>1, <1>5, <1>6, <1>8, <1>9
<1>11. Len(Reading(asked)) = IF Len(rows) <= from THEN 0
                             ELSE IF Len(rows) - from <= size + 1
                                  THEN Len(rows) - from ELSE size + 1
  BY <1>4, <1>5, <1>6, <1>10 DEF end
<1>12. Reading(asked) \in Seq(C)
  BY <1>1, <1>8
<1>13. /\ from \in Nat /\ rows \in Seq(C)
       /\ Increasing(order, rows)
       /\ \A r \in C : \E n \in DOMAIN rows : rows[n] = r
       /\ asked.number > 1 <=> from >= 1
       /\ Reading(asked) \in Seq(C)
       /\ Len(Reading(asked)) = IF Len(rows) <= from THEN 0
                                ELSE IF Len(rows) - from <= size + 1
                                     THEN Len(rows) - from ELSE size + 1
       /\ \A k \in 1..Len(Reading(asked)) : Reading(asked)[k] = rows[from + k]
  BY <1>3, <1>5, <1>10, <1>11, <1>12
<1>14. QED
  BY <1>13, Zenon DEF C, order, size

LEMMA ReverseIs ==
    ASSUME NEW S, NEW s \in Seq(S)
    PROVE  /\ Reverse(s) \in Seq(S) /\ Len(Reverse(s)) = Len(s)
           /\ \A k \in 1..Len(s) : Reverse(s)[Len(s) + 1 - k] = s[k]
<1> DEFINE n == Len(s)
           e(k) == s[(n - k) + 1]
<1>1. n \in Nat /\ \A k \in 1..n : s[k] \in S
  OBVIOUS
<1>2. Reverse(s) = [k \in 1..n |-> e(k)]
  BY DEF Reverse
<1> HIDE DEF n
<1>3. \A k \in 1..n : (n - k) + 1 \in 1..n /\ (n + 1) - k \in 1..n /\ (n - ((n + 1) - k)) + 1 = k
  BY <1>1
<1>4. \A k \in 1..n : e(k) \in S
  BY <1>1, <1>3
<1>5. \A k \in 1..n : e((n + 1) - k) = s[k]
  BY <1>3
<1> HIDE DEF e
<1>6. [k \in 1..n |-> e(k)] \in Seq(S) /\ Len([k \in 1..n |-> e(k)]) = n
  BY <1>1, <1>4, IsASeq
<1>7. \A k \in 1..n : Reverse(s)[(n + 1) - k] = s[k]
  BY <1>2, <1>3, <1>5
<1>8. QED
  BY <1>2, <1>6, <1>7 DEF n

LEMMA CursorIsNotStart ==
    \A asked, x : CursorAt(asked, x) # Start
<1> SUFFICES ASSUME NEW asked, NEW x PROVE CursorAt(asked, x) # Start
  OBVIOUS
<1>1. CursorAt(asked, x).tag = <<asked.sort, Scope \cap asked.where>>
  BY DEF CursorAt, CursorOf, Tag
<1>2. <<asked.sort, Scope \cap asked.where>> # << >>
  OBVIOUS
<1>3. Start.tag = << >>
  BY DEF Start
<1>4. QED
  BY <1>1, <1>2, <1>3

LEMMA PageIsTruthful ==
    ASSUME table \in Tables, NEW asked, Answerable(asked)
    PROVE  Truthful(PageOf(asked, Reading(asked)), asked)
<1> DEFINE back  == Back(asked)
           order == Along(asked.sort, back)
           C     == Candidates(asked)
           q     == Reading(asked)
           size  == Size(asked)
           more  == Len(q) > size
           kept  == IF more THEN SubSeq(q, 1, size) ELSE q
           p     == PageOf(asked, q)
           n     == Len(kept)
<1>1. PICK from \in Nat, rows \in Seq(C) :
              /\ Increasing(order, rows)
              /\ \A r \in C : \E m \in DOMAIN rows : rows[m] = r
              /\ asked.number > 1 <=> from >= 1
              /\ q \in Seq(C)
              /\ Len(q) = IF Len(rows) <= from THEN 0
                          ELSE IF Len(rows) - from <= size + 1
                               THEN Len(rows) - from ELSE size + 1
              /\ \A k \in 1..Len(q) : q[k] = rows[from + k]
  BY ReadingIs
<1>2. /\ p.asked = Kept(asked)
      /\ p.items = IF back THEN Reverse(kept) ELSE kept
      /\ p.next = IF p.items # << >> /\ (more \/ back)
                  THEN CursorAt(asked, Last(p.items)) ELSE Start
      /\ p.previous = IF p.items # << >> /\ (IF back THEN more ELSE asked.after # Start \/ asked.number > 1)
                      THEN CursorAt(asked, Head(p.items)) ELSE Start
  BY DEF PageOf, Paged
<1>3. size \in Nat /\ size >= 1 /\ back \in BOOLEAN /\ asked.number \in Nat /\ Keyed(order)
  <2>1. size \in 1..LargestSize /\ LargestSize \in Nat /\ asked.number \in Nat
    BY ListingAssumption DEF Answerable
  <2>2. back \in BOOLEAN
    BY DEF Back
  <2>3. Keyed(order)
    <3> HIDE DEF back
    <3> QED
      BY <2>2, AlongIs DEF Answerable
  <2>4. QED
    BY <2>1, <2>2, <2>3
<1>4. back => from = 0 /\ asked.number = 0
  BY <1>1 DEF Answerable, Given, Back
<1>5. \A x : CursorAt(asked, x) # Start
  BY CursorIsNotStart
<1>6. C \subseteq Rows
  BY CandidatesAre
<1> HIDE DEF back, order, C, q, size, p
<1> DEFINE L == Len(rows)
<1>0. /\ L \in Nat /\ DOMAIN rows = 1..L /\ \A m \in 1..L : rows[m] \in C
      /\ Len(q) \in Nat
      /\ Len(q) = IF L <= from THEN 0 ELSE IF L - from <= size + 1 THEN L - from ELSE size + 1
      /\ \A k \in 1..Len(q) : q[k] \in C /\ q[k] = rows[from + k]
  <2>1. L \in Nat /\ DOMAIN rows = 1..L /\ \A m \in 1..L : rows[m] \in C
    BY <1>1
  <2>2. q \in Seq(C)
    BY <1>1
  <2>3. Len(q) \in Nat /\ \A k \in 1..Len(q) : q[k] \in C
    BY <2>2
  <2>4. Len(q) = IF L <= from THEN 0 ELSE IF L - from <= size + 1 THEN L - from ELSE size + 1
    BY <1>1
  <2>5. \A k \in 1..Len(q) : q[k] = rows[from + k]
    BY <1>1
  <2> HIDE DEF L
  <2>6. QED
    BY <2>1, <2>3, <2>4, <2>5
<1> HIDE DEF L
<1>7. /\ n \in Nat /\ n <= size /\ kept \in Seq(C)
      /\ n = IF L <= from THEN 0 ELSE IF L - from <= size THEN L - from ELSE size
      /\ more <=> L > from + size
      /\ \A k \in 1..n : kept[k] = rows[from + k] /\ from + k \in DOMAIN rows
  <2>1. more <=> L > from + size
    BY <1>0, <1>3
  <2>2. CASE more
    <3>1. size + 1 = Len(q)
      BY <1>0, <1>3, <2>2
    <3>2. \A k \in 1..size : q[k] \in C
      BY <1>0, <1>3, <3>1
    <3>3. /\ SubSeq(q, 1, size) \in Seq(C)
          /\ Len(SubSeq(q, 1, size)) = IF 1 <= size THEN size - 1 + 1 ELSE 0
          /\ \A k \in 1..size - 1 + 1 : SubSeq(q, 1, size)[k] = q[1 + k - 1]
      BY <1>3, <3>2, SubSeqProperties
    <3>4. kept = SubSeq(q, 1, size)
      BY <2>2
    <3> HIDE DEF kept, more
    <3>5. size - 1 + 1 = size /\ \A k \in 1..size : 1 + k - 1 = k
      BY <1>3
    <3>6. kept \in Seq(C) /\ n = size /\ \A k \in 1..size : kept[k] = q[k]
      BY <1>3, <3>3, <3>4, <3>5
    <3>7. \A k \in 1..size : k \in 1..Len(q) /\ from + k \in 1..L
      BY <1>0, <1>3, <2>1, <2>2, <3>1
    <3> HIDE DEF n
    <3>8. n \in Nat /\ n <= size /\ n = IF L <= from THEN 0 ELSE IF L - from <= size THEN L - from ELSE size
      BY <1>0, <1>3, <2>1, <2>2, <3>6
    <3>9. \A k \in 1..n : kept[k] = rows[from + k] /\ from + k \in DOMAIN rows
      BY <1>0, <3>6, <3>7
    <3>10. QED
      BY <2>1, <3>6, <3>8, <3>9
  <2>3. CASE ~more
    <3>1. kept = q
      BY <2>3
    <3>2. n = Len(q) /\ kept \in Seq(C)
      BY <1>1, <3>1
    <3> HIDE DEF kept, more, n
    <3>3. n \in Nat /\ n <= size /\ n = IF L <= from THEN 0 ELSE IF L - from <= size THEN L - from ELSE size
      BY <1>0, <1>3, <2>1, <2>3, <3>2
    <3>4. \A k \in 1..n : from + k \in 1..L
      BY <1>0, <1>3, <3>3
    <3>5. QED
      BY <1>0, <2>1, <2>3, <3>1, <3>2, <3>3, <3>4
  <2>4. QED
    BY <2>2, <2>3
<1> HIDE DEF kept, more, n
<1>8. /\ p.items \in Seq(C) /\ Len(p.items) = n
      /\ \A k \in 1..n : Nth(p.items, back, k) = rows[from + k]
  <2>1. CASE back
    <3>1. p.items = Reverse(kept)
      BY <1>2, <2>1
    <3>2. /\ Reverse(kept) \in Seq(C) /\ Len(Reverse(kept)) = Len(kept)
          /\ \A k \in 1..Len(kept) : Reverse(kept)[Len(kept) + 1 - k] = kept[k]
      BY <1>7, ReverseIs
    <3>3. p.items \in Seq(C) /\ Len(p.items) = n
      BY <3>1, <3>2 DEF n
    <3>4. \A k \in 1..n : Nth(p.items, back, k) = kept[k]
      BY <2>1, <3>1, <3>2 DEF Nth, n
    <3>5. QED
      BY <1>7, <3>3, <3>4
  <2>2. CASE ~back
    BY <1>2, <1>7, <2>2 DEF Nth, n
  <2>3. QED
    BY <2>1, <2>2
<1>9. p.items # << >> <=> n > 0
  BY <1>7, <1>8
<1> DEFINE Item(k) == Nth(p.items, back, k)
<1>10. \A j, k \in 1..n : j < k => Sorted(order, Item(j), Item(k))
  <2>1. \A j, k \in 1..n : j < k => from + j < from + k
    BY <1>7
  <2>2. QED
    BY <1>1, <1>7, <1>8, <2>1 DEF Increasing
<1>11. ASSUME NEW r \in C
       PROVE  \/ \E k \in 1..n : Item(k) = r
              \/ n > 0 /\ Sorted(order, Item(n), r)
              \/ asked.number > 1 /\ (n > 0 => Sorted(order, r, Item(1)))
  <2>1. PICK m \in DOMAIN rows : rows[m] = r
    BY <1>1
  <2>2. m \in Nat /\ m >= 1 /\ m <= L
    BY <1>0, <2>1
  <2>3. CASE m <= from
    <3>1. asked.number > 1
      BY <1>1, <2>2, <2>3
    <3>2. ASSUME n > 0 PROVE Sorted(order, r, Item(1))
      <4>1. 1 \in 1..n /\ from + 1 \in DOMAIN rows /\ m < from + 1
        BY <1>7, <2>2, <2>3, <3>2
      <4>2. QED
        BY <1>1, <1>8, <2>1, <4>1 DEF Increasing
    <3>3. QED
      BY <3>1, <3>2
  <2>4. CASE m > from /\ m <= from + n
    <3>1. m - from \in 1..n /\ from + (m - from) = m
      BY <1>7, <2>2, <2>4
    <3>2. QED
      BY <1>8, <2>1, <3>1
  <2>5. CASE m > from + n
    <3>1. n = size /\ n > 0
      BY <1>0, <1>3, <1>7, <2>2, <2>5
    <3>2. n \in 1..n /\ from + n \in DOMAIN rows /\ from + n < m
      BY <1>7, <2>2, <2>5, <3>1
    <3>3. QED
      BY <1>1, <1>8, <2>1, <3>1, <3>2 DEF Increasing
  <2>6. QED
    BY <1>0, <1>7, <2>2, <2>3, <2>4, <2>5
<1>12. more <=> n > 0 /\ \E r \in C : Sorted(order, Item(n), r)
  <2>1. \A m \in DOMAIN rows : rows[m] \in C
    BY <1>0
  <2>2. ASSUME more PROVE n > 0 /\ \E r \in C : Sorted(order, Item(n), r)
    <3>1. n = size /\ n > 0 /\ n \in 1..n
      BY <1>0, <1>3, <1>7, <2>2
    <3>2. /\ from + n \in DOMAIN rows /\ from + n + 1 \in DOMAIN rows
          /\ from + n < from + n + 1
      BY <1>0, <1>7, <2>2, <3>1
    <3>3. Sorted(order, rows[from + n], rows[from + n + 1])
      BY <1>1, <3>2 DEF Increasing
    <3>4. QED
      BY <1>8, <2>1, <3>1, <3>2, <3>3
  <2>3. ASSUME ~more, n > 0, NEW r \in C, Sorted(order, Item(n), r) PROVE FALSE
    <3>1. PICK m \in DOMAIN rows : rows[m] = r
      BY <1>1
    <3>2. /\ n \in 1..n /\ from + n \in DOMAIN rows /\ from + n = L
          /\ m <= from + n
      BY <1>0, <1>3, <1>7, <2>3, <3>1
    <3>7. Item(n) = rows[from + n]
      BY <1>8, <3>2
    <3>3. r \in Rows /\ Item(n) \in Rows
      BY <1>6, <2>1, <3>2, <3>7
    <3>4. CASE m = from + n
      BY <2>3, <3>1, <3>3, <3>4, <3>7, <1>3, SortedIsAnOrder
    <3>5. CASE m < from + n
      <4>1. Sorted(order, r, Item(n))
        BY <1>1, <3>1, <3>2, <3>5, <3>7 DEF Increasing
      <4>2. QED
        BY <2>3, <3>3, <4>1, <1>3, SortedIsAnOrder
    <3>6. QED
      BY <1>0, <1>7, <3>1, <3>2, <3>4, <3>5
  <2>4. QED
    BY <2>2, <2>3
<1>13. Onward(p, back) # Start <=> more
  BY <1>2, <1>5, <1>9, <1>12 DEF Onward
<1>14. more => n = size
  BY <1>0, <1>3, <1>7
<1>15. Onward(p, ~back) # Start <=> n > 0 /\ (back \/ asked.after # Start \/ asked.number > 1)
  <2>1. CASE back
    BY <1>2, <1>5, <1>9, <2>1 DEF Onward
  <2>2. CASE ~back
    BY <1>2, <1>5, <1>9, <2>2 DEF Onward
  <2>3. QED
    BY <2>1, <2>2
<1>16. /\ p.next # Start => n > 0 /\ p.next = CursorAt(asked, Last(p.items))
       /\ p.previous # Start => n > 0 /\ p.previous = CursorAt(asked, Head(p.items))
  BY <1>2, <1>9
<1>17. ASSUME asked.number > 1, n > 0 PROVE \E r \in C : Sorted(order, r, Item(1))
  <2>1. /\ 1 \in 1..n /\ from >= 1 /\ from + 1 \in DOMAIN rows /\ 1 \in DOMAIN rows /\ 1 < from + 1
        /\ rows[1] \in C
    <3>1. from >= 1
      BY <1>1, <1>17
    <3>2. 1 \in 1..n
      BY <1>7, <1>17
    <3>3. QED
      BY <1>0, <1>7, <3>1, <3>2
  <2>2. Sorted(order, rows[1], rows[from + 1])
    BY <1>1, <2>1 DEF Increasing
  <2>3. QED
    BY <1>8, <2>1, <2>2
<1>18. Len(p.items) = n /\ n <= size /\ p.items \in Seq(C)
  BY <1>7, <1>8
<1>19. QED
  <2> DEFINE N == Len(p.items)
  <2>1. N = n
    BY <1>18
  <2>2. /\ p.asked = Kept(asked)
        /\ p.items \in Seq(C) /\ N <= size
        /\ \A j, k \in 1..N : j < k => Sorted(order, Item(j), Item(k))
        /\ \A r \in C :
              \/ \E k \in 1..N : Item(k) = r
              \/ N > 0 /\ Sorted(order, Item(N), r)
              \/ asked.number > 1 /\ (N > 0 => Sorted(order, r, Item(1)))
        /\ Onward(p, back) # Start <=> N > 0 /\ \E r \in C : Sorted(order, Item(N), r)
        /\ Onward(p, back) # Start => N = size
        /\ Onward(p, ~back) # Start <=> N > 0 /\ (back \/ asked.after # Start \/ asked.number > 1)
        /\ p.next # Start => N > 0 /\ p.next = CursorAt(asked, Last(p.items))
        /\ p.previous # Start => N > 0 /\ p.previous = CursorAt(asked, Head(p.items))
        /\ asked.number > 1 /\ N > 0 => \E r \in C : Sorted(order, r, Item(1))
    BY <1>2, <1>10, <1>11, <1>12, <1>13, <1>14, <1>15, <1>16, <1>17, <1>18, <2>1
  <2>3. QED
    BY <2>2, Zenon DEF Truthful, C, back, order, size, p, q

-----------------------------------------------------------------------------
(* What may be asked. *)

\* The cursors of the page at hand are of its edges.
PageIs ==
    /\ page.items \in Seq(Rows) /\ Len(page.items) <= LargestSize
    /\ page.asked.sort \in DOMAIN Sorts
    /\ page.next # Start =>
          Len(page.items) > 0 /\ page.next = CursorAt(page.asked, Last(page.items))
    /\ page.previous # Start =>
          Len(page.items) > 0 /\ page.previous = CursorAt(page.asked, Head(page.items))

LEMMA AskedIs ==
    ASSUME NEW asked \in Asked
    PROVE  /\ asked.number \in Int
           /\ asked.after \in {Start, page.next, Garbage}
                \/ \E x \in Positions : asked.after = CursorAt(asked, x)
           /\ asked.before \in {Start, page.previous}
                \/ \E x \in Positions : asked.before = CursorAt(asked, x)
<1>1. ASSUME NEW f \in Firsts
      PROVE  /\ f.number = 0 /\ f.after = Start /\ f.before = Start
             /\ \A c : /\ [f EXCEPT !.after = c].after = c
                       /\ [f EXCEPT !.after = c].before = Start
                       /\ [f EXCEPT !.after = c].number = 0
                       /\ [f EXCEPT !.after = c].sort = f.sort
                       /\ [f EXCEPT !.after = c].where = f.where
                       /\ [f EXCEPT !.before = c].before = c
                       /\ [f EXCEPT !.before = c].after = Start
                       /\ [f EXCEPT !.before = c].number = 0
                       /\ [f EXCEPT !.before = c].sort = f.sort
                       /\ [f EXCEPT !.before = c].where = f.where
             /\ \A n : /\ [f EXCEPT !.number = n].number = n
                       /\ [f EXCEPT !.number = n].after = Start
                       /\ [f EXCEPT !.number = n].before = Start
  BY DEF Firsts, Ask
<1>2. ASSUME NEW f \in Seeking
      PROVE  /\ \A c : /\ [f EXCEPT !.after = c].after = c
                       /\ [f EXCEPT !.after = c].before = Start
                       /\ [f EXCEPT !.after = c].number = 0
                       /\ [f EXCEPT !.after = c].sort = f.sort
                       /\ [f EXCEPT !.after = c].where = f.where
                       /\ [f EXCEPT !.before = c].before = c
                       /\ [f EXCEPT !.before = c].after = Start
                       /\ [f EXCEPT !.before = c].number = 0
                       /\ [f EXCEPT !.before = c].sort = f.sort
                       /\ [f EXCEPT !.before = c].where = f.where
  BY DEF Seeking, Ask
<1>3. CASE asked \in Firsts
  BY <1>1, <1>3
<1>4. CASE asked \in Numbered
  <2>1. PICK f \in Firsts, n \in {1, 2} : asked = [f EXCEPT !.number = n]
    BY <1>4 DEF Numbered
  <2>2. QED
    BY <1>1, <2>1
<1>5. CASE asked \in Sought
  <2>1. CASE \E f \in Seeking, x \in Positions : asked = [f EXCEPT !.after = CursorAt(f, x)]
    <3>1. PICK f \in Seeking, x \in Positions : asked = [f EXCEPT !.after = CursorAt(f, x)]
      BY <2>1
    <3>2. CursorAt(asked, x) = CursorAt(f, x)
      BY <1>2, <3>1 DEF CursorAt, CursorOf
    <3>3. QED
      BY <1>2, <3>1, <3>2
  <2>2. CASE \E f \in Seeking, x \in Positions : asked = [f EXCEPT !.before = CursorAt(f, x)]
    <3>1. PICK f \in Seeking, x \in Positions : asked = [f EXCEPT !.before = CursorAt(f, x)]
      BY <2>2
    <3>2. CursorAt(asked, x) = CursorAt(f, x)
      BY <1>2, <3>1 DEF CursorAt, CursorOf
    <3>3. QED
      BY <1>2, <3>1, <3>2
  <2>3. QED
    BY <1>5, <2>1, <2>2 DEF Sought
<1>6. CASE asked \in Unoffered
  <2>1. \/ asked = Ask(1, Scope, LargestSize + 1)
        \/ asked = Ask(Len(Sorts) + 1, Scope, 0)
        \/ asked = [Ask(1, Scope, 0) EXCEPT !.number = MaxPage + 1]
        \/ asked = [Ask(1, Scope, 0) EXCEPT !.number = -1]
        \/ asked = [Ask(1, Scope, 0) EXCEPT !.after = Garbage]
        \/ asked = [Ask(1, Scope, 0) EXCEPT !.after = page.next, !.before = page.previous]
    BY <1>6 DEF Unoffered
  <2>2. \A a, b, c : /\ Ask(a, b, c).number = 0
                     /\ Ask(a, b, c).after = Start /\ Ask(a, b, c).before = Start
    BY DEF Ask
  <2>3. /\ \A n : /\ [Ask(1, Scope, 0) EXCEPT !.number = n].number = n
                  /\ [Ask(1, Scope, 0) EXCEPT !.number = n].after = Start
                  /\ [Ask(1, Scope, 0) EXCEPT !.number = n].before = Start
        /\ \A c : /\ [Ask(1, Scope, 0) EXCEPT !.after = c].number = 0
                  /\ [Ask(1, Scope, 0) EXCEPT !.after = c].after = c
                  /\ [Ask(1, Scope, 0) EXCEPT !.after = c].before = Start
        /\ \A c, e : /\ [Ask(1, Scope, 0) EXCEPT !.after = c, !.before = e].number = 0
                     /\ [Ask(1, Scope, 0) EXCEPT !.after = c, !.before = e].after = c
                     /\ [Ask(1, Scope, 0) EXCEPT !.after = c, !.before = e].before = e
    BY DEF Ask
  <2>4. MaxPage + 1 \in Int /\ -1 \in Int /\ 0 \in Int
    BY ListingAssumption
  <2>5. CASE asked = Ask(1, Scope, LargestSize + 1) \/ asked = Ask(Len(Sorts) + 1, Scope, 0)
    BY <2>2, <2>4, <2>5
  <2>6. CASE \/ asked = [Ask(1, Scope, 0) EXCEPT !.number = MaxPage + 1]
             \/ asked = [Ask(1, Scope, 0) EXCEPT !.number = -1]
    <3>1. PICK n \in Int : asked = [Ask(1, Scope, 0) EXCEPT !.number = n]
      BY <2>4, <2>6
    <3>2. asked.number = n /\ asked.after = Start /\ asked.before = Start
      BY <2>3, <3>1
    <3>3. QED
      BY <3>2
  <2>7. CASE asked = [Ask(1, Scope, 0) EXCEPT !.after = Garbage]
    BY <2>3, <2>4, <2>7
  <2>8. CASE asked = [Ask(1, Scope, 0) EXCEPT !.after = page.next, !.before = page.previous]
    BY <2>3, <2>4, <2>8
  <2>9. QED
    BY <2>1, <2>5, <2>6, <2>7, <2>8, Zenon
<1>7. CASE asked \in Followed
  <2>1. \/ \E f \in Firsts : asked = [f EXCEPT !.after = page.next]
        \/ \E f \in Firsts : asked = [f EXCEPT !.before = page.previous]
    BY <1>7 DEF Followed
  <2>2. CASE \E f \in Firsts : asked = [f EXCEPT !.after = page.next]
    <3>1. PICK f \in Firsts : asked = [f EXCEPT !.after = page.next]
      BY <2>2
    <3>2. QED
      BY <1>1, <3>1
  <2>3. CASE \E f \in Firsts : asked = [f EXCEPT !.before = page.previous]
    <3>1. PICK f \in Firsts : asked = [f EXCEPT !.before = page.previous]
      BY <2>3
    <3>2. QED
      BY <1>1, <3>1
  <2>4. QED
    BY <2>1, <2>2, <2>3
<1>8. QED
  BY <1>3, <1>4, <1>5, <1>6, <1>7 DEF Asked

\* What is not refused can be answered; and whoever goes on from the page at
\* hand asks in its sort, of its rows.
LEMMA AcceptedIs ==
    ASSUME PageIs, NEW asked \in Asked, ~Refused(asked)
    PROVE  /\ Answerable(asked)
           /\ Onwards(asked) =>
                /\ asked.sort = page.asked.sort
                /\ Scope \cap asked.where = Scope \cap page.asked.where
                /\ Len(page.items) > 0 /\ ~Back(asked) /\ asked.number = 0
                /\ Given(asked) = CursorAt(asked, Last(page.items))
           /\ Backwards(asked) =>
                /\ asked.sort = page.asked.sort
                /\ Scope \cap asked.where = Scope \cap page.asked.where
                /\ Len(page.items) > 0 /\ Back(asked) /\ asked.number = 0
                /\ Given(asked) = CursorAt(asked, Head(page.items))
<1>1. /\ Size(asked) \in 1..LargestSize /\ asked.sort \in DOMAIN Sorts
      /\ asked.number \in Nat
      /\ asked.after # Start => asked.before = Start /\ asked.number = 0
      /\ asked.before # Start => asked.number = 0
      /\ Given(asked) # Start => Given(asked).tag = <<asked.sort, Scope \cap asked.where>>
  BY AskedIs DEF Refused, NotOffered, NotItsCursor, Tag
<1>2. ASSUME NEW of, NEW x, CursorAt(of, x).tag = <<asked.sort, Scope \cap asked.where>>
      PROVE  /\ asked.sort = of.sort /\ Scope \cap asked.where = Scope \cap of.where
             /\ CursorAt(asked, x) = CursorAt(of, x)
  <2>1. CursorAt(of, x).tag = <<of.sort, Scope \cap of.where>>
    BY DEF CursorAt, CursorOf, Tag
  <2>2. asked.sort = of.sort /\ Scope \cap asked.where = Scope \cap of.where
    BY <1>2, <2>1
  <2>3. QED
    BY <2>2 DEF CursorAt, CursorOf, Tag
<1>3. Garbage.tag # <<asked.sort, Scope \cap asked.where>>
  BY DEF Garbage
<1>4. ASSUME Len(page.items) > 0 PROVE Last(page.items) \in Rows /\ Head(page.items) \in Rows
  BY <1>4 DEF PageIs, Last
<1>5. ASSUME asked.after # Start
      PROVE  /\ Given(asked) = asked.after
             /\ \E x \in Rows : Given(asked) = CursorAt(asked, x)
             /\ asked.after = page.next =>
                  /\ asked.sort = page.asked.sort
                  /\ Scope \cap asked.where = Scope \cap page.asked.where
                  /\ Len(page.items) > 0
                  /\ Given(asked) = CursorAt(asked, Last(page.items))
  <2>1. Given(asked) = asked.after
    BY <1>1, <1>5 DEF Given
  <2>2. CASE asked.after = page.next
    <3>1. Len(page.items) > 0 /\ asked.after = CursorAt(page.asked, Last(page.items))
      BY <1>5, <2>2 DEF PageIs
    <3>2. QED
      BY <1>1, <1>2, <1>4, <1>5, <2>1, <2>2, <3>1
  <2>3. CASE asked.after # page.next
    <3>1. PICK x \in Positions : asked.after = CursorAt(asked, x)
      BY <1>1, <1>3, <1>5, <2>1, <2>3, AskedIs
    <3>2. QED
      BY <2>1, <2>3, <3>1, ListingAssumption
  <2>4. QED
    BY <2>1, <2>2, <2>3
<1>6. ASSUME asked.before # Start
      PROVE  /\ Given(asked) = asked.before
             /\ \E x \in Rows : Given(asked) = CursorAt(asked, x)
             /\ asked.before = page.previous =>
                  /\ asked.sort = page.asked.sort
                  /\ Scope \cap asked.where = Scope \cap page.asked.where
                  /\ Len(page.items) > 0
                  /\ Given(asked) = CursorAt(asked, Head(page.items))
  <2>1. Given(asked) = asked.before
    BY <1>6 DEF Given
  <2>2. CASE asked.before = page.previous
    <3>1. Len(page.items) > 0 /\ asked.before = CursorAt(page.asked, Head(page.items))
      BY <1>6, <2>2 DEF PageIs
    <3>2. QED
      BY <1>1, <1>2, <1>4, <1>6, <2>1, <2>2, <3>1
  <2>3. CASE asked.before # page.previous
    <3>1. PICK x \in Positions : asked.before = CursorAt(asked, x)
      BY <1>6, <2>3, AskedIs
    <3>2. QED
      BY <2>1, <2>3, <3>1, ListingAssumption
  <2>4. QED
    BY <2>1, <2>2, <2>3
<1>7. Answerable(asked)
  BY <1>1, <1>5, <1>6 DEF Answerable, Given
<1>8. QED
  BY <1>1, <1>5, <1>6, <1>7 DEF Onwards, Backwards, Back

-----------------------------------------------------------------------------
(* What a page read shows of the rows there are. *)

LEMMA NothingIsPassed ==
    ASSUME NEW asked, Given(asked) = Start
    PROVE  Candidates(asked) = Admitted(asked)
BY DEF Candidates, After, At

\* The rows past a row's place are those that sort after it, either way.
LEMMA PastPlace ==
    ASSUME table \in Tables, NEW asked, Answerable(asked), Placed(asked.sort),
           NEW x \in Rows, Given(asked) = CursorAt(asked, x), NEW r \in Admitted(asked)
    PROVE  r \in Candidates(asked) <=> Sorted(Along(asked.sort, Back(asked)), x, r)
<1> DEFINE order == Order(asked.sort)
           along == Along(asked.sort, Back(asked))
<1>1. Keyed(order) /\ Keyed(along) /\ Definite(along)
  BY OrderIs, AlongIs DEF Answerable, Back
<1>2. DOMAIN along = DOMAIN order /\ \A d \in DOMAIN order : along[d].column = order[d].column
  BY <1>1, ReversedIs DEF Along
<1>3. \A d \in DOMAIN order : Value(x, along[d]) = Value(x, order[d])
  BY <1>2 DEF Value
<1>4. At(asked) = [d \in DOMAIN order |-> Value(x, order[d])]
  BY CursorIsNotStart DEF At, CursorAt, CursorOf
<1>5. At(asked) = [d \in DOMAIN along |-> Value(x, along[d])]
  BY <1>2, <1>3, <1>4
<1>6. r \in Rows
  BY HeldIs DEF Admitted
<1> HIDE DEF along
<1>7. After(along, r, At(asked)) <=> Sorted(along, x, r)
  BY <1>1, <1>5, <1>6, AfterSorts
<1>8. QED
  BY <1>7 DEF Candidates, along

\* The row made of a place sorts as the row whose place it is.
LEMMA AsRowSorts ==
    ASSUME NEW asked, asked.sort \in DOMAIN Sorts, NEW x \in Rows, NEW r \in Rows
    PROVE  LET y == AsRow(asked.sort, CursorAt(asked, x).at)
               order == Order(asked.sort)
           IN  /\ Sorted(order, y, r) <=> Sorted(order, x, r)
               /\ Sorted(order, r, y) <=> Sorted(order, r, x)
<1> DEFINE order == Order(asked.sort)
           at    == CursorAt(asked, x).at
           Of(column) == CHOOSE d \in DOMAIN order : order[d].column = column
           y     == AsRow(asked.sort, at)
<1>1. at = [d \in DOMAIN order |-> Value(x, order[d])]
  BY DEF CursorAt, CursorOf
<1>2. Keyed(order)
  BY OrderIs
<1>3. /\ y.id = at[Of("id")]
      /\ y.rank = IF \E d \in DOMAIN order : order[d].column = "rank" THEN at[Of("rank")] ELSE Null
  BY DEF AsRow
<1> HIDE DEF y, at, order
<1>4. \A column : (\E d \in DOMAIN order : order[d].column = column) =>
          Of(column) \in DOMAIN order /\ order[Of(column)].column = column
  OBVIOUS
<1>5. Of("id") \in DOMAIN order /\ order[Of("id")].column = "id"
  BY <1>2, <1>4 DEF Keyed
<1>6. y.id = x.id
  BY <1>1, <1>3, <1>5 DEF Value
<1>7. ASSUME NEW d \in DOMAIN order PROVE Value(y, order[d]) = Value(x, order[d])
  <2>1. CASE order[d].column = "id"
    BY <1>6, <2>1 DEF Value
  <2>2. CASE order[d].column # "id"
    <3>0. order[d] \in Orderings
      BY <1>2 DEF Keyed
    <3>1. order[d].column = "rank"
      BY <2>2, <3>0 DEF Orderings
    <3>2. Of("rank") \in DOMAIN order /\ order[Of("rank")].column = "rank"
      BY <1>4, <3>1
    <3>3. y.rank = x.rank
      BY <1>1, <1>3, <3>1, <3>2 DEF Value
    <3>4. QED
      BY <3>1, <3>3 DEF Value
  <2>3. QED
    BY <2>1, <2>2
<1>8. \A d \in DOMAIN order : 1..d - 1 \subseteq DOMAIN order
  BY <1>2 DEF Keyed
<1>9. QED
  BY <1>7, <1>8 DEF Sorted, y, at, order

\* The rows ahead of a reader are past the position, and not on an earlier page.
LEMMA AheadIs ==
    ASSUME table \in Tables, NEW asked, Answerable(asked), Placed(asked.sort), NEW items,
           NEW i \in Ahead(asked, items)
    PROVE  \E r \in Candidates(asked) :
              /\ r.id = i
              /\ asked.number > 1 =>
                    items # << >> /\ ~Back(asked) /\ ~Sorted(Order(asked.sort), r, Head(items))
<1> DEFINE order == Order(asked.sort)
           y == AsRow(asked.sort, At(asked))
<1>1. PICK r \in Admitted(asked) :
          /\ r.id = i
          /\ IF Back(asked) THEN Sorted(order, r, y)
             ELSE IF asked.after # Start THEN Sorted(order, y, r)
             ELSE asked.number > 1 => items # << >> /\ ~Sorted(order, r, Head(items))
  BY DEF Ahead
<1>2. r \in Rows
  BY HeldIs DEF Admitted
<1>3. CASE Given(asked) = Start
  <2>1. ~Back(asked) /\ asked.after = Start
    BY <1>3 DEF Given, Back
  <2>2. QED
    BY <1>1, <1>3, <2>1, NothingIsPassed
<1>4. CASE Given(asked) # Start
  <2>1. PICK x \in Rows : Given(asked) = CursorAt(asked, x)
    BY <1>4 DEF Answerable
  <2>2. asked.number = 0 /\ At(asked) = CursorAt(asked, x).at /\ asked.sort \in DOMAIN Sorts
    BY <1>4, <2>1 DEF Answerable, At
  <2>3. /\ Sorted(order, y, r) <=> Sorted(order, x, r)
        /\ Sorted(order, r, y) <=> Sorted(order, r, x)
    BY <1>2, <2>2, AsRowSorts
  <2>4. Sorted(Along(asked.sort, Back(asked)), x, r)
    <3>1. CASE Back(asked)
      <4>1. Sorted(order, r, x)
        BY <1>1, <2>3, <3>1
      <4>2. QED
        BY <1>2, <2>2, <3>1, <4>1, OrderIs, ReversedSorts DEF Along
    <3>2. CASE ~Back(asked)
      <4>1. asked.after # Start
        BY <1>4, <3>2 DEF Given, Back
      <4>2. QED
        BY <1>1, <2>3, <3>2, <4>1 DEF Along
    <3>3. QED
      BY <3>1, <3>2
  <2>5. r \in Candidates(asked)
    BY <2>1, <2>4, PastPlace
  <2>6. QED
    BY <1>1, <2>2, <2>5
<1>5. QED
  BY <1>3, <1>4

LEMMA NthIsThere ==
    ASSUME NEW S, NEW items \in Seq(S), NEW back \in BOOLEAN
    PROVE  /\ \A k \in 1..Len(items) : Nth(items, back, k) \in S
           /\ \A k \in 1..Len(items) : \E m \in 1..Len(items) : Nth(items, back, k) = items[m]
           /\ \A m \in 1..Len(items) : \E k \in 1..Len(items) : items[m] = Nth(items, back, k)
<1> DEFINE n == Len(items)
<1>1. n \in Nat /\ \A k \in 1..n : items[k] \in S
  OBVIOUS
<1> HIDE DEF n
<1>2. \A k \in 1..n : (n + 1) - k \in 1..n /\ (n + 1) - ((n + 1) - k) = k
  BY <1>1
<1>3. QED
  BY <1>1, <1>2 DEF Nth, n

\* A row past the position and not on an earlier page is shown, or comes after
\* what is shown; and what is shown was past the position.
LEMMA ShownOrAhead ==
    ASSUME table \in Tables, NEW asked, Answerable(asked), NEW p, Truthful(p, asked)
    PROVE  LET back == Back(asked)
               order == Along(asked.sort, back)
               n == Len(p.items)
               Item(k) == Nth(p.items, back, k)
           IN  /\ \A r \in Candidates(asked) :
                     (asked.number > 1 => n > 0 /\ ~Sorted(order, r, Item(1))) =>
                        \/ r.id \in Ids_(p.items)
                        \/ Onward(p, back) # Start /\ Sorted(order, Item(n), r)
               /\ \A r \in Held : r.id \in Ids_(p.items) =>
                     r \in Candidates(asked) /\ n > 0 /\ ~Sorted(order, Item(n), r)
               /\ Ids_(p.items) \subseteq Ids
               /\ n > 0 => Item(n) \in Candidates(asked) /\ Item(1) \in Candidates(asked)
<1> DEFINE back == Back(asked)
           order == Along(asked.sort, back)
           n == Len(p.items)
           C == Candidates(asked)
           Item(k) == Nth(p.items, back, k)
<1>1. /\ p.items \in Seq(C) /\ n \in Nat /\ back \in BOOLEAN /\ DOMAIN p.items = 1..n
      /\ \A j, k \in 1..n : j < k => Sorted(order, Item(j), Item(k))
      /\ \A r \in C :
              \/ \E k \in 1..n : Item(k) = r
              \/ n > 0 /\ Sorted(order, Item(n), r)
              \/ asked.number > 1 /\ (n > 0 => Sorted(order, r, Item(1)))
      /\ Onward(p, back) # Start <=> n > 0 /\ \E r \in C : Sorted(order, Item(n), r)
  BY DEF Truthful, Back
<1>2. /\ C \subseteq Held /\ C \subseteq Rows
      /\ \A r \in Held : r.id \in Ids /\ table[r.id] = r
  BY CandidatesAre, HeldIs DEF Admitted
<1>3. Keyed(order)
  BY <1>1, AlongIs DEF Answerable
<1> HIDE DEF back, order, C
<1>4. /\ \A k \in 1..n : Item(k) \in C
      /\ \A k \in 1..n : \E m \in 1..n : Item(k) = p.items[m]
      /\ \A m \in 1..n : \E k \in 1..n : p.items[m] = Item(k)
  <2>1. p.items \in Seq(C) /\ back \in BOOLEAN
    BY <1>1
  <2>2. /\ \A k \in 1..Len(p.items) : Nth(p.items, back, k) \in C
        /\ \A k \in 1..Len(p.items) : \E m \in 1..Len(p.items) : Nth(p.items, back, k) = p.items[m]
        /\ \A m \in 1..Len(p.items) : \E k \in 1..Len(p.items) : p.items[m] = Nth(p.items, back, k)
    <3> DEFINE items == p.items
    <3>1. items \in Seq(C)
      BY <2>1
    <3> HIDE DEF items
    <3>2. /\ \A k \in 1..Len(items) : Nth(items, back, k) \in C
          /\ \A k \in 1..Len(items) : \E m \in 1..Len(items) : Nth(items, back, k) = items[m]
          /\ \A m \in 1..Len(items) : \E k \in 1..Len(items) : items[m] = Nth(items, back, k)
      BY <2>1, <3>1, NthIsThere, Zenon
    <3>3. QED
      BY <3>2 DEF items
  <2>3. QED
    BY <2>2
<1> HIDE DEF n, Item
<1>5. ASSUME NEW r \in C, asked.number > 1 => n > 0 /\ ~Sorted(order, r, Item(1))
      PROVE  r.id \in Ids_(p.items) \/ (Onward(p, back) # Start /\ Sorted(order, Item(n), r))
  <2>1. CASE \E k \in 1..n : Item(k) = r
    <3>1. PICK m \in 1..n : p.items[m] = r
      BY <1>4, <2>1
    <3>2. QED
      BY <1>1, <3>1 DEF Ids_
  <2>2. CASE n > 0 /\ Sorted(order, Item(n), r)
    BY <1>1, <2>2
  <2>3. QED
    BY <1>1, <1>5, <2>1, <2>2
<1>6. ASSUME NEW r \in Held, r.id \in Ids_(p.items)
      PROVE  r \in C /\ n > 0 /\ ~Sorted(order, Item(n), r)
  <2>1. PICK m \in 1..n : p.items[m].id = r.id
    BY <1>1, <1>6 DEF Ids_
  <2>2. PICK k \in 1..n : p.items[m] = Item(k)
    BY <1>4
  <2>3. Item(k) = r /\ r \in C /\ r \in Rows
    <3>1. Item(k) \in C
      BY <1>4
    <3>2. Item(k).id = r.id /\ Item(k) \in Held
      BY <1>2, <2>1, <2>2, <3>1
    <3>3. QED
      BY <1>2, <1>6, <3>1, <3>2
  <2>4. n > 0 /\ k <= n /\ n \in 1..n
    BY <1>1
  <2>5. Item(n) \in Rows
    BY <1>2, <1>4, <2>4
  <2>6. ~Sorted(order, Item(n), r)
    <3>1. CASE k = n
      BY <1>3, <2>3, <3>1, SortedIsAnOrder
    <3>2. CASE k < n
      <4>1. Sorted(order, r, Item(n))
        BY <1>1, <2>3, <2>4, <3>2
      <4>2. QED
        BY <1>3, <2>3, <2>5, <4>1, SortedIsAnOrder
    <3>3. QED
      BY <1>1, <2>4, <3>1, <3>2
  <2>7. QED
    BY <2>3, <2>4, <2>6
<1>7. Ids_(p.items) \subseteq Ids
  <2>1. \A m \in DOMAIN p.items : p.items[m].id \in Ids
    BY <1>1, <1>2
  <2>2. QED
    BY <2>1 DEF Ids_
<1>8. n > 0 => Item(n) \in C /\ Item(1) \in C
  BY <1>1, <1>4
<1>9. QED
  <2>1. \A r \in C : (asked.number > 1 => n > 0 /\ ~Sorted(order, r, Item(1))) =>
              r.id \in Ids_(p.items) \/ (Onward(p, back) # Start /\ Sorted(order, Item(n), r))
    BY <1>5
  <2>2. \A r \in Held : r.id \in Ids_(p.items) => r \in C /\ n > 0 /\ ~Sorted(order, Item(n), r)
    BY <1>6
  <2>3. QED
    BY <2>1, <2>2, <1>7, <1>8, Zenon DEF back, order, C, n, Item
-----------------------------------------------------------------------------
(* What whoever goes on from page to page has seen. *)

\* Where the reader has come to.
Edge == Nth(page.items, walk.back, Len(page.items))

\* The rows due are there, and the listing is of them.
WalkIs ==
    /\ walk \in [back : BOOLEAN, sought : BOOLEAN, sort : DOMAIN Sorts,
                 due : SUBSET Ids, shown : SUBSET Ids, twice : SUBSET Ids]
    /\ walk.twice \subseteq walk.shown
    /\ walk.sort = page.asked.sort
    /\ \A i \in walk.due : table[i] # NoRow /\ i \in Scope \cap page.asked.where

\* A row that stays has been shown once and is not ahead of the reader, or has
\* not been shown, is ahead, and there is a cursor to go on with.
SeenIs ==
    Placed(walk.sort) =>
        \A i \in walk.due :
            /\ i \notin walk.twice
            /\ \/ i \in walk.shown
               \/ /\ Onward(page, walk.back) # Start
                  /\ Sorted(Along(walk.sort, walk.back), Edge, table[i])
            /\ i \in walk.shown /\ Len(page.items) > 0 =>
                  ~Sorted(Along(walk.sort, walk.back), Edge, table[i])

CountsAre ==
    /\ came.way \in {"none", "onward", "back", "written"}
    /\ writes \in 0..MaxWrites /\ reads \in 0..MaxReads

ListingInv ==
    /\ table \in Tables
    /\ PageIs
    /\ WalkIs
    /\ SeenIs
    /\ CountsAre

\* A page keeps the sort, the filter and the size that were asked for.
KeptIs(asked) ==
    /\ Kept(asked).sort = asked.sort /\ Kept(asked).where = asked.where
    /\ Kept(asked).size = asked.size

LEMMA AskedIsKept ==
    ASSUME NEW asked \in Asked
    PROVE  KeptIs(asked)
<1>1. CASE asked \in Firsts
  <2>1. PICK s, w, z : asked = Ask(s, w, z)
    BY <1>1 DEF Firsts
  <2>2. QED
    BY <2>1 DEF Ask, KeptIs, Kept
<1>2. CASE asked \in Numbered
  <2>1. PICK f \in Firsts, n \in {1, 2} : asked = [f EXCEPT !.number = n]
    BY <1>2 DEF Numbered
  <2>2. PICK s, w, z : f = Ask(s, w, z)
    BY DEF Firsts
  <2>3. QED
    BY <2>1, <2>2 DEF Ask, KeptIs, Kept
<1>3. CASE asked \in Sought
  <2>1. \/ \E f \in Seeking, x \in Positions : asked = [f EXCEPT !.after = CursorAt(f, x)]
        \/ \E f \in Seeking, x \in Positions : asked = [f EXCEPT !.before = CursorAt(f, x)]
    BY <1>3 DEF Sought
  <2>2. PICK f \in Seeking, x \in Positions :
            \/ asked = [f EXCEPT !.after = CursorAt(f, x)]
            \/ asked = [f EXCEPT !.before = CursorAt(f, x)]
    BY <2>1
  <2>3. PICK s : f = Ask(s, Scope, 0)
    BY DEF Seeking
  <2>4. QED
    BY <2>2, <2>3 DEF Ask, KeptIs, Kept
<1>4. CASE asked \in Unoffered
  <2>1. \/ asked = Ask(1, Scope, LargestSize + 1)
        \/ asked = Ask(Len(Sorts) + 1, Scope, 0)
        \/ asked = [Ask(1, Scope, 0) EXCEPT !.number = MaxPage + 1]
        \/ asked = [Ask(1, Scope, 0) EXCEPT !.number = -1]
        \/ asked = [Ask(1, Scope, 0) EXCEPT !.after = Garbage]
        \/ asked = [Ask(1, Scope, 0) EXCEPT !.after = page.next, !.before = page.previous]
    BY <1>4 DEF Unoffered
  <2>2. CASE asked = Ask(1, Scope, LargestSize + 1) \/ asked = Ask(Len(Sorts) + 1, Scope, 0)
    BY <2>2 DEF Ask, KeptIs, Kept
  <2>3. CASE \/ asked = [Ask(1, Scope, 0) EXCEPT !.number = MaxPage + 1]
             \/ asked = [Ask(1, Scope, 0) EXCEPT !.number = -1]
    BY <2>3 DEF Ask, KeptIs, Kept
  <2>4. CASE asked = [Ask(1, Scope, 0) EXCEPT !.after = Garbage]
    BY <2>4 DEF Ask, KeptIs, Kept
  <2>5. CASE asked = [Ask(1, Scope, 0) EXCEPT !.after = page.next, !.before = page.previous]
    BY <2>5 DEF Ask, KeptIs, Kept
  <2>6. QED
    BY <2>1, <2>2, <2>3, <2>4, <2>5, Zenon
<1>5. CASE asked \in Followed
  <2>1. PICK f \in Firsts : \/ asked = [f EXCEPT !.after = page.next]
                            \/ asked = [f EXCEPT !.before = page.previous]
    BY <1>5 DEF Followed
  <2>2. PICK s, w, z : f = Ask(s, w, z)
    BY DEF Firsts
  <2>3. QED
    BY <2>1, <2>2 DEF Ask, KeptIs, Kept
<1>6. QED
  BY <1>1, <1>2, <1>3, <1>4, <1>5 DEF Asked

LEMMA ListingInvInit ==
    Init => ListingInv
<1> SUFFICES ASSUME Init PROVE ListingInv
  OBVIOUS
<1>1. table \in Tables
  BY ListingAssumption DEF Init
<1>2. PageIs
  <2>1. /\ page.items = << >> /\ page.asked.sort = 1
        /\ page.next = Start /\ page.previous = Start
    BY DEF Init, NoPage, Ask
  <2>2. 1 \in DOMAIN Sorts
    BY ListingAssumption
  <2>3. QED
    BY <2>1, <2>2, ListingAssumption DEF PageIs
<1>3. WalkIs
  <2>1. walk = [back |-> FALSE, sought |-> FALSE, sort |-> 1, due |-> {}, shown |-> {}, twice |-> {}]
    BY DEF Init
  <2>2. page.asked.sort = 1
    BY DEF Init, NoPage, Ask
  <2>3. 1 \in DOMAIN Sorts
    BY ListingAssumption
  <2>4. QED
    BY <2>1, <2>2, <2>3 DEF WalkIs
<1>4. SeenIs
  BY DEF Init, SeenIs
<1>5. CountsAre
  BY ListingAssumption DEF Init, CountsAre
<1>6. QED
  BY <1>1, <1>2, <1>3, <1>4, <1>5 DEF ListingInv

\* A row written is due no more, and the others are where they were.
LEMMA WriteKeepsListing ==
    ASSUME ListingInv, NEW i \in Ids, NEW row \in {r \in Rows : r.id = i} \cup {NoRow},
           Write(i, row)
    PROVE  ListingInv'
<1>1. /\ table' = [table EXCEPT ![i] = row]
      /\ walk' = [walk EXCEPT !.due = @ \ {i}]
      /\ page' = page /\ reads' = reads /\ writes' = writes + 1 /\ writes < MaxWrites
      /\ came'.way = "written"
  BY DEF Write
<1>2. table \in Tables /\ PageIs /\ WalkIs /\ SeenIs /\ CountsAre
  BY DEF ListingInv
<1>3. table' \in Tables
  BY <1>1, <1>2 DEF Tables
<1>4. /\ walk'.due = walk.due \ {i} /\ walk'.shown = walk.shown /\ walk'.twice = walk.twice
      /\ walk'.back = walk.back /\ walk'.sort = walk.sort
      /\ walk' \in [back : BOOLEAN, sought : BOOLEAN, sort : DOMAIN Sorts,
                    due : SUBSET Ids, shown : SUBSET Ids, twice : SUBSET Ids]
  BY <1>1, <1>2 DEF WalkIs
<1>5. \A j \in walk'.due : j \in walk.due /\ table'[j] = table[j]
  BY <1>1, <1>2, <1>4 DEF Tables, WalkIs
<1>6. PageIs'
  BY <1>1, <1>2 DEF PageIs, CursorAt, CursorOf
<1>7. WalkIs'
  BY <1>1, <1>2, <1>4, <1>5 DEF WalkIs
<1>8. SeenIs'
  BY <1>1, <1>2, <1>4, <1>5 DEF SeenIs, Edge
<1>9. CountsAre'
  BY <1>1, <1>2, ListingAssumption DEF CountsAre
<1>10. QED
  BY <1>3, <1>6, <1>7, <1>8, <1>9 DEF ListingInv

LEMMA EndsAre ==
    ASSUME NEW items, items \in Seq(Rows), Len(items) > 0
    PROVE  /\ Nth(items, TRUE, Len(items)) = Head(items)
           /\ Nth(items, FALSE, Len(items)) = Last(items)
           /\ Nth(items, TRUE, 1) = Last(items)
           /\ Nth(items, FALSE, 1) = Head(items)
           /\ Head(items) \in Rows /\ Last(items) \in Rows
<1>1. Len(items) \in Nat /\ Len(items) + 1 - Len(items) = 1 /\ Len(items) + 1 - 1 = Len(items)
  OBVIOUS
<1>2. Head(items) = items[1] /\ Last(items) = items[Len(items)]
  BY DEF Last
<1>3. QED
  BY <1>1, <1>2 DEF Nth

\* Whoever goes on from the page reads past its edge.
LEMMA GoingOnSees ==
    ASSUME ListingInv, NEW asked \in Asked, ~Refused(asked),
           (Onwards(asked) /\ ~walk.back) \/ (Backwards(asked) /\ walk.back),
           NEW p, Truthful(p, asked), NEW i \in walk.due, Placed(walk.sort)
    PROVE  LET shown == Ids_(p.items)
               along == Along(walk.sort, walk.back)
               edge  == Nth(p.items, walk.back, Len(p.items))
           IN  /\ ~(i \in walk.shown /\ i \in shown)
               /\ \/ i \in walk.shown \cup shown
                  \/ Onward(p, walk.back) # Start /\ Sorted(along, edge, table[i])
               /\ i \in walk.shown \cup shown /\ Len(p.items) > 0 => ~Sorted(along, edge, table[i])
<1> DEFINE back  == walk.back
           shown == Ids_(p.items)
           along == Along(walk.sort, back)
           n     == Len(p.items)
           edge  == Nth(p.items, back, n)
           r     == table[i]
<1>1. table \in Tables /\ PageIs /\ WalkIs /\ SeenIs
  BY DEF ListingInv
<1>2. /\ Answerable(asked) /\ back \in BOOLEAN /\ Back(asked) = back /\ asked.number = 0
      /\ asked.sort = walk.sort /\ Scope \cap asked.where = Scope \cap page.asked.where
      /\ Len(page.items) > 0
      /\ Given(asked) = CursorAt(asked, IF back THEN Head(page.items) ELSE Last(page.items))
  <2>1. Answerable(asked) /\ back \in BOOLEAN /\ walk.sort = page.asked.sort
    BY <1>1, AcceptedIs DEF WalkIs
  <2>2. CASE Onwards(asked) /\ ~back
    BY <1>1, <2>1, <2>2, AcceptedIs DEF Back
  <2>3. CASE Backwards(asked) /\ back
    BY <1>1, <2>1, <2>3, AcceptedIs DEF Back
  <2>4. QED
    BY <2>2, <2>3
<1>3. Edge \in Rows /\ Given(asked) = CursorAt(asked, Edge)
  BY <1>1, <1>2, EndsAre DEF Edge, PageIs
<1>4. r \in Held /\ r \in Rows /\ r.id = i /\ r \in Admitted(asked)
  BY <1>1, <1>2, HeldIs DEF WalkIs, Admitted
<1>5. r \in Candidates(asked) <=> Sorted(along, Edge, r)
  BY <1>1, <1>2, <1>3, <1>4, PastPlace
<1>6. /\ (Onward(page, back) # Start /\ Sorted(along, Edge, r)) \/ i \in walk.shown
      /\ i \in walk.shown => ~Sorted(along, Edge, r)
  BY <1>1, <1>2 DEF SeenIs
<1>7. /\ r \in Candidates(asked) =>
            i \in shown \/ (Onward(p, back) # Start /\ Sorted(along, edge, r))
      /\ i \in shown => r \in Candidates(asked) /\ n > 0 /\ ~Sorted(along, edge, r)
      /\ n > 0 => edge \in Candidates(asked)
  BY <1>1, <1>2, <1>4, ShownOrAhead
<1>8. n > 0 => edge \in Rows /\ Sorted(along, Edge, edge)
  <2>1. SUFFICES ASSUME n > 0 PROVE edge \in Rows /\ Sorted(along, Edge, edge)
    OBVIOUS
  <2>2. edge \in Admitted(asked) /\ edge \in Rows
    BY <1>1, <1>7, <2>1, CandidatesAre
  <2>3. QED
    BY <1>1, <1>2, <1>3, <1>7, <2>1, <2>2, PastPlace
<1>9. n > 0 /\ Sorted(along, edge, r) => Sorted(along, Edge, r)
  <2>1. Keyed(along)
    BY <1>2, AlongIs DEF Answerable
  <2>2. QED
    BY <1>3, <1>4, <1>8, <2>1, SortedIsAnOrder
<1> HIDE DEF back, shown, along, edge, r, n
<1>10. /\ ~(i \in walk.shown /\ i \in shown)
       /\ i \in walk.shown \cup shown \/ (Onward(p, back) # Start /\ Sorted(along, edge, r))
       /\ i \in walk.shown \cup shown /\ n > 0 => ~Sorted(along, edge, r)
  BY <1>5, <1>6, <1>7, <1>9
<1>11. QED
  BY <1>10 DEF back, shown, along, edge, r, n

\* Whoever begins has ahead what is past the position, or on no earlier page.
LEMMA BeginningSees ==
    ASSUME table \in Tables, NEW asked, Answerable(asked), Placed(asked.sort),
           NEW p, Truthful(p, asked), NEW i \in Ahead(asked, p.items)
    PROVE  LET shown == Ids_(p.items)
               along == Along(asked.sort, Back(asked))
               edge  == Nth(p.items, Back(asked), Len(p.items))
           IN  /\ i \in shown \/ (Onward(p, Back(asked)) # Start /\ Sorted(along, edge, table[i]))
               /\ i \in shown /\ Len(p.items) > 0 => ~Sorted(along, edge, table[i])
<1> DEFINE back  == Back(asked)
           along == Along(asked.sort, back)
           n     == Len(p.items)
           edge  == Nth(p.items, back, n)
<1>1. PICK r \in Candidates(asked) :
          /\ r.id = i
          /\ asked.number > 1 =>
                p.items # << >> /\ ~back /\ ~Sorted(Order(asked.sort), r, Head(p.items))
  BY AheadIs
<1>2. r \in Held /\ r = table[i]
  BY <1>1, HeldIs, CandidatesAre DEF Admitted
<1>3. p.items \in Seq(Rows) /\ n \in Nat
  BY CandidatesAre DEF Truthful
<1>4. asked.number > 1 => n > 0 /\ ~Sorted(along, r, Nth(p.items, back, 1))
  <2>1. SUFFICES ASSUME asked.number > 1
                 PROVE  n > 0 /\ ~Sorted(along, r, Nth(p.items, back, 1))
    OBVIOUS
  <2>2. n > 0
    BY <1>1, <1>3, <2>1
  <2>3. Nth(p.items, back, 1) = Head(p.items)
    BY <1>1, <1>3, <2>1, <2>2 DEF Nth
  <2>4. QED
    BY <1>1, <2>1, <2>2, <2>3 DEF Along
<1>5. /\ i \in Ids_(p.items) \/ (Onward(p, back) # Start /\ Sorted(along, edge, r))
      /\ i \in Ids_(p.items) => ~Sorted(along, edge, r)
  BY <1>1, <1>2, <1>4, ShownOrAhead
<1>6. QED
  BY <1>2, <1>5

LEMMA ReadKeepsListing ==
    ASSUME ListingInv, NEW asked \in Asked, Read(asked)
    PROVE  ListingInv'
<1> DEFINE p == PageOf(asked, Reading(asked))
           goesOn == (Onwards(asked) /\ ~walk.back) \/ (Backwards(asked) /\ walk.back)
           shown == Ids_(p.items)
<1>1. /\ ~Refused(asked) /\ page' = p /\ walk' = Walked(asked, page'.items)
      /\ table' = table /\ writes' = writes /\ reads' = reads + 1 /\ reads < MaxReads
      /\ came'.way = IF came.way = "written" THEN "none" ELSE Way(asked)
  BY DEF Read
<1>2. table \in Tables /\ PageIs /\ WalkIs /\ SeenIs /\ CountsAre
  BY DEF ListingInv
<1>3. Answerable(asked) /\ Truthful(p, asked) /\ KeptIs(asked)
  BY <1>1, <1>2, AcceptedIs, PageIsTruthful, AskedIsKept
<1>4. walk' = IF goesOn
              THEN [walk EXCEPT !.shown = walk.shown \cup shown,
                                !.twice = walk.twice \cup (walk.shown \cap shown)]
              ELSE [back |-> Back(asked), sort |-> asked.sort, due |-> Ahead(asked, p.items),
                    sought |-> IF Way(asked) = "none" THEN Given(asked) # Start ELSE walk.sought,
                    shown |-> shown, twice |-> {}]
  BY <1>1 DEF Walked
<1> HIDE DEF p
<1>5. /\ p.asked.sort = asked.sort /\ p.asked.where = asked.where
      /\ p.items \in Seq(Rows) /\ Len(p.items) <= LargestSize /\ shown \subseteq Ids
  <2>1. /\ p.asked = Kept(asked) /\ p.items \in Seq(Candidates(asked))
        /\ Len(p.items) <= Size(asked)
    BY <1>3 DEF Truthful
  <2>2. Candidates(asked) \subseteq Rows
    BY <1>2, CandidatesAre
  <2>3. Size(asked) <= LargestSize /\ Size(asked) \in Int /\ LargestSize \in Int
    BY <1>3, ListingAssumption DEF Answerable
  <2>4. Len(p.items) <= LargestSize
    BY <2>1, <2>3
  <2>5. shown \subseteq Ids
    BY <1>2, <1>3, ShownOrAhead
  <2>6. QED
    BY <1>3, <2>1, <2>2, <2>4, <2>5 DEF KeptIs
<1>6. PageIs'
  <2>1. \A x : CursorAt(asked, x) = CursorAt(p.asked, x)
    BY <1>5 DEF CursorAt, CursorOf, Tag
  <2>2. /\ p.next # Start => Len(p.items) > 0 /\ p.next = CursorAt(p.asked, Last(p.items))
        /\ p.previous # Start =>
              Len(p.items) > 0 /\ p.previous = CursorAt(p.asked, Head(p.items))
    BY <1>3, <2>1 DEF Truthful
  <2>3. p.asked.sort \in DOMAIN Sorts
    BY <1>3, <1>5 DEF Answerable
  <2>4. QED
    BY <1>1, <1>5, <2>2, <2>3 DEF PageIs, CursorAt, CursorOf
<1>7. WalkIs' /\ SeenIs'
  <2>1. CASE goesOn
    <3>1. /\ walk'.back = walk.back /\ walk'.sort = walk.sort /\ walk'.due = walk.due
          /\ walk'.shown = walk.shown \cup shown
          /\ walk'.twice = walk.twice \cup (walk.shown \cap shown)
          /\ walk' \in [back : BOOLEAN, sought : BOOLEAN, sort : DOMAIN Sorts,
                        due : SUBSET Ids, shown : SUBSET Ids, twice : SUBSET Ids]
      BY <1>2, <1>4, <1>5, <2>1 DEF WalkIs
    <3>2. asked.sort = walk.sort /\ Scope \cap asked.where = Scope \cap page.asked.where
      BY <1>1, <1>2, <2>1, AcceptedIs DEF WalkIs
    <3>3. Scope \cap page'.asked.where = Scope \cap page.asked.where /\ page'.asked.sort = walk.sort
      BY <1>1, <1>5, <3>2
    <3>4. WalkIs'
      BY <1>1, <1>2, <3>1, <3>3 DEF WalkIs
    <3>5. SeenIs'
      <4>1. SUFFICES ASSUME Placed(walk.sort), NEW i \in walk.due
                     PROVE  LET along == Along(walk.sort, walk.back)
                                edge  == Nth(p.items, walk.back, Len(p.items))
                            IN  /\ i \notin walk.twice \cup (walk.shown \cap shown)
                                /\ \/ i \in walk.shown \cup shown
                                   \/ /\ Onward(p, walk.back) # Start
                                      /\ Sorted(along, edge, table[i])
                                /\ i \in walk.shown \cup shown /\ Len(p.items) > 0 =>
                                      ~Sorted(along, edge, table[i])
        BY <1>1, <3>1 DEF SeenIs, Edge, Placed, Along, Order
      <4>2. i \notin walk.twice
        BY <1>2, <4>1 DEF SeenIs
      <4>3. QED
        BY <1>1, <1>3, <2>1, <4>1, <4>2, GoingOnSees
    <3>6. QED
      BY <3>4, <3>5
  <2>2. CASE ~goesOn
    <3>1. /\ walk'.back = Back(asked) /\ walk'.sort = asked.sort
          /\ walk'.due = Ahead(asked, p.items)
          /\ walk'.shown = shown /\ walk'.twice = {}
      BY <1>4, <2>2
    <3>2. ASSUME NEW i \in Ahead(asked, p.items)
          PROVE  i \in Ids /\ table[i] # NoRow /\ i \in Scope \cap asked.where
      <4>1. PICK r \in Admitted(asked) : r.id = i
        BY DEF Ahead
      <4>2. r \in Held /\ r \in Rows /\ i \in Ids /\ table[i] = r /\ i \in Scope \cap asked.where
        BY <1>2, <4>1, HeldIs DEF Admitted
      <4>3. r # NoRow
        <5>1. PICK j \in Ids : r = table[j] /\ table[j] # NoRow
          BY <4>2 DEF Held
        <5>2. QED
          BY <5>1
      <4>4. QED
        BY <4>2, <4>3
    <3>3. WalkIs'
      <4>1. walk' \in [back : BOOLEAN, sought : BOOLEAN, sort : DOMAIN Sorts,
                       due : SUBSET Ids, shown : SUBSET Ids, twice : SUBSET Ids]
        <5>1. (IF Way(asked) = "none" THEN Given(asked) # Start ELSE walk.sought) \in BOOLEAN
          BY <1>2 DEF WalkIs
        <5>2. asked.sort \in DOMAIN Sorts /\ Back(asked) \in BOOLEAN
          BY <1>3 DEF Answerable, Back
        <5>3. Ahead(asked, p.items) \subseteq Ids
          BY <3>2
        <5>4. QED
          BY <1>4, <1>5, <2>2, <5>1, <5>2, <5>3
      <4>2. QED
        BY <1>1, <1>5, <3>1, <3>2, <4>1 DEF WalkIs
    <3>4. SeenIs'
      <4>1. SUFFICES ASSUME Placed(asked.sort), NEW i \in Ahead(asked, p.items)
                     PROVE  LET along == Along(asked.sort, Back(asked))
                                edge  == Nth(p.items, Back(asked), Len(p.items))
                            IN  /\ \/ i \in shown
                                   \/ /\ Onward(p, Back(asked)) # Start
                                      /\ Sorted(along, edge, table[i])
                                /\ i \in shown /\ Len(p.items) > 0 =>
                                      ~Sorted(along, edge, table[i])
        BY <1>1, <3>1 DEF SeenIs, Edge, Placed, Along, Order
      <4>2. QED
        BY <1>2, <1>3, <4>1, BeginningSees
    <3>5. QED
      BY <3>3, <3>4
  <2>3. QED
    BY <2>1, <2>2
<1>8. CountsAre'
  BY <1>1, <1>2, ListingAssumption DEF CountsAre, Way
<1>9. QED
  BY <1>1, <1>2, <1>6, <1>7, <1>8 DEF ListingInv

LEMMA ListingInvNext ==
    ListingInv /\ [Next]_vars => ListingInv'
<1> SUFFICES ASSUME ListingInv, [Next]_vars PROVE ListingInv'
  OBVIOUS
<1>1. ASSUME NEW i \in Ids, NEW row \in {r \in Rows : r.id = i} \cup {NoRow}, Write(i, row)
      PROVE  ListingInv'
  BY <1>1, WriteKeepsListing
<1>2. ASSUME NEW asked \in Asked, Read(asked) PROVE ListingInv'
  BY <1>2, ReadKeepsListing
<1>3. ASSUME UNCHANGED <<table, page, walk, came, writes>>, reads' \in 0..MaxReads
      PROVE  ListingInv'
  <2>1. table' \in Tables /\ CountsAre'
    BY <1>3 DEF ListingInv, CountsAre, Tables
  <2>2. PageIs'
    BY <1>3 DEF ListingInv, PageIs, CursorAt, CursorOf
  <2>3. WalkIs'
    BY <1>3 DEF ListingInv, WalkIs
  <2>4. SeenIs'
    BY <1>3 DEF ListingInv, SeenIs, Edge
  <2>5. QED
    BY <2>1, <2>2, <2>3, <2>4 DEF ListingInv
<1>4. ASSUME NEW asked \in Asked, Refuse(asked) PROVE ListingInv'
  <2>1. reads' \in 0..MaxReads
    BY <1>4, ListingAssumption DEF Refuse, ListingInv, CountsAre
  <2>2. QED
    BY <1>3, <1>4, <2>1 DEF Refuse
<1>5. CASE UNCHANGED vars
  BY <1>3, <1>5 DEF vars, ListingInv, CountsAre
<1>6. QED
  BY <1>1, <1>2, <1>4, <1>5 DEF Next

\* Whatever is read and written, the invariant holds (listing.go: Page).
THEOREM ListingInvAlways ==
    Spec => []ListingInv
<1>1. QED
  BY ListingInvInit, ListingInvNext, PTL DEF Spec

\* Every variable has its type, and a page is no longer than the largest that
\* may be asked for, whatever the tables, sorts and sizes (listing.go: Page).
THEOREM ListingTypesAreKept ==
    Spec => []TypeOK
<1>1. ASSUME ListingInv PROVE TypeOK
  <2>1. table \in Tables /\ PageIs /\ WalkIs /\ CountsAre
    BY <1>1 DEF ListingInv
  <2>2. ASSUME NEW x \in Rows PROVE CursorAt(page.asked, x) \in Cursors
    <3> DEFINE order == Order(page.asked.sort)
               at == [d \in DOMAIN order |-> Value(x, order[d])]
               tag == <<page.asked.sort, Scope \cap page.asked.where>>
    <3>1. CursorAt(page.asked, x) = [tag |-> tag, at |-> at]
      BY DEF CursorAt, CursorOf, Tag
    <3>2. Keyed(order)
      BY <2>1, OrderIs DEF PageIs
    <3> HIDE DEF order
    <3>3. order \in Seq(Orderings) /\ \A d \in DOMAIN order : Value(x, order[d]) \in Values
      BY <3>2, ValueTypes DEF Keyed
    <3>4. at \in Seq(Values)
      <4>1. Len(order) \in Nat /\ DOMAIN order = 1..Len(order)
        BY <3>3
      <4>2. at \in [1..Len(order) -> Values]
        BY <3>3, <4>1
      <4>3. QED
        BY <4>1, <4>2
    <3>5. tag \in (DOMAIN Sorts) \X SUBSET Ids
      BY <2>1, ListingAssumption DEF PageIs
    <3>6. QED
      BY <3>1, <3>4, <3>5 DEF Cursors, Values
  <2>3. /\ page.next # Start => page.next \in Cursors
        /\ page.previous # Start => page.previous \in Cursors
    BY <2>1, <2>2, EndsAre DEF PageIs
  <2>4. Start \in Cursors
    BY DEF Cursors
  <2>5. /\ walk.due \subseteq Ids /\ walk.twice \subseteq walk.shown /\ walk.shown \subseteq Ids
    BY <2>1 DEF WalkIs
  <2>6. QED
    BY <2>1, <2>3, <2>4, <2>5 DEF TypeOK, PageIs, CountsAre
<1>2. QED
  BY <1>1, ListingInvAlways, PTL

\* Of the rows nobody wrote meanwhile, whoever goes on from page to page, either
\* way, is shown every one and none twice: in every sort that says where its
\* nulls go, with ties, with pages of any size, whatever is written in between
\* (listing_page.go: reading, pageOf; criteria.go: After, Beyond).
THEOREM NoneSkippedNoneRepeated ==
    Spec => []NeitherSkippedNorRepeated
<1>1. ASSUME ListingInv PROVE NeitherSkippedNorRepeated
  <2>1. table \in Tables /\ PageIs /\ WalkIs /\ SeenIs
    BY <1>1 DEF ListingInv
  <2>2. SUFFICES ASSUME Placed(walk.sort), NEW i \in walk.due
                 PROVE  i \notin walk.twice /\ (i \in walk.shown \/ (~AtEnd /\ Further(table[i])))
    BY DEF NeitherSkippedNorRepeated
  <2>3. /\ i \notin walk.twice
        /\ i \in walk.shown \/ ( /\ Onward(page, walk.back) # Start
                                 /\ Sorted(Along(walk.sort, walk.back), Edge, table[i]) )
    BY <2>1, <2>2 DEF SeenIs
  <2>4. ASSUME Onward(page, walk.back) # Start,
               Sorted(Along(walk.sort, walk.back), Edge, table[i])
        PROVE  ~AtEnd /\ Further(table[i])
    <3>1. page.items \in Seq(Rows) /\ Len(page.items) > 0
      BY <2>1, <2>4 DEF PageIs, Onward
    <3>2. table[i] \in Rows /\ walk.sort \in DOMAIN Sorts /\ walk.back \in BOOLEAN
      BY <2>1, HeldIs DEF WalkIs
    <3>3. ~AtEnd
      BY <2>4 DEF AtEnd, Onward
    <3>4. Keyed(Order(walk.sort)) /\ Definite(Order(walk.sort))
      BY <2>2, <3>2, OrderIs
    <3>5. CASE walk.back
      <4>1. Sorted(Reversed(Order(walk.sort)), Head(page.items), table[i])
        BY <2>4, <3>1, <3>5, EndsAre DEF Along, Edge
      <4>2. Head(page.items) \in Rows
        BY <3>1, EndsAre
      <4>3. QED
        BY <3>2, <3>3, <3>4, <3>5, <4>1, <4>2, ReversedSorts DEF Further
    <3>6. CASE ~walk.back
      BY <2>4, <3>1, <3>2, <3>3, <3>6, EndsAre DEF Along, Edge, Further
    <3>7. QED
      BY <3>5, <3>6
  <2>5. QED
    BY <2>3, <2>4
<1>2. QED
  BY <1>1, ListingInvAlways, PTL

-----------------------------------------------------------------------------
(* What a page says of the rows on either side of it. *)

\* The other way, the rows sort the other way.
LEMMA OtherWaySorts ==
    ASSUME NEW sort \in DOMAIN Sorts, Placed(sort), NEW back \in BOOLEAN,
           NEW r \in Rows, NEW s \in Rows
    PROVE  Sorted(Along(sort, ~back), r, s) <=> Sorted(Along(sort, back), s, r)
<1>1. Sorted(Reversed(Order(sort)), r, s) <=> Sorted(Order(sort), s, r)
  BY OrderIs, ReversedSorts
<1>2. Sorted(Reversed(Order(sort)), s, r) <=> Sorted(Order(sort), r, s)
  BY OrderIs, ReversedSorts
<1>3. QED
  BY <1>1, <1>2 DEF Along

LEMMA OtherWayIs ==
    ASSUME NEW S, NEW items \in Seq(S), NEW back \in BOOLEAN, NEW k \in 1..Len(items)
    PROVE  /\ Nth(items, ~back, k) = Nth(items, back, (Len(items) + 1) - k)
           /\ (Len(items) + 1) - k \in 1..Len(items)
<1>1. Len(items) \in Nat
  OBVIOUS
<1>2. (Len(items) + 1) - ((Len(items) + 1) - k) = k
  BY <1>1
<1>3. QED
  BY <1>1, <1>2 DEF Nth

\* Along a direction, rows of a page are next to one another among all there are.
Window(items, back, order, rows) ==
    LET n == Len(items)
        Item(k) == Nth(items, back, k)
    IN  /\ items \in Seq(rows)
        /\ \A j, k \in 1..n : j < k => Sorted(order, Item(j), Item(k))
        /\ \A r \in rows : \/ \E k \in 1..n : Item(k) = r
                           \/ Sorted(order, Item(n), r)
                           \/ Sorted(order, r, Item(1))

\* In the direction it was read in, a page is a window with nothing past its
\* end if there is no cursor there, nor before its beginning.
LEMMA ReadWindow ==
    ASSUME table \in Tables, NEW asked, Answerable(asked), Placed(asked.sort),
           NEW p, Truthful(p, asked), Len(p.items) > 0
    PROVE  LET back  == Back(asked)
               order == Along(asked.sort, back)
               n     == Len(p.items)
           IN  /\ Window(p.items, back, order, Admitted(asked))
               /\ Onward(p, back) = Start =>
                     \A r \in Admitted(asked) : ~Sorted(order, Nth(p.items, back, n), r)
               /\ Onward(p, ~back) = Start =>
                     \A r \in Admitted(asked) : ~Sorted(order, r, Nth(p.items, back, 1))
<1> DEFINE back == Back(asked)
           order == Along(asked.sort, back)
           n == Len(p.items)
           C == Candidates(asked)
           A == Admitted(asked)
           Item(k) == Nth(p.items, back, k)
<1>1. /\ p.items \in Seq(C) /\ n \in Nat /\ back \in BOOLEAN /\ 1 \in 1..n /\ n \in 1..n
      /\ \A j, k \in 1..n : j < k => Sorted(order, Item(j), Item(k))
      /\ \A r \in C :
              \/ \E k \in 1..n : Item(k) = r
              \/ n > 0 /\ Sorted(order, Item(n), r)
              \/ asked.number > 1 /\ (n > 0 => Sorted(order, r, Item(1)))
      /\ Onward(p, back) # Start <=> n > 0 /\ \E r \in C : Sorted(order, Item(n), r)
      /\ Onward(p, ~back) # Start <=>
              n > 0 /\ (back \/ asked.after # Start \/ asked.number > 1)
  BY DEF Truthful, Back
<1>2. C \subseteq A /\ C \subseteq Rows /\ A \subseteq Rows /\ Apart(A)
  BY CandidatesAre, HeldIs DEF Admitted, Apart
<1>3. Keyed(order)
  BY <1>1, AlongIs DEF Answerable
<1>4. p.items \in Seq(A)
  BY <1>1, <1>2
<1>5. \A k \in 1..n : Item(k) \in C
  <2> DEFINE items == p.items
  <2>1. items \in Seq(C)
    BY <1>1
  <2> HIDE DEF items, C, back
  <2>2. \A k \in 1..Len(items) : Nth(items, back, k) \in C
    BY <1>1, <2>1, NthIsThere, Zenon
  <2>3. QED
    BY <2>2 DEF items
<1>6. CASE Given(asked) = Start
  <2>1. C = A
    BY <1>6, NothingIsPassed
  <2>2. back = FALSE /\ asked.after = Start
    BY <1>6 DEF Given, Back
  <2> HIDE DEF back, order, C, A, n, Item
  <2>3. ASSUME NEW r \in A
        PROVE  \/ \E k \in 1..n : Item(k) = r
               \/ Sorted(order, Item(n), r)
               \/ Sorted(order, r, Item(1))
    BY <1>1, <2>1
  <2>4. ASSUME Onward(p, back) = Start, NEW r \in A, Sorted(order, Item(n), r) PROVE FALSE
    BY <1>1, <2>1, <2>4
  <2>5. ASSUME Onward(p, ~back) = Start, NEW r \in A, Sorted(order, r, Item(1)) PROVE FALSE
    <3>1. ~(asked.number > 1)
      BY <1>1, <2>5
    <3>2. Item(1) \in Rows /\ Item(n) \in Rows /\ r \in Rows
      BY <1>1, <1>2, <1>5, <2>5
    <3>3. CASE \E k \in 1..n : Item(k) = r
      <4>1. PICK k \in 1..n : Item(k) = r
        BY <3>3
      <4>2. k = 1 \/ 1 < k
        BY <1>1
      <4>3. Sorted(order, Item(1), r) \/ Item(1) = r
        BY <1>1, <4>1, <4>2
      <4>4. QED
        BY <1>3, <2>5, <3>2, <4>3, SortedIsAnOrder
    <3>4. CASE Sorted(order, Item(n), r)
      <4>1. n = 1 \/ 1 < n
        BY <1>1
      <4>2. Sorted(order, Item(1), Item(n)) \/ Item(1) = Item(n)
        BY <1>1, <4>1
      <4>3. Sorted(order, Item(1), r)
        BY <1>3, <3>2, <3>4, <4>2, SortedIsAnOrder
      <4>4. QED
        BY <1>3, <2>5, <3>2, <4>3, SortedIsAnOrder
    <3>5. QED
      BY <1>1, <2>1, <3>1, <3>3, <3>4
  <2>6. Window(p.items, back, order, A)
    BY <1>1, <1>4, <2>3 DEF Window, n, Item
  <2>7. /\ Onward(p, back) = Start => \A r \in A : ~Sorted(order, Item(n), r)
        /\ Onward(p, ~back) = Start => \A r \in A : ~Sorted(order, r, Item(1))
    BY <2>4, <2>5
  <2>8. QED
    BY <2>6, <2>7, Zenon DEF back, order, A, n, Item
<1>7. CASE Given(asked) # Start
  <2>1. PICK x \in Rows : Given(asked) = CursorAt(asked, x)
    BY <1>7 DEF Answerable
  <2>2. \A r \in A : r \in C <=> Sorted(order, x, r)
    BY <2>1, PastPlace
  <2>3. back \/ asked.after # Start
    BY <1>7 DEF Given, Back
  <2>4. ~(asked.number > 1)
    BY <1>7 DEF Answerable
  <2> HIDE DEF back, order, C, A, n, Item
  <2>5. Item(1) \in Rows /\ Item(n) \in Rows /\ Sorted(order, x, Item(1)) /\ Sorted(order, x, Item(n))
    BY <1>1, <1>2, <1>5, <2>2
  <2>6. ASSUME NEW r \in A
        PROVE  \/ \E k \in 1..n : Item(k) = r
               \/ Sorted(order, Item(n), r)
               \/ Sorted(order, r, Item(1))
    <3>1. CASE r \in C
      BY <1>1, <2>4, <3>1
    <3>2. CASE r \notin C
      <4>1. r \in Rows /\ ~Sorted(order, x, r) /\ Item(1) # r /\ Item(1) \in A
        BY <1>1, <1>2, <1>5, <2>2, <2>6, <3>2
      <4>2. Item(1).id # r.id
        BY <1>2, <2>6, <4>1 DEF Apart
      <4>3. ~Sorted(order, Item(1), r)
        BY <1>3, <2>5, <4>1, SortedIsAnOrder
      <4>4. QED
        BY <1>3, <2>5, <4>1, <4>2, <4>3, SortedIsAnOrder
    <3>3. QED
      BY <3>1, <3>2
  <2>7. ASSUME Onward(p, back) = Start, NEW r \in A, Sorted(order, Item(n), r) PROVE FALSE
    <3>1. r \in Rows
      BY <1>2, <2>7
    <3>2. Sorted(order, x, r)
      BY <1>3, <2>5, <2>7, <3>1, SortedIsAnOrder
    <3>3. QED
      BY <1>1, <2>2, <2>7, <3>2
  <2>8. Onward(p, ~back) # Start
    BY <1>1, <2>3
  <2>9. Window(p.items, back, order, A)
    BY <1>1, <1>4, <2>6 DEF Window, n, Item
  <2>10. /\ Onward(p, back) = Start => \A r \in A : ~Sorted(order, Item(n), r)
         /\ Onward(p, ~back) = Start => \A r \in A : ~Sorted(order, r, Item(1))
    BY <2>7, <2>8
  <2>11. QED
    BY <2>9, <2>10, Zenon DEF back, order, A, n, Item
<1>8. QED
  BY <1>6, <1>7

\* Seen the other way, it is one too.
LEMMA OtherWindow ==
    ASSUME NEW sort \in DOMAIN Sorts, Placed(sort), NEW back \in BOOLEAN, NEW rows \in SUBSET Rows,
           NEW items, Len(items) > 0, Window(items, back, Along(sort, back), rows)
    PROVE  Window(items, ~back, Along(sort, ~back), rows)
<1> DEFINE n == Len(items)
           order == Along(sort, back)
           other == Along(sort, ~back)
           Item(k)  == Nth(items, back, k)
           Other(k) == Nth(items, ~back, k)
<1>1. /\ items \in Seq(rows) /\ n \in Nat /\ 1 \in 1..n /\ n \in 1..n
      /\ \A j, k \in 1..n : j < k => Sorted(order, Item(j), Item(k))
      /\ \A r \in rows : \/ \E k \in 1..n : Item(k) = r
                         \/ Sorted(order, Item(n), r)
                         \/ Sorted(order, r, Item(1))
  BY DEF Window
<1>2. \A r, s \in Rows : Sorted(other, r, s) <=> Sorted(order, s, r)
  BY OtherWaySorts
<1>3. \A k \in 1..n : Other(k) = Item((n + 1) - k) /\ (n + 1) - k \in 1..n
  <2>1. \A k \in 1..Len(items) : /\ Nth(items, ~back, k) = Nth(items, back, (Len(items) + 1) - k)
                                 /\ (Len(items) + 1) - k \in 1..Len(items)
    BY <1>1, OtherWayIs
  <2>2. QED
    BY <2>1
<1>4. \A k \in 1..n : Item(k) \in Rows
  BY <1>1, NthIsThere
<1>5. Other(1) = Item(n) /\ Other(n) = Item(1)
  BY <1>1, <1>3
<1> HIDE DEF n, order, other, Item, Other
<1>6. ASSUME NEW j \in 1..n, NEW k \in 1..n, j < k PROVE Sorted(other, Other(j), Other(k))
  <2>1. (n + 1) - k < (n + 1) - j
    BY <1>1, <1>6
  <2>2. (n + 1) - k \in 1..n /\ (n + 1) - j \in 1..n
    BY <1>3
  <2>3. Sorted(order, Item((n + 1) - k), Item((n + 1) - j))
    BY <1>1, <2>1, <2>2
  <2>4. QED
    BY <1>2, <1>3, <1>4, <2>2, <2>3
<1>7. ASSUME NEW r \in rows
      PROVE  \/ \E k \in 1..n : Other(k) = r
             \/ Sorted(other, Other(n), r)
             \/ Sorted(other, r, Other(1))
  <2>1. CASE \E k \in 1..n : Item(k) = r
    <3>1. PICK k \in 1..n : Item(k) = r
      BY <2>1
    <3>2. (n + 1) - k \in 1..n /\ (n + 1) - ((n + 1) - k) = k
      BY <1>1, <3>1
    <3>3. Other((n + 1) - k) = r
      BY <1>3, <3>1, <3>2
    <3>4. QED
      BY <3>2, <3>3
  <2>2. CASE Sorted(order, Item(n), r)
    BY <1>1, <1>2, <1>4, <1>5, <2>2
  <2>3. CASE Sorted(order, r, Item(1))
    BY <1>1, <1>2, <1>4, <1>5, <2>3
  <2>4. QED
    BY <1>1, <2>1, <2>2, <2>3
<1>8. QED
  BY <1>1, <1>6, <1>7 DEF Window, n, other, Other

\* Either way, a page is a window, with nothing past its end if there is no
\* cursor there.
LEMMA EitherWindow ==
    ASSUME table \in Tables, NEW asked, Answerable(asked), Placed(asked.sort),
           NEW p, Truthful(p, asked), Len(p.items) > 0, NEW back \in BOOLEAN
    PROVE  LET order == Along(asked.sort, back)
           IN  /\ Window(p.items, back, order, Admitted(asked))
               /\ Onward(p, back) = Start =>
                     \A r \in Admitted(asked) :
                         ~Sorted(order, Nth(p.items, back, Len(p.items)), r)
<1>1. Admitted(asked) \in SUBSET Rows /\ asked.sort \in DOMAIN Sorts /\ Back(asked) \in BOOLEAN
  BY HeldIs DEF Admitted, Answerable, Back
<1>2. CASE back = Back(asked)
  BY <1>2, ReadWindow
<1>3. CASE back # Back(asked)
  <2> DEFINE along == Along(asked.sort, ~back)
             order == Along(asked.sort, back)
             A == Admitted(asked)
             n == Len(p.items)
  <2>1. Back(asked) = ~back /\ ~(~back) = back
    BY <1>1, <1>3
  <2>2. /\ Window(p.items, ~back, along, A)
        /\ Onward(p, back) = Start => \A r \in A : ~Sorted(along, r, Nth(p.items, ~back, 1))
    BY <2>1, ReadWindow
  <2>3. Window(p.items, back, order, A)
    BY <1>1, <2>1, <2>2, OtherWindow
  <2>4. p.items \in Seq(A) /\ n \in Nat /\ 1 \in 1..n
    BY <2>2 DEF Window
  <2>5. Nth(p.items, ~back, 1) = Nth(p.items, back, n) /\ Nth(p.items, ~back, 1) \in Rows
    <3>1. n = (n + 1) - 1
      BY <2>4
    <3>2. Nth(p.items, ~back, 1) = Nth(p.items, back, (n + 1) - 1)
      BY <2>4, OtherWayIs
    <3>3. Nth(p.items, ~back, 1) \in A
      BY <2>4, NthIsThere
    <3>4. QED
      BY <1>1, <3>1, <3>2, <3>3
  <2>6. \A r \in A : Sorted(order, Nth(p.items, back, n), r) <=> Sorted(along, r, Nth(p.items, back, n))
    BY <1>1, <2>5, OtherWaySorts
  <2>7. QED
    BY <2>2, <2>3, <2>5, <2>6
<1>4. QED
  BY <1>2, <1>3

-----------------------------------------------------------------------------
(* Cursors. *)

\* While nobody has written, the rows of the page are those there are.
Untouched ==
    writes = 0 => \A k \in 1..Len(page.items) : page.items[k] \in Admitted(page.asked)

LEMMA UntouchedInit ==
    Init => Untouched
BY DEF Init, NoPage, Untouched

LEMMA UntouchedNext ==
    ListingInv /\ Untouched /\ [Next]_vars => Untouched'
<1> SUFFICES ASSUME ListingInv, Untouched, [Next]_vars PROVE Untouched'
  OBVIOUS
<1>1. ASSUME NEW i \in Ids, NEW row, Write(i, row) PROVE Untouched'
  <2>1. writes' # 0
    BY <1>1, ListingAssumption DEF Write, ListingInv, CountsAre
  <2>2. QED
    BY <2>1 DEF Untouched
<1>2. ASSUME NEW asked \in Asked, Read(asked) PROVE Untouched'
  <2> DEFINE p == PageOf(asked, Reading(asked))
  <2>1. page' = p /\ table' = table /\ ~Refused(asked) /\ table \in Tables /\ PageIs
    BY <1>2 DEF Read, ListingInv
  <2>2. Truthful(p, asked) /\ KeptIs(asked)
    BY <2>1, AcceptedIs, PageIsTruthful, AskedIsKept
  <2> HIDE DEF p
  <2>3. p.items \in Seq(Candidates(asked)) /\ p.asked.where = asked.where
    BY <2>2 DEF Truthful, KeptIs
  <2>4. \A k \in 1..Len(p.items) : p.items[k] \in Admitted(asked)
    BY <2>1, <2>3, CandidatesAre
  <2>5. QED
    BY <2>1, <2>3, <2>4 DEF Untouched, Admitted, Held
<1>3. ASSUME UNCHANGED <<table, page, writes>> PROVE Untouched'
  BY <1>3 DEF Untouched, Admitted, Held
<1>4. QED
  BY <1>1, <1>2, <1>3 DEF Next, Refuse, vars

\* A page without a cursor has nothing on that side; and with one it has
\* something, unless somebody wrote or its reader began where no row need be
\* (listing.go: Page; listing_page.go: pageOf).
THEOREM CursorsAlwaysTrue ==
    Spec => CursorsAreTrue
<1> DEFINE Done == 
      page' # page /\ page'.items # << >> /\ Placed(page'.asked.sort) =>
          LET order   == Order(page'.asked.sort)
              later   == {r \in Admitted(page'.asked) : Sorted(order, Last(page'.items), r)}
              earlier == {r \in Admitted(page'.asked) : Sorted(order, r, Head(page'.items))}
          IN  /\ page'.next = Start => later = {}
              /\ page'.previous = Start => earlier = {}
              /\ writes = 0 /\ ~walk'.sought =>
                    /\ page'.next # Start => later # {}
                    /\ page'.previous # Start => earlier # {}
<1>1. ASSUME ListingInv, Untouched, [Next]_vars PROVE Done
  <2>1. SUFFICES ASSUME page' # page, page'.items # << >>, Placed(page'.asked.sort) PROVE Done
    OBVIOUS
  <2>2. PICK asked \in Asked : Read(asked)
    BY <1>1, <2>1 DEF Next, Write, Refuse, vars
  <2> DEFINE p     == PageOf(asked, Reading(asked))
             n     == Len(p.items)
             sort  == asked.sort
             order == Order(sort)
             A     == Admitted(asked)
             own   == Back(asked)
             Past(back) == \E r \in A : Sorted(Along(sort, back), Nth(p.items, back, n), r)
  <2>3. /\ page' = p /\ table' = table /\ ~Refused(asked) /\ table \in Tables /\ PageIs
        /\ walk' = Walked(asked, page'.items)
    BY <1>1, <2>2 DEF Read, ListingInv
  <2>4. Truthful(p, asked) /\ KeptIs(asked) /\ Answerable(asked)
    BY <2>3, AcceptedIs, PageIsTruthful, AskedIsKept
  <2>5. ~walk'.sought /\ Given(asked) # Start => Onwards(asked) \/ Backwards(asked)
    BY <2>3 DEF Walked, Way
  <2> HIDE DEF p
  <2>6. /\ p.asked.sort = sort /\ p.asked.where = asked.where
        /\ p.items \in Seq(Rows) /\ n \in Nat /\ n > 0 /\ 1 \in 1..n /\ n \in 1..n
        /\ sort \in DOMAIN Sorts /\ Placed(sort) /\ own \in BOOLEAN
    <3>1. p.asked.sort = sort /\ p.asked.where = asked.where
      BY <2>4 DEF Truthful, KeptIs
    <3>2. p.items \in Seq(Rows) /\ p.items # << >>
      BY <2>1, <2>3, <2>4, CandidatesAre DEF Truthful
    <3>3. Placed(sort)
      BY <2>1, <2>3, <3>1
    <3>4. QED
      BY <2>4, <3>1, <3>2, <3>3 DEF Answerable, Back
  <2>7. ASSUME NEW back \in BOOLEAN, Onward(p, back) = Start PROVE ~Past(back)
    BY <2>3, <2>4, <2>6, <2>7, EitherWindow
  <2>8. ASSUME Onward(p, own) # Start PROVE Past(own)
    BY <2>3, <2>4, <2>8, CandidatesAre DEF Truthful
  <2>9. A \subseteq Rows /\ \A k \in 1..n : p.items[k] \in A
    BY <2>3, <2>4, CandidatesAre, HeldIs DEF Truthful, Admitted
  <2>10. ASSUME Onward(p, ~own) # Start, writes = 0, ~walk'.sought PROVE Past(~own)
    <3>1. \/ asked.number > 1
          \/ Given(asked) # Start
      BY <2>4, <2>10 DEF Truthful, Given, Back
    <3>2. \E r \in A : Sorted(Along(sort, own), r, Nth(p.items, own, 1))
      <4>1. CASE asked.number > 1
        BY <2>3, <2>4, <2>6, <4>1, CandidatesAre DEF Truthful
      <4>2. CASE Given(asked) # Start
        <5>1. Onwards(asked) \/ Backwards(asked)
          BY <2>3, <2>5, <2>10, <4>2 DEF WalkIs
        <5>2. PICK k \in 1..Len(page.items) :
                  /\ Given(asked) = CursorAt(asked, page.items[k])
                  /\ Scope \cap asked.where = Scope \cap page.asked.where
          <6>1. Len(page.items) > 0
            BY <2>3, <5>1, AcceptedIs
          <6>2. /\ 1 \in 1..Len(page.items) /\ Len(page.items) \in 1..Len(page.items)
                /\ Head(page.items) = page.items[1]
                /\ Last(page.items) = page.items[Len(page.items)]
            BY <2>3, <6>1 DEF PageIs, Last
          <6>3. QED
            BY <2>3, <5>1, <6>2, AcceptedIs
        <5>3. page.items[k] \in A /\ page.items[k] \in Rows
          <6>1. page.items[k] \in Admitted(page.asked)
            BY <1>1, <2>10, <5>2 DEF Untouched
          <6>2. QED
            BY <2>9, <5>2, <6>1 DEF Admitted
        <5>4. Nth(p.items, own, 1) \in Candidates(asked) /\ Nth(p.items, own, 1) \in A
          <6>1. Nth(p.items, own, 1) \in Candidates(asked)
            BY <2>3, <2>4, <2>6, ShownOrAhead
          <6>2. QED
            BY <2>3, <6>1, CandidatesAre
        <5>5. QED
          BY <2>3, <2>4, <2>6, <5>2, <5>3, <5>4, PastPlace
      <4>3. QED
        BY <3>1, <4>1, <4>2
    <3>3. Nth(p.items, own, 1) = Nth(p.items, ~own, n) /\ Nth(p.items, own, 1) \in Rows
      <4>1. (n + 1) - n = 1
        BY <2>6
      <4>2. Nth(p.items, ~own, n) = Nth(p.items, own, (n + 1) - n)
        BY <2>6, OtherWayIs
      <4>3. Nth(p.items, own, 1) \in Rows
        BY <2>6, NthIsThere
      <4>4. QED
        BY <4>1, <4>2, <4>3
    <3>4. QED
      BY <2>6, <2>9, <3>2, <3>3, OtherWaySorts
  <2>11. /\ Onward(p, TRUE) = p.previous /\ Onward(p, FALSE) = p.next
         /\ Past(FALSE) <=> \E r \in A : Sorted(order, Last(p.items), r)
         /\ Past(TRUE) <=> \E r \in A : Sorted(order, r, Head(p.items))
    <3>1. Onward(p, TRUE) = p.previous /\ Onward(p, FALSE) = p.next
      BY DEF Onward
    <3>2. Nth(p.items, FALSE, n) = Last(p.items) /\ Nth(p.items, TRUE, n) = Head(p.items)
          /\ Head(p.items) \in Rows
      BY <2>6, EndsAre
    <3>3. \A r \in A : Sorted(Reversed(order), Head(p.items), r) <=> Sorted(order, r, Head(p.items))
      BY <2>6, <2>9, <3>2, OrderIs, ReversedSorts
    <3>4. QED
      BY <3>1, <3>2, <3>3 DEF Along
  <2> DEFINE Later   == \E r \in A : Sorted(order, Last(p.items), r)
             Earliest == \E r \in A : Sorted(order, r, Head(p.items))
  <2> HIDE DEF Past, own
  <2>12. /\ p.next = Start => ~Later
         /\ p.previous = Start => ~Earliest
         /\ writes = 0 /\ ~walk'.sought => /\ p.next # Start => Later
                                           /\ p.previous # Start => Earliest
    <3>1. /\ p.next = Start => ~Later
          /\ p.previous = Start => ~Earliest
      BY <2>7, <2>11
    <3>2. ASSUME writes = 0, ~walk'.sought, NEW back \in BOOLEAN, Onward(p, back) # Start
          PROVE  Past(back)
      BY <2>6, <2>8, <2>10, <3>2
    <3>3. QED
      BY <2>11, <3>1, <3>2
  <2>13. Admitted(page'.asked) = A /\ page'.asked.sort = sort
    BY <2>3, <2>6 DEF Admitted
  <2>14. QED
    BY <2>3, <2>12, <2>13
<1>2. QED
  <2>1. ListingInv /\ Untouched /\ [Next]_vars => [Done]_vars
    BY <1>1
  <2>2. QED
    BY <2>1, ListingInvAlways, UntouchedInit, UntouchedNext, PTL DEF Spec, CursorsAreTrue

-----------------------------------------------------------------------------
(* There and back. *)

\* A page read of the rows there are now.
Fresh(q, asked) == Answerable(asked) /\ KeptIs(asked) /\ Truthful(q, asked)

\* A page read onwards, or back, from another: it begins where that one ends.
Linked(q, from, back) ==
    \E a, b : /\ Fresh(q, a) /\ Fresh(from, b)
              /\ Back(a) = back /\ a.number = 0
              /\ a.sort = b.sort /\ Scope \cap a.where = Scope \cap b.where
              /\ Len(from.items) > 0 /\ Onward(from, back) # Start
              /\ Given(a) = CursorAt(a, Nth(from.items, back, Len(from.items)))

\* Nobody has written since the page was read, nor, if it was read from another,
\* since that one was.
CameIs ==
    /\ came.way # "written" => page = NoPage \/ \E a : Fresh(page, a)
    /\ came.way = "onward" => Linked(page, came.page, FALSE)
    /\ came.way = "back" => Linked(page, came.page, TRUE)

\* What comes after a row of a window is the next of it, or after that.
LEMMA NextInWindow ==
    ASSUME NEW order, Keyed(order), NEW rows \in SUBSET Rows, NEW back \in BOOLEAN,
           NEW s, Window(s, back, order, rows), NEW k \in 1..Len(s), k + 1 \in 1..Len(s),
           NEW r \in rows, Sorted(order, Nth(s, back, k), r)
    PROVE  r = Nth(s, back, k + 1) \/ Sorted(order, Nth(s, back, k + 1), r)
<1> DEFINE n == Len(s)
           Item(j) == Nth(s, back, j)
<1>1. /\ s \in Seq(rows) /\ n \in Nat
      /\ \A i, j \in 1..n : i < j => Sorted(order, Item(i), Item(j))
      /\ \/ \E j \in 1..n : Item(j) = r
         \/ Sorted(order, Item(n), r)
         \/ Sorted(order, r, Item(1))
  BY DEF Window
<1>2. \A j \in 1..n : Item(j) \in Rows
  BY <1>1, NthIsThere
<1>3. r \in Rows /\ Sorted(order, Item(k), r) /\ k \in 1..n /\ k + 1 \in 1..n
  OBVIOUS
<1> HIDE DEF n, Item
<1>4. 1 \in 1..n /\ n \in 1..n
  BY <1>1, <1>3
<1>5. CASE \E j \in 1..n : Item(j) = r
  <2>1. PICK j \in 1..n : Item(j) = r
    BY <1>5
  <2>2. CASE j < k
    <3>1. Sorted(order, r, Item(k))
      BY <1>1, <1>3, <2>1, <2>2
    <3>2. QED
      BY <1>2, <1>3, <3>1, SortedIsAnOrder
  <2>3. CASE j = k
    BY <1>2, <1>3, <2>1, <2>3, SortedIsAnOrder
  <2>4. CASE j = k + 1
    BY <2>1, <2>4 DEF Item
  <2>5. CASE k + 1 < j
    <3>1. Sorted(order, Item(k + 1), r)
      BY <1>1, <1>3, <2>1, <2>5
    <3>2. QED
      BY <3>1 DEF Item
  <2>6. j \in Int /\ k \in Int
    BY <1>3, <2>1
  <2>7. QED
    BY <2>2, <2>3, <2>4, <2>5, <2>6
<1>6. CASE Sorted(order, Item(n), r)
  <2>1. k + 1 = n \/ k + 1 < n
    BY <1>1, <1>3
  <2>2. Item(k + 1) = Item(n) \/ Sorted(order, Item(k + 1), Item(n))
    BY <1>1, <1>3, <1>4, <2>1
  <2>3. Sorted(order, Item(k + 1), r)
    BY <1>2, <1>3, <1>4, <1>6, <2>2, SortedIsAnOrder
  <2>4. QED
    BY <2>3 DEF Item
<1>7. CASE Sorted(order, r, Item(1))
  <2>1. k = 1 \/ 1 < k
    BY <1>1, <1>3
  <2>2. Item(1) = Item(k) \/ Sorted(order, Item(1), Item(k))
    BY <1>1, <1>3, <1>4, <2>1
  <2>3. Sorted(order, r, Item(k))
    BY <1>2, <1>3, <1>4, <1>7, <2>2, SortedIsAnOrder
  <2>4. QED
    BY <1>2, <1>3, <2>3, SortedIsAnOrder
<1>8. QED
  BY <1>1, <1>5, <1>6, <1>7

\* A window from a row, as long as it may be or to where there are no more, is
\* the only one.
LEMMA OneWindow ==
    ASSUME NEW order, Keyed(order), NEW rows \in SUBSET Rows, NEW back \in BOOLEAN,
           NEW s, Window(s, back, order, rows), Len(s) > 0,
           NEW t, Window(t, back, order, rows), Len(t) > 0,
           Nth(s, back, 1) = Nth(t, back, 1),
           NEW size \in Nat, Len(s) <= size, Len(t) <= size,
           Len(s) = size \/ \A r \in rows : ~Sorted(order, Nth(s, back, Len(s)), r),
           Len(t) = size \/ \A r \in rows : ~Sorted(order, Nth(t, back, Len(t)), r)
    PROVE  s = t
<1> DEFINE n == Len(s)
           m == Len(t)
           S(k) == Nth(s, back, k)
           T(k) == Nth(t, back, k)
<1>1. /\ s \in Seq(rows) /\ t \in Seq(rows) /\ n \in Nat /\ m \in Nat
      /\ \A i, j \in 1..n : i < j => Sorted(order, S(i), S(j))
      /\ \A i, j \in 1..m : i < j => Sorted(order, T(i), T(j))
  BY DEF Window
<1>2. /\ \A k \in 1..n : S(k) \in rows /\ S(k) \in Rows
      /\ \A k \in 1..m : T(k) \in rows /\ T(k) \in Rows
  BY <1>1, NthIsThere
<1>3. ASSUME NEW k \in 1..n, k \in 1..m, k + 1 \in 1..n, k + 1 \in 1..m, S(k) = T(k)
      PROVE  S(k + 1) = T(k + 1)
  <2>1. k < k + 1
    BY <1>1
  <2>2. /\ Sorted(order, S(k), T(k + 1)) /\ Sorted(order, T(k), S(k + 1))
        /\ S(k + 1) \in rows /\ T(k + 1) \in rows
    BY <1>1, <1>2, <1>3, <2>1
  <2>3. T(k + 1) = S(k + 1) \/ Sorted(order, S(k + 1), T(k + 1))
    BY <1>3, <2>2, NextInWindow
  <2>4. S(k + 1) = T(k + 1) \/ Sorted(order, T(k + 1), S(k + 1))
    BY <1>3, <2>2, NextInWindow
  <2>5. QED
    BY <1>2, <1>3, <2>3, <2>4, SortedIsAnOrder
<1>4. S(1) = T(1) /\ n > 0 /\ m > 0
  OBVIOUS
<1>5. /\ n <= size /\ m <= size
      /\ n = size \/ \A r \in rows : ~Sorted(order, S(n), r)
      /\ m = size \/ \A r \in rows : ~Sorted(order, T(m), r)
  OBVIOUS
<1> HIDE DEF n, m, S, T
<1>6. \A k \in Nat : k + 1 <= n /\ k + 1 <= m => S(k + 1) = T(k + 1)
  <2> DEFINE P == {k \in Nat : k + 1 <= n /\ k + 1 <= m => S(k + 1) = T(k + 1)}
  <2>1. 0 \in P
    BY <1>4
  <2>2. ASSUME NEW k \in Nat, k \in P PROVE k + 1 \in P
    <3>1. SUFFICES ASSUME (k + 1) + 1 <= n, (k + 1) + 1 <= m
                   PROVE  S((k + 1) + 1) = T((k + 1) + 1)
      OBVIOUS
    <3>2. k + 1 <= n /\ k + 1 <= m
      BY <1>1, <3>1
    <3>3. S(k + 1) = T(k + 1)
      BY <2>2, <3>2
    <3>4. k + 1 \in 1..n /\ k + 1 \in 1..m /\ (k + 1) + 1 \in 1..n /\ (k + 1) + 1 \in 1..m
      BY <1>1, <3>1, <3>2
    <3>5. QED
      BY <1>3, <3>3, <3>4
  <2> HIDE DEF P
  <2>3. Nat \subseteq P
    BY <2>1, <2>2, CountingUp
  <2>4. QED
    BY <2>3 DEF P
<1>7. \A k \in 1..n : k \in 1..m => S(k) = T(k)
  <2>1. SUFFICES ASSUME NEW k \in 1..n, k \in 1..m PROVE S(k) = T(k)
    OBVIOUS
  <2>2. k - 1 \in Nat /\ (k - 1) + 1 = k /\ k <= n /\ k <= m
    BY <1>1, <2>1
  <2>3. S((k - 1) + 1) = T((k - 1) + 1)
    BY <1>6, <2>2
  <2>4. QED
    BY <2>2, <2>3
<1>8. n = m
  <2>1. CASE n < m
    <3>1. n \in 1..n /\ n \in 1..m /\ n + 1 \in 1..m /\ n < n + 1 /\ n # size
      BY <1>1, <1>4, <1>5, <2>1
    <3>2. Sorted(order, T(n), T(n + 1)) /\ S(n) = T(n) /\ T(n + 1) \in rows
      BY <1>1, <1>2, <1>7, <3>1
    <3>3. QED
      BY <1>5, <3>1, <3>2
  <2>2. CASE m < n
    <3>1. m \in 1..m /\ m \in 1..n /\ m + 1 \in 1..n /\ m < m + 1 /\ m # size
      BY <1>1, <1>4, <1>5, <2>2
    <3>2. Sorted(order, S(m), S(m + 1)) /\ S(m) = T(m) /\ S(m + 1) \in rows
      BY <1>1, <1>2, <1>7, <3>1
    <3>3. QED
      BY <1>5, <3>1, <3>2
  <2>3. QED
    BY <1>1, <2>1, <2>2
<1>9. \A k \in 1..n : s[k] = t[k]
  <2>1. SUFFICES ASSUME NEW k \in 1..n PROVE s[k] = t[k]
    OBVIOUS
  <2>2. CASE back
    <3>1. (n + 1) - k \in 1..n /\ (n + 1) - ((n + 1) - k) = k
      BY <1>1, <2>1
    <3>2. S((n + 1) - k) = T((n + 1) - k)
      BY <1>7, <1>8, <3>1
    <3>3. S((n + 1) - k) = s[(n + 1) - ((n + 1) - k)] /\ T((n + 1) - k) = t[(m + 1) - ((n + 1) - k)]
      BY <2>2 DEF S, T, Nth, n, m
    <3>4. QED
      BY <1>8, <3>1, <3>2, <3>3
  <2>3. CASE ~back
    BY <1>7, <1>8, <2>1, <2>3 DEF S, T, Nth
  <2>4. QED
    BY <2>2, <2>3
<1>10. DOMAIN s = 1..n /\ DOMAIN t = 1..n
  BY <1>1, <1>8 DEF n, m
<1>11. QED
  BY <1>1, <1>9, <1>10

LEMMA CameIsInit ==
    Init => CameIs
BY DEF Init, CameIs

LEMMA CameIsNext ==
    ListingInv /\ CameIs /\ [Next]_vars => CameIs'
<1> SUFFICES ASSUME ListingInv, CameIs, [Next]_vars PROVE CameIs'
  OBVIOUS
<1>1. ASSUME NEW i \in Ids, NEW row, Write(i, row) PROVE CameIs'
  <2>1. came'.way = "written"
    BY <1>1 DEF Write
  <2>2. QED
    BY <2>1 DEF CameIs
<1>2. ASSUME NEW asked \in Asked, Read(asked) PROVE CameIs'
  <2> DEFINE p == PageOf(asked, Reading(asked))
  <2>1. /\ page' = p /\ table' = table /\ ~Refused(asked) /\ table \in Tables /\ PageIs
        /\ came' = [way |-> IF came.way = "written" THEN "none" ELSE Way(asked), page |-> page]
    BY <1>2 DEF Read, ListingInv
  <2>2. Fresh(p, asked)
    BY <2>1, AcceptedIs, PageIsTruthful, AskedIsKept DEF Fresh
  <2> HIDE DEF p
  <2>3. ASSUME NEW back \in BOOLEAN, came.way # "written",
               IF back THEN Backwards(asked) ELSE Onwards(asked)
        PROVE  Linked(p, page, back)
    <3>1. /\ asked.sort = page.asked.sort
          /\ Scope \cap asked.where = Scope \cap page.asked.where
          /\ page.items \in Seq(Rows) /\ Len(page.items) > 0 /\ Back(asked) = back
          /\ asked.number = 0
          /\ Given(asked) =
                CursorAt(asked, IF back THEN Head(page.items) ELSE Last(page.items))
      <4>1. Back(asked) \in BOOLEAN
        BY DEF Back
      <4>2. CASE back
        BY <2>1, <2>3, <4>1, <4>2, AcceptedIs DEF PageIs
      <4>3. CASE ~back
        BY <2>1, <2>3, <4>1, <4>3, AcceptedIs DEF PageIs
      <4>4. QED
        BY <4>2, <4>3
    <3>2. Onward(page, back) # Start
      BY <2>3 DEF Onward, Onwards, Backwards
    <3>3. Given(asked) = CursorAt(asked, Nth(page.items, back, Len(page.items)))
      BY <3>1, EndsAre
    <3>4. PICK b : Fresh(page, b)
      <4>1. page # NoPage
        BY <3>1 DEF NoPage
      <4>2. QED
        BY <2>3, <4>1 DEF CameIs
    <3>5. page.asked.sort = b.sort /\ page.asked.where = b.where
      BY <3>4 DEF Fresh, Truthful, KeptIs
    <3>6. QED
      BY <2>2, <3>1, <3>2, <3>3, <3>4, <3>5 DEF Linked
  <2>4. /\ came'.way = "onward" => came.way # "written" /\ Onwards(asked)
        /\ came'.way = "back" => came.way # "written" /\ Backwards(asked)
        /\ came'.page = page
    BY <2>1 DEF Way
  <2>5. /\ came'.way = "onward" => Linked(p, page, FALSE)
        /\ came'.way = "back" => Linked(p, page, TRUE)
    BY <2>3, <2>4
  <2>6. \A a : Fresh(p, a) => Fresh(page, a)'
    BY <2>1 DEF Fresh, Truthful, Candidates, Admitted, Held
  <2>7. /\ Linked(p, page, FALSE) => Linked(page, came.page, FALSE)'
        /\ Linked(p, page, TRUE) => Linked(page, came.page, TRUE)'
    <3>1. \A b : Fresh(page, b) => Fresh(came.page, b)'
      BY <2>1, <2>4 DEF Fresh, Truthful, Candidates, Admitted, Held
    <3>2. ASSUME NEW back \in BOOLEAN, Linked(p, page, back)
          PROVE  Linked(page, came.page, back)'
      <4>1. PICK a, b :
                /\ Fresh(p, a) /\ Fresh(page, b)
                /\ Back(a) = back /\ a.number = 0
                /\ a.sort = b.sort /\ Scope \cap a.where = Scope \cap b.where
                /\ Len(page.items) > 0 /\ Onward(page, back) # Start
                /\ Given(a) = CursorAt(a, Nth(page.items, back, Len(page.items)))
        BY <3>2 DEF Linked
      <4>2. Fresh(page, a)' /\ Fresh(came.page, b)'
        BY <2>6, <3>1, <4>1
      <4>3. QED
        BY <2>4, <4>1, <4>2 DEF Linked
    <3>3. QED
      BY <3>2
  <2>8. (\E a : Fresh(page, a))'
    BY <2>2, <2>6
  <2>9. QED
    BY <2>5, <2>7, <2>8 DEF CameIs
<1>3. ASSUME UNCHANGED <<table, page, came>> PROVE CameIs'
  <2>1. \A a : Fresh(page, a) => Fresh(page, a)'
    BY <1>3 DEF Fresh, Truthful, Candidates, Admitted, Held
  <2>2. \A a : Fresh(came.page, a) => Fresh(came.page, a)'
    BY <1>3 DEF Fresh, Truthful, Candidates, Admitted, Held
  <2>3. page' = page /\ came' = came
    BY <1>3
  <2>4. /\ Linked(page, came.page, FALSE) => Linked(page, came.page, FALSE)'
        /\ Linked(page, came.page, TRUE) => Linked(page, came.page, TRUE)'
    BY <2>1, <2>2, <2>3 DEF Linked
  <2>5. (\E a : Fresh(page, a)) => (\E a : Fresh(page, a))'
    BY <2>1
  <2>6. QED
    BY <2>3, <2>4, <2>5 DEF CameIs
<1>4. QED
  BY <1>1, <1>2, <1>3 DEF Next, Refuse, vars

\* Read the other way from a page, the page it was read from comes out.
LEMMA BackWhereOneWas ==
    ASSUME table \in Tables, NEW back \in BOOLEAN, NEW asked, NEW p, NEW m, NEW q,
           Linked(m, q, ~back), Fresh(p, asked), Placed(asked.sort),
           Back(asked) = back, asked.number = 0, asked.sort = m.asked.sort,
           Scope \cap asked.where = Scope \cap m.asked.where, Len(m.items) > 0,
           Given(asked) = CursorAt(asked, Nth(m.items, back, Len(m.items))),
           Size(p.asked) = Size(q.asked)
    PROVE  p.items = q.items
<1> DEFINE sort  == asked.sort
           order == Along(sort, back)
           other == Along(sort, ~back)
           A     == Admitted(asked)
           size  == Size(asked)
           x     == Nth(m.items, back, Len(m.items))
           z     == Nth(q.items, back, 1)
           First == Nth(p.items, back, 1)
<1>1. PICK a, b :
          /\ Fresh(m, a) /\ Fresh(q, b)
          /\ Back(a) = ~back /\ a.number = 0
          /\ a.sort = b.sort /\ Scope \cap a.where = Scope \cap b.where
          /\ Len(q.items) > 0 /\ Onward(q, ~back) # Start
          /\ Given(a) = CursorAt(a, Nth(q.items, ~back, Len(q.items)))
  BY DEF Linked
<1>2. /\ a.sort = sort /\ b.sort = sort /\ sort \in DOMAIN Sorts /\ Placed(sort)
      /\ Admitted(a) = A /\ Admitted(b) = A /\ Candidates(a) \subseteq A
      /\ Candidates(b) \subseteq A /\ Candidates(asked) \subseteq A
      /\ A \in SUBSET Rows /\ Apart(A)
  <2>1. /\ m.asked = Kept(a) /\ KeptIs(a) /\ q.asked = Kept(b) /\ KeptIs(b)
        /\ a.sort \in DOMAIN Sorts
    BY <1>1 DEF Fresh, Truthful, Answerable
  <2>2. a.sort = sort /\ Scope \cap a.where = Scope \cap asked.where
    BY <2>1 DEF KeptIs
  <2>3. Admitted(a) = A /\ Admitted(b) = A
    BY <1>1, <2>2 DEF Admitted
  <2>4. A \in SUBSET Rows /\ Apart(A)
    BY HeldIs DEF Admitted, Apart
  <2>5. QED
    BY <1>1, <2>1, <2>2, <2>3, <2>4, CandidatesAre
<1>3. Size(b) = size /\ size \in Nat /\ Len(p.items) <= size /\ Len(q.items) <= size
  <2>1. p.asked = Kept(asked) /\ KeptIs(asked) /\ q.asked = Kept(b) /\ KeptIs(b)
    BY <1>1 DEF Fresh, Truthful
  <2>2. Size(p.asked) = Size(asked) /\ Size(q.asked) = Size(b)
    BY <2>1 DEF Size, KeptIs
  <2>3. Size(asked) \in Nat /\ Len(p.items) <= Size(asked) /\ Len(q.items) <= Size(b)
    BY <1>1 DEF Fresh, Truthful, Answerable
  <2>4. QED
    BY <2>2, <2>3
<1>4. Keyed(order) /\ \A r, s \in Rows : Sorted(other, r, s) <=> Sorted(order, s, r)
  BY <1>2, AlongIs, OtherWaySorts
<1>5. /\ z = Nth(q.items, ~back, Len(q.items)) /\ z \in A
      /\ x = Nth(m.items, ~back, 1) /\ x \in Candidates(a) /\ x \in A
  <2>1. q.items \in Seq(A) /\ Len(q.items) \in Nat /\ m.items \in Seq(A) /\ Len(m.items) \in Nat
    <3>1. q.items \in Seq(Candidates(b)) /\ m.items \in Seq(Candidates(a))
      BY <1>1 DEF Fresh, Truthful
    <3> HIDE DEF A
    <3>2. QED
      BY <1>2, <3>1
  <2>2. /\ Len(q.items) \in 1..Len(q.items) /\ (Len(q.items) + 1) - Len(q.items) = 1
        /\ 1 \in 1..Len(q.items)
    BY <1>1, <2>1
  <2>3. Nth(q.items, ~back, Len(q.items)) = Nth(q.items, back, (Len(q.items) + 1) - Len(q.items))
    BY <2>1, <2>2, OtherWayIs
  <2>4. z \in A
    BY <2>1, <2>2, NthIsThere
  <2>5. 1 \in 1..Len(m.items) /\ (Len(m.items) + 1) - 1 = Len(m.items)
    BY <2>1
  <2>6. Nth(m.items, ~back, 1) = Nth(m.items, back, (Len(m.items) + 1) - 1)
    BY <2>1, <2>5, OtherWayIs
  <2>7. Nth(m.items, ~back, 1) \in Candidates(a)
    BY <1>1, ShownOrAhead DEF Fresh
  <2>8. QED
    BY <1>2, <2>2, <2>3, <2>4, <2>5, <2>6, <2>7
<1>6. x \in Rows /\ z \in Rows
  BY <1>2, <1>5
<1>7. /\ \A r \in A : r \in Candidates(a) <=> Sorted(other, z, r)
      /\ \A r \in A : r \in Candidates(asked) <=> Sorted(order, x, r)
  <2>1. \A r \in A : r \in Candidates(a) <=> Sorted(other, z, r)
    BY <1>1, <1>2, <1>5, <1>6, PastPlace DEF Fresh
  <2>2. \A r \in A : r \in Candidates(asked) <=> Sorted(order, x, r)
    BY <1>6, PastPlace DEF Fresh
  <2>3. QED
    BY <2>1, <2>2
<1>8. ASSUME NEW r \in Candidates(a) PROVE r = x \/ Sorted(other, x, r)
  <2> DEFINE n == Len(m.items)
             Item(k) == Nth(m.items, ~back, k)
  <2>1. /\ \A j, k \in 1..n : j < k => Sorted(other, Item(j), Item(k))
        /\ (\E k \in 1..n : Item(k) = r) \/ Sorted(other, Item(n), r)
        /\ n \in Nat /\ n > 0 /\ m.items \in Seq(A)
    BY <1>1, <1>2, <1>8 DEF Fresh, Truthful
  <2>2. \A k \in 1..n : Item(k) \in Rows
    BY <1>2, <2>1, NthIsThere
  <2>3. Item(1) = x /\ r \in Rows /\ Keyed(other)
    BY <1>2, <1>5, <1>8, AlongIs
  <2> HIDE DEF n, Item, x, z, other
  <2>4. 1 \in 1..n /\ n \in 1..n /\ (n = 1 \/ 1 < n)
    BY <2>1
  <2>5. CASE \E k \in 1..n : Item(k) = r
    <3>1. PICK k \in 1..n : Item(k) = r
      BY <2>5
    <3>2. k = 1 \/ 1 < k
      BY <2>1, <3>1
    <3>3. QED
      BY <2>1, <2>3, <2>4, <3>1, <3>2
  <2>6. CASE Sorted(other, Item(n), r)
    <3>1. Item(1) = Item(n) \/ Sorted(other, Item(1), Item(n))
      BY <2>1, <2>4
    <3>2. QED
      BY <2>2, <2>3, <2>4, <2>6, <3>1, SortedIsAnOrder
  <2>7. QED
    BY <2>1, <2>5, <2>6
<1>9. z \in Candidates(asked)
  <2>1. Sorted(other, z, x)
    BY <1>5, <1>7
  <2>2. Sorted(order, x, z)
    BY <1>4, <1>6, <2>1
  <2>3. QED
    BY <1>5, <1>7, <2>2
<1>10. ASSUME NEW r \in Candidates(asked) PROVE r = z \/ Sorted(order, z, r)
  <2>1. r \in A /\ r \in Rows /\ Sorted(order, x, r)
    BY <1>2, <1>7, <1>10
  <2>2. ~Sorted(order, r, z)
    <3>1. SUFFICES ASSUME Sorted(order, r, z) PROVE FALSE
      OBVIOUS
    <3>2. r \in Candidates(a)
      BY <1>4, <1>6, <1>7, <2>1, <3>1
    <3>3. r = x \/ Sorted(order, r, x)
      BY <1>4, <1>6, <1>8, <2>1, <3>2
    <3>4. QED
      BY <1>4, <1>6, <2>1, <3>3, SortedIsAnOrder
  <2>3. r.id = z.id => r = z
    BY <1>2, <1>5, <2>1 DEF Apart
  <2>4. QED
    BY <1>4, <1>6, <2>1, <2>2, <2>3, SortedIsAnOrder
<1>11. Len(p.items) > 0 /\ First = z
  <2> DEFINE n == Len(p.items)
             Item(k) == Nth(p.items, back, k)
  <2>1. /\ \A j, k \in 1..n : j < k => Sorted(order, Item(j), Item(k))
        /\ (\E k \in 1..n : Item(k) = z) \/ (n > 0 /\ Sorted(order, Item(n), z))
        /\ n \in Nat /\ p.items \in Seq(Candidates(asked))
    BY <1>9 DEF Fresh, Truthful
  <2>2. \A k \in 1..n : Item(k) \in Candidates(asked) /\ Item(k) \in Rows
    BY <1>2, <2>1, NthIsThere
  <2>3. First = Item(1)
    OBVIOUS
  <2> HIDE DEF n, Item, z, order
  <2>4. n > 0 /\ 1 \in 1..n /\ n \in 1..n
    BY <2>1
  <2>5. \A k \in 1..n : Item(k) = z \/ Sorted(order, z, Item(k))
    BY <1>10, <2>2
  <2>6. ~Sorted(order, Item(n), z)
    BY <1>4, <1>6, <2>2, <2>4, <2>5, SortedIsAnOrder
  <2>7. PICK k \in 1..n : Item(k) = z
    BY <2>1, <2>6
  <2>8. k = 1 \/ 1 < k
    BY <2>1, <2>7
  <2>9. CASE 1 < k
    <3>1. Sorted(order, Item(1), z)
      BY <2>1, <2>4, <2>7, <2>9
    <3>2. QED
      BY <1>4, <1>6, <2>2, <2>4, <2>5, <3>1, SortedIsAnOrder
  <2>10. CASE k = 1
    BY <2>3, <2>4, <2>7, <2>10 DEF n
  <2>11. QED
    BY <2>8, <2>9, <2>10
<1>12. /\ Window(p.items, back, order, A)
       /\ Len(p.items) = size \/ \A r \in A : ~Sorted(order, Nth(p.items, back, Len(p.items)), r)
  <2>1. /\ Window(p.items, back, order, A)
        /\ Onward(p, back) = Start =>
              \A r \in A : ~Sorted(order, Nth(p.items, back, Len(p.items)), r)
    BY <1>11, EitherWindow DEF Fresh
  <2>2. Onward(p, back) # Start => Len(p.items) = size
    BY DEF Fresh, Truthful
  <2>3. QED
    BY <2>1, <2>2
<1>13. /\ Window(q.items, back, order, A)
       /\ Len(q.items) = size \/ \A r \in A : ~Sorted(order, Nth(q.items, back, Len(q.items)), r)
  <2>1. /\ Window(q.items, back, order, A)
        /\ Onward(q, back) = Start =>
              \A r \in A : ~Sorted(order, Nth(q.items, back, Len(q.items)), r)
    BY <1>1, <1>2, EitherWindow DEF Fresh
  <2>2. Onward(q, Back(b)) # Start => Len(q.items) = size
    BY <1>1, <1>3 DEF Fresh, Truthful
  <2>3. Back(b) = back \/ Back(b) = ~back
    BY DEF Back
  <2>4. QED
    BY <1>1, <2>1, <2>2, <2>3
<1>14. QED
  BY <1>1, <1>2, <1>3, <1>4, <1>11, <1>12, <1>13, OneWindow

\* Going on and back, or back and on, when nobody wrote meanwhile, is being
\* where one was, whatever the rows, the sort and the size of page
\* (listing_page.go: reversed, pageOf).
THEOREM ThereAndBackAgain ==
    Spec => ThereAndBack
<1> DEFINE Done ==
      /\ reads' # reads /\ Placed(page'.asked.sort) /\ Same(page', came.page)
      /\ {came.way, came'.way} = {"onward", "back"}
      => page'.items = came.page.items
<1>1. ASSUME ListingInv, CameIs, [Next]_vars PROVE Done
  <2>1. SUFFICES ASSUME reads' # reads, Placed(page'.asked.sort), Same(page', came.page),
                        {came.way, came'.way} = {"onward", "back"}
                 PROVE  page'.items = came.page.items
    OBVIOUS
  <2>2. came' # came
    BY <2>1
  <2>3. PICK asked \in Asked : Read(asked)
    BY <1>1, <2>1, <2>2 DEF Next, Write, Refuse, vars
  <2> DEFINE p == PageOf(asked, Reading(asked))
  <2>4. /\ page' = p /\ ~Refused(asked) /\ table \in Tables /\ PageIs
        /\ came' = [way |-> IF came.way = "written" THEN "none" ELSE Way(asked), page |-> page]
    BY <1>1, <2>3 DEF Read, ListingInv
  <2>5. Fresh(p, asked)
    BY <2>4, AcceptedIs, PageIsTruthful, AskedIsKept DEF Fresh
  <2> HIDE DEF p
  <2>6. Placed(asked.sort) /\ Size(p.asked) = Size(came.page.asked)
    BY <2>1, <2>4, <2>5 DEF Fresh, Truthful, KeptIs, Same
  <2>7. PICK back \in BOOLEAN :
            /\ IF back THEN Backwards(asked) ELSE Onwards(asked)
            /\ Linked(page, came.page, ~back)
    <3>1. \/ came.way = "onward" /\ came'.way = "back"
          \/ came.way = "back" /\ came'.way = "onward"
      BY <2>1
    <3>2. CASE came.way = "onward" /\ came'.way = "back"
      <4>1. Backwards(asked) /\ Linked(page, came.page, FALSE)
        BY <1>1, <2>4, <3>2 DEF CameIs, Way
      <4>2. ~TRUE = FALSE
        OBVIOUS
      <4>3. QED
        BY <4>1, <4>2
    <3>3. CASE came.way = "back" /\ came'.way = "onward"
      <4>1. Onwards(asked) /\ Linked(page, came.page, TRUE)
        BY <1>1, <2>4, <3>3 DEF CameIs, Way
      <4>2. ~FALSE = TRUE
        OBVIOUS
      <4>3. QED
        BY <4>1, <4>2
    <3>4. QED
      BY <3>1, <3>2, <3>3
  <2>8. /\ asked.sort = page.asked.sort
        /\ Scope \cap asked.where = Scope \cap page.asked.where
        /\ page.items \in Seq(Rows) /\ Len(page.items) > 0 /\ Back(asked) = back
        /\ asked.number = 0
        /\ Given(asked) = CursorAt(asked, Nth(page.items, back, Len(page.items)))
    <3>1. Back(asked) \in BOOLEAN
      BY DEF Back
    <3>2. CASE back
      BY <2>4, <2>7, <3>1, <3>2, AcceptedIs, EndsAre DEF PageIs
    <3>3. CASE ~back
      BY <2>4, <2>7, <3>1, <3>3, AcceptedIs, EndsAre DEF PageIs
    <3>4. QED
      BY <3>2, <3>3
  <2>9. p.items = came.page.items
    <3> DEFINE m == page
               q == came.page
               x == Nth(m.items, back, Len(m.items))
    <3>1. /\ table \in Tables /\ Linked(m, q, ~back) /\ Fresh(p, asked) /\ Placed(asked.sort)
          /\ Back(asked) = back /\ asked.number = 0 /\ asked.sort = m.asked.sort
          /\ Scope \cap asked.where = Scope \cap m.asked.where /\ Len(m.items) > 0
          /\ Given(asked) = CursorAt(asked, x) /\ Size(p.asked) = Size(q.asked)
      BY <2>4, <2>5, <2>6, <2>7, <2>8
    <3> HIDE DEF m, q
    <3>2. p.items = q.items
      BY <3>1, BackWhereOneWas
    <3>3. QED
      BY <3>2 DEF q
  <2>10. QED
    BY <2>4, <2>9
<1>2. QED
  <2>1. ListingInv /\ CameIs /\ [Next]_vars => [Done]_vars
    BY <1>1
  <2>2. QED
    BY <2>1, ListingInvAlways, CameIsInit, CameIsNext, PTL DEF Spec, ThereAndBack
=============================================================================
