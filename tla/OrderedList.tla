---------------------------- MODULE OrderedList ----------------------------
(***************************************************************************)
(* The keys of one owner's collection while nobody else changes it: every  *)
(* placement finds its neighbours and makes a key between them             *)
(* (sql/collection_places.go), and the whole list may be spread evenly.    *)
(***************************************************************************)
EXTENDS OrderKeys

CONSTANTS
    Longest,  \* longestOrderKey: a key past this has the list rewritten
    MaxKeys   \* bound: how many elements the list grows to

VARIABLE keys \* the keys of the elements, in the order the elements stand

Init == keys = << >>

Before(i) == IF i = 0 THEN NoKey ELSE keys[i]
After(i)  == IF i = Len(keys) THEN NoKey ELSE keys[i + 1]

\* The key of an element put after the first i.
Put(i) ==
    /\ Len(keys) < MaxKeys
    /\ ~OutOfOrder(Before(i), After(i))
    /\ LET key == OrderKeyBetween(Before(i), After(i)) IN
       /\ Len(key) <= Longest
       /\ keys' = SubSeq(keys, 1, i) \o <<key>> \o SubSeq(keys, i + 1, Len(keys))

Grown == \E i \in 0..Len(keys) : Len(OrderKeyBetween(Before(i), After(i))) > Longest

\* rewriteKeys, all of it: what a placement whose key grew too long has first.
Rewrite ==
    /\ Grown
    /\ keys' = EvenKeys(Len(keys))

Full == Len(keys) = MaxKeys /\ ~Grown /\ UNCHANGED keys

Next ==
    \/ \E i \in 0..Len(keys) : Put(i)
    \/ Rewrite
    \/ Full

Spec == Init /\ [][Next]_keys

\* Every key is one, and they sort the way the elements stand: no placement of
\* the next element can be refused.
InOrder ==
    /\ \A i \in 1..Len(keys) : keys[i] \in Keys
    /\ \A i, j \in 1..Len(keys) : i < j => Less(keys[i], keys[j])

\* The midpoint of any two keys of the list, or of one and an end of it, is what
\* the recursive function of order_keys.go computes.
MidpointAsWritten ==
    \A i, j \in 0..(Len(keys) + 1) :
        i < j => LET low  == IF i = 0 THEN NoKey ELSE keys[i]
                     high == IF j > Len(keys) THEN NoKey ELSE keys[j]
                 IN  Midpoint(low, high) = MidpointWritten[<<low, high>>]

\* "Spaced evenly, so each has a gap beside it": straight after the keys are
\* rewritten every place between two of them takes a key of their own width.
RewritingMakesRoom ==
    [][keys # << >> /\ Len(keys') = Len(keys) /\ keys' # keys =>
          \A i \in 1..(Len(keys) - 1) :
              Len(OrderKeyBetween(keys'[i], keys'[i + 1])) <= Width(Len(keys))]_keys
=============================================================================
