--------------------------- MODULE ListPositions ---------------------------
(***************************************************************************)
(* Where each element of a saved list stands (sql/repository_positions.go):*)
(* the longest run of stored positions that still increases is kept, every *)
(* other element goes between its neighbours', and a list with no room     *)
(* left is numbered afresh.  Lists are indexed from 1; known are those     *)
(* whose element is stored, positions[i] where.                            *)
(***************************************************************************)
EXTENDS Integers, Sequences

CONSTANTS
    Gap,       \* positionGap: 1024
    Lowest,    \* math.MinInt32, what the position column holds
    Highest    \* math.MaxInt32

ASSUME PositionsAssumption ==
    Gap \in Nat \ {0} /\ Lowest \in Int /\ Highest \in Int

Numbered(n) == [i \in 1..n |-> (i - 1) * Gap]

\* sort.Search: the first run that does not end below the position.
RunFor(tails, positions, p) ==
    CHOOSE k \in 1..Len(tails) + 1 :
        /\ k <= Len(tails) => positions[tails[k]] >= p
        /\ \A j \in 1..k - 1 : positions[tails[j]] < p

\* tails[k] ends the best run of length k; previous[i] is what i follows in its.
Runs(positions, known) ==
    LET n == Len(positions)
        runs[i \in 0..n] ==
            IF i = 0 THEN [tails |-> << >>, previous |-> [j \in 1..n |-> 0]]
            ELSE LET was == runs[i - 1]
                     k == RunFor(was.tails, positions, positions[i])
                 IN  IF i \notin known THEN was
                     ELSE [tails |-> [j \in 1..(IF k > Len(was.tails) THEN k ELSE Len(was.tails)) |->
                                         IF j = k THEN i ELSE was.tails[j]],
                           previous |-> [was.previous EXCEPT
                               ![i] = IF k = 1 THEN 0 ELSE was.tails[k - 1]]]
    IN  runs[n]

\* Mutant: those that stay are taken from the front, while they increase.
InOrderFromTheFront(positions, known) ==
    {i \in known : \A j \in known : j < i => positions[j] < positions[i]}

\* The elements that need not move.
LongestIncreasing(positions, known) ==
    LET r == Runs(positions, known)
        back[i \in 0..Len(positions)] == IF i = 0 THEN {} ELSE {i} \cup back[r.previous[i]]
    IN  IF r.tails = << >> THEN {} ELSE back[r.tails[Len(r.tails)]]

\* What is kept next below and next above an element that is not.
Lower(kept, i) == CHOOSE l \in kept : l < i /\ \A k \in kept : k < i => k <= l
Upper(kept, i) == CHOOSE u \in kept : i < u /\ \A k \in kept : i < k => u <= k

HasLower(kept, i) == \E k \in kept : k < i
HasUpper(kept, i) == \E k \in kept : i < k

PlacedAt(positions, kept, i) ==
    LET l == Lower(kept, i)
        u == Upper(kept, i)
    IN  CASE i \in kept -> positions[i]
          [] kept = {} -> (i - 1) * Gap
          [] i \notin kept /\ kept # {} /\ ~HasLower(kept, i) -> positions[u] - (u - i) * Gap
          [] i \notin kept /\ HasLower(kept, i) /\ ~HasUpper(kept, i) -> positions[l] + (i - l) * Gap
          [] i \notin kept /\ HasLower(kept, i) /\ HasUpper(kept, i) ->
                positions[l] + ((positions[u] - positions[l]) * (i - l)) \div (u - l)

\* Between two kept neighbours there is a position for each that goes there.
Room(positions, kept) ==
    \A i \in DOMAIN positions \ kept :
        HasLower(kept, i) /\ HasUpper(kept, i) =>
            positions[Upper(kept, i)] - positions[Lower(kept, i)]
                >= Upper(kept, i) - Lower(kept, i)

\* Mutant: positions beyond what the column holds.
PlaceAnywhere(positions, kept) ==
    IF Room(positions, kept) THEN [i \in DOMAIN positions |-> PlacedAt(positions, kept, i)]
    ELSE Numbered(Len(positions))

PlaceKeeping(positions, kept) ==
    LET placed == [i \in DOMAIN positions |-> PlacedAt(positions, kept, i)]
    IN  IF Room(positions, kept) /\ \A i \in DOMAIN positions : placed[i] \in Lowest..Highest
        THEN placed
        ELSE Numbered(Len(positions))

PlaceList(positions, known) == PlaceKeeping(positions, LongestIncreasing(positions, known))
=============================================================================
