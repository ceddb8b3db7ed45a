---------------------------- MODULE MCRepository ----------------------------
(* A repository small enough for TLC. *)
EXTENDS Repository, TLC

CONSTANTS e1, e2, e3, s1, s2, v1, v2, v3

ThreeElements == {e1, e2, e3}
TwoSessions == {s1, s2}

MinusFour == -4

\* A mapping with unique values besides its keys, and one without.
SomeMappings == {[alsoUnique |-> b, uniqueValues |-> b] : b \in BOOLEAN}

\* Each element's own value, so that no list of them is refused.
Own(e) == CASE e = e1 -> v1 [] e = e2 -> v2 [] e = e3 -> v3

Plain(l) == l.value = Own(l.key) /\ (l.noted <=> l.key = e1)

\* Three elements in every order, and two of them, each with its own value.
Orders ==
    {a \in Aggregates :
        /\ a.name = v1 /\ \A i \in DOMAIN a.list : Plain(a.list[i])
        /\ Len(a.list) = 3 \/ KeysOf(a.list) = <<e2, e1>>}

Listed(n, l) == [name |-> n, list |-> l]
Line1(v, noted) == [key |-> e1, value |-> v, noted |-> noted]
Line2(v) == [key |-> e2, value |-> v, noted |-> FALSE]
Line3(v) == [key |-> e3, value |-> v, noted |-> FALSE]

\* Other values: exchanged by two elements, one's taken over by another as it
\* goes, a root's that another aggregate holds, what is beneath one gone.
Others ==
    {Listed(v1, <<Line1(v2, FALSE), Line2(v1)>>),
     Listed(v2, <<Line3(v1)>>),
     Listed(v3, <<Line2(v2), Line1(v1, FALSE)>>)}

InThree == Listed(v1, <<Line1(v1, TRUE), Line2(v2), Line3(v3)>>)
OneInThree == {InThree}
InOne   == Listed(v2, <<Line1(v3, TRUE)>>)

Writing ==
    [does : {"save"}, value : Orders \cup Others] \cup [does : {"change"}, value : Orders]
RootOnly == [does : {"saveRoot"}, value : {InOne, Listed(v3, << >>)}]
Reading == [does : {"find", "delete"}, value : {NoAggregate}]
New == [does : {"insert"}, value : {InOne}]

\* One session asks for everything, beside it another for little.
Beside(w) ==
    IF w = s1 THEN Writing \cup RootOnly \cup Reading \cup New
    ELSE {[does |-> "delete", value |-> NoAggregate], [does |-> "save", value |-> InOne]}
=============================================================================
