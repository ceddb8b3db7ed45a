----------------------------- MODULE MCMigrate -----------------------------
(* Histories and replicas small enough for TLC. *)
EXTENDS Migrate

CONSTANTS a, b

\* a runs the newest build, b one that knows a version fewer.
BothKnowAll == [p \in Instances |-> Latest]
OneIsOlder  == [p \in Instances |-> IF p = a THEN Latest ELSE Latest - 1]

AskAnything == [p \in Instances |-> 0..Knows[p]]
AskLatest   == [p \in Instances |-> {Latest}]

AnyVersion == 0..Latest
Migrated   == 1..Latest
FirstOnly  == {1}
NoLeg      == {}

\* One of each kind of step: making tables takes two statements, 1 to 2 is a
\* recomputation (a column, the rows, a column), 2 to 3 can be run again.
MixedSteps ==
    [l \in Legs |->
        CASE l[1] = 0    -> <<"once", "once">>
          [] l = <<1, 2>> -> <<"once", "rows", "once">>
          [] l = <<2, 3>> -> <<"again">>
          [] OTHER       -> <<"once">>]

\* The same lengths, of statements the server runs only once.
OnceOnly ==
    [l \in Legs |-> IF l = <<1, 2>> THEN <<"once", "once", "once">>
                    ELSE <<"once", "once">>]

\* The dialect cannot spell the way back from 3 to 2.
NoWayBack == {<<3, 2>>}
=============================================================================
