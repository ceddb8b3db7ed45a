---------------------------- MODULE MCCollection ----------------------------
(* Collections small enough for TLC. *)
EXTENDS Collection, TLC

CONSTANTS e1, e2, e3, w1, w2

OneWriter  == {w1}
TwoWriters == {w1, w2}

TwoElements   == {e1, e2}
ThreeElements == {e1, e2, e3}

\* All that is done at the end, and insertions in the gap after one element.
AtLast ==
    {j \in Jobs : j.at = "last" \/ (j.at = "after" /\ j.does = "insert" /\ j.beside = e1)}

Removals == {j \in Jobs : j.does = "remove"}
=============================================================================
