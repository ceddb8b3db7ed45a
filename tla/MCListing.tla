----------------------------- MODULE MCListing -----------------------------
(* A listing small enough for TLC. *)
EXTENDS Listing

ByRank(descending, nulls) ==
    <<[column |-> "rank", descending |-> descending, nulls |-> nulls]>>

\* Up with the nulls at the end, down with them at the front, and one that does
\* not say where they go.
ThreeSorts == <<ByRank(FALSE, "last"), ByRank(TRUE, "first"), ByRank(FALSE, "unstated")>>

\* Any table of two rows or three.
AFew ==
    {t \in Tables : Cardinality({i \in Ids : t[i] = NoRow}) < 2}

All == {1, 2, 3}

TheMiddle == {r \in Rows : r.id = 2}
=============================================================================
