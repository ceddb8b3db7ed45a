------------------------------ MODULE MCLibrary ------------------------------
(* A library small enough for TLC. *)
EXTENDS Library, TLC

CONSTANTS p1, p2, p3, t1, t2

\* One lends and opens transactions in transactions; the others put books there
\* in either order, and read.
Anything(p) ==
    CASE p = p1 -> {Take(t1), Nested(t2)}
      [] p = p2 -> {Restock(<<t1, t2>>)}
      [] p = p3 -> {OnlyOne, All, Add(t1), Restock(<<t2, t1>>)}
=============================================================================
