------------------------------ MODULE RowOrder ------------------------------
(***************************************************************************)
(* The order in which a query returns rows.  A row is a pair of its class  *)
(* and its id; rows come in the order of their ids.                        *)
(***************************************************************************)
EXTENDS Integers, FiniteSets

Ascending(rows) == {p \in rows \X rows : p[1][2] < p[2][2]}
Descending(rows) == {p \in rows \X rows : p[1][2] > p[2][2]}

\* The rows, each once, such that each is before all that follow it.
Ordered(rows, before) ==
    CHOOSE s \in [1..Cardinality(rows) -> rows] :
        \A j, k \in 1..Cardinality(rows) : j < k => <<s[j], s[k]>> \in before
=============================================================================
