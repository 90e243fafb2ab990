-------------------------------- MODULE Lists --------------------------------
(***************************************************************************)
(* Lists made of the items of a list: some of them in their order, as      *)
(* filter and retain leave them, or all of them in another.                *)
(***************************************************************************)
EXTENDS Integers, FiniteSets, Sequences

(* The items at the positions S, each in its place.                         *)
Arranged(items, S, place) ==
    [n \in 1 .. Cardinality(S) |-> items[CHOOSE j \in S : place[j] = n]]

(* The items at the positions S, in their order.                            *)
Those(items, S) == Arranged(items, S, [j \in S |-> Cardinality({i \in S : i <= j})])
=============================================================================
